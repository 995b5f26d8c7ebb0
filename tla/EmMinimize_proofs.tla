-------------------------- MODULE EmMinimize_proofs --------------------------
(***************************************************************************)
(* Theorems about EmMinimize, for every recording, every device and every   *)
(* size of the ranges.                                                      *)
(*                                                                          *)
(* The functions of the minimizer rely on what their callers left behind:   *)
(* the stack of ranges is empty when a pass ends and begins, and it is not  *)
(* when a range is tested, across the time in which the device runs.  Stack *)
(* says so for every place of the search.                                   *)
(*                                                                          *)
(* That the device still fails on what is kept (Failed) rests on what it    *)
(* was given: the iterator, fPenIsDown and the mask say exactly which       *)
(* events that was, although GetNextReplayEvent decides one event at a time *)
(* and CullEvents decides all at once (Shown, Playing); and what it failed  *)
(* on is the beginning of every replay that agrees so far (Beginning).      *)
(*                                                                          *)
(* That the list that is saved is minimal (Minimized) is what the passes    *)
(* decide: up to where a pass is, every event is known to be needed, or one *)
(* that is not a pen up is discarded and another pass follows (Decided).    *)
(* The last pass replays everything, and so it ends because the device      *)
(* fails (LastFails, Ending).                                               *)
(***************************************************************************)
EXTENDS EmMinimize, FiniteSetTheorems, SequenceTheorems, WellFoundedInduction, TLAPS

Levels == [fBegin : Nat, fEnd : Nat, fChecked : BOOLEAN]

-----------------------------------------------------------------------------
(* The operators of EmEventPlayback. *)

\* The elements of a set of indices are counted through.
LEMMA Nth ==
  ASSUME NEW N \in Nat, NEW E \in SUBSET (1 .. N)
  PROVE  /\ IsFiniteSet(E)
         /\ Cardinality(E) \in 0 .. N
         /\ \A n \in 1 .. Cardinality(E) :
              \E i \in E : Cardinality({j \in E : j <= i}) = n
<1> DEFINE upto(i) == {j \in E : j <= i}
           k       == Cardinality(E)
           f       == [i \in E |-> Cardinality(upto(i))]
<1>1. IsFiniteSet(1 .. N) /\ Cardinality(1 .. N) = N
  BY FS_Interval
<1>2. IsFiniteSet(E) /\ k \in 0 .. N
  <2>1. IsFiniteSet(E) /\ k <= N
    BY <1>1, FS_Subset
  <2>2. k \in Nat
    BY <2>1, FS_CardinalityType
  <2> HIDE DEF k
  <2>3. QED
    BY <2>1, <2>2
<1>3. \A i \in E : /\ IsFiniteSet(upto(i))
                   /\ Cardinality(upto(i)) \in 1 .. k
  <2> SUFFICES ASSUME NEW i \in E
               PROVE  IsFiniteSet(upto(i)) /\ Cardinality(upto(i)) \in 1 .. k
    OBVIOUS
  <2>1. upto(i) \in SUBSET E /\ upto(i) # {}
    <3>1. i \in upto(i)
      OBVIOUS
    <3>2. QED
      BY <3>1
  <2> HIDE DEF upto
  <2>2. IsFiniteSet(upto(i)) /\ Cardinality(upto(i)) <= k
    BY <2>1, <1>2, FS_Subset
  <2>3. Cardinality(upto(i)) \in Nat /\ Cardinality(upto(i)) # 0
    BY <2>1, <2>2, FS_CardinalityType, FS_EmptySet
  <2>4. QED
    BY <2>2, <2>3, <1>2
<1>4. \A i, j \in E : f[i] = f[j] => i = j
  <2>1. \A i, j \in E : i < j => f[i] # f[j]
    <3> SUFFICES ASSUME NEW i \in E, NEW j \in E, i < j
                 PROVE  f[i] # f[j]
      OBVIOUS
    <3>1. upto(i) \in SUBSET upto(j) /\ upto(i) # upto(j)
      <4>1. j \in upto(j) /\ j \notin upto(i)
        OBVIOUS
      <4>2. \A x \in upto(i) : x \in upto(j)
        OBVIOUS
      <4>3. QED
        BY <4>1, <4>2
    <3>2. IsFiniteSet(upto(j))
      BY <1>3
    <3> HIDE DEF upto
    <3>3. Cardinality(upto(j)) # Cardinality(upto(i))
      BY <3>1, <3>2, FS_Subset
    <3>4. QED
      BY <3>3
  <2> HIDE DEF f
  <2>2. QED
    BY <2>1
<1>5. f \in Injection(E, 1 .. k)
  <2>1. f \in [E -> 1 .. k]
    BY <1>3
  <2> HIDE DEF f, k
  <2>2. QED
    BY <2>1, <1>4 DEF Injection, IsInjective
<1>6. IsFiniteSet(1 .. k) /\ Cardinality(1 .. k) = k
  BY <1>2, FS_Interval
<1>7. f \in Surjection(E, 1 .. k)
  <2> HIDE DEF f
  <2>1. Cardinality(E) = Cardinality(1 .. k)
    BY <1>6
  <2> HIDE DEF k
  <2>2. QED
    BY <1>5, <1>6, <2>1, FS_Injection
<1>8. \A n \in 1 .. k : \E i \in E : f[i] = n
  <2> HIDE DEF f, k
  <2>1. QED
    BY <1>7 DEF Surjection
<1>9. QED
  BY <1>2, <1>8

\* CullEvents leaves a list of events, no longer than it was.
LEMMA ReplayTyped ==
  ASSUME NEW events \in Seq(Events), NEW mask
  PROVE  /\ CountEnabledEvents(events, mask) \in 0 .. Len(events)
         /\ Replay(events, mask) \in Seq(Events)
         /\ Len(Replay(events, mask)) = CountEnabledEvents(events, mask)
<1> DEFINE E      == Enabled(events, mask)
           k      == CountEnabledEvents(events, mask)
           nth(n) == CHOOSE i \in E : Cardinality({j \in E : j <= i}) = n
           e(n)   == events[nth(n)]
<1>1. Len(events) \in Nat /\ E \in SUBSET (1 .. Len(events))
  BY LenProperties DEF Enabled
<1>2. /\ k = Cardinality(E) /\ k \in 0 .. Len(events)
      /\ \A n \in 1 .. Cardinality(E) : \E i \in E : Cardinality({j \in E : j <= i}) = n
  <2> HIDE DEF E
  <2>1. /\ Cardinality(E) \in 0 .. Len(events)
        /\ \A n \in 1 .. Cardinality(E) : \E i \in E : Cardinality({j \in E : j <= i}) = n
    BY <1>1, Nth
  <2>2. k = Cardinality(E)
    BY DEF CountEnabledEvents, E
  <2>3. QED
    BY <2>1, <2>2
<1>3. \A n \in 1 .. k : nth(n) \in E
  <2> HIDE DEF E, k
  <2> SUFFICES ASSUME NEW n \in 1 .. k PROVE nth(n) \in E
    OBVIOUS
  <2>1. \E i \in E : Cardinality({j \in E : j <= i}) = n
    BY <1>2
  <2>2. QED
    BY <2>1
<1>4. \A n \in 1 .. k : e(n) \in Events
  <2> HIDE DEF nth, E, k
  <2>1. QED
    BY <1>1, <1>3, ElementOfSeq
<1>5. Replay(events, mask) = [n \in 1 .. k |-> e(n)]
  BY DEF Replay
<1>6. [n \in 1 .. k |-> e(n)] \in Seq(Events)
  <2> HIDE DEF e, k
  <2>1. QED
    BY <1>4, <1>2, IsASeq
<1>7. Len([n \in 1 .. k |-> e(n)]) = k
  <2> HIDE DEF e, k
  <2>1. k \in Nat
    BY <1>2
  <2>2. QED
    BY <2>1
<1>8. QED
  BY <1>2, <1>5, <1>6, <1>7

\* After it, nothing is masked out.
LEMMA AllEnabledTyped ==
  ASSUME NEW events \in Seq(Events)
  PROVE  /\ AllEnabled(events) \in Seq(BOOLEAN)
         /\ Len(AllEnabled(events)) = Len(events)
         /\ \A i \in 1 .. Len(AllEnabled(events)) : AllEnabled(events)[i]
<1> DEFINE e(i) == TRUE
<1>1. Len(events) \in Nat
  BY LenProperties
<1>2. AllEnabled(events) = [i \in 1 .. Len(events) |-> e(i)]
  BY DEF AllEnabled
<1>3. \A i \in 1 .. Len(events) : e(i) \in BOOLEAN
  OBVIOUS
<1>4. AllEnabled(events) \in Seq(BOOLEAN)
  <2> HIDE DEF e
  <2>1. QED
    BY <1>1, <1>2, <1>3, IsASeq
<1>5. Len(AllEnabled(events)) = Len(events)
  BY <1>1 DEF AllEnabled
<1>6. QED
  BY <1>4, <1>5 DEF AllEnabled

\* EnableEvents and DisableEvents change the mask within their range.
LEMMA SetEventsTyped ==
  ASSUME NEW mask \in Seq(BOOLEAN), NEW begin \in Nat, NEW end \in Nat, NEW value \in BOOLEAN
  PROVE  /\ SetEvents(mask, begin, end, value) \in Seq(BOOLEAN)
         /\ Len(SetEvents(mask, begin, end, value)) = Len(mask)
         /\ \A i \in 1 .. Len(mask) :
              SetEvents(mask, begin, end, value)[i]
                = IF begin < i /\ i <= end THEN value ELSE mask[i]
<1> DEFINE e(i) == IF begin < i /\ i <= end THEN value ELSE mask[i]
<1>1. Len(mask) \in Nat /\ DOMAIN mask = 1 .. Len(mask)
  BY LenProperties
<1>2. SetEvents(mask, begin, end, value) = [i \in 1 .. Len(mask) |-> e(i)]
  BY <1>1 DEF SetEvents
<1>3. \A i \in 1 .. Len(mask) : e(i) \in BOOLEAN
  BY ElementOfSeq
<1>4. [i \in 1 .. Len(mask) |-> e(i)] \in Seq(BOOLEAN)
  <2> HIDE DEF e
  <2>1. QED
    BY <1>1, <1>3, IsASeq
<1>5. Len([i \in 1 .. Len(mask) |-> e(i)]) = Len(mask)
  <2> HIDE DEF e
  <2>1. QED
    BY <1>1
<1>6. QED
  BY <1>2, <1>4, <1>5

\* The next event is one that is still to be played and that is returned.
LEMMA NextReplayed ==
  ASSUME fgEvents \in Seq(Events), fIndex \in Nat
  PROVE  \/ NextReplayEvent = 0
         \/ /\ NextReplayEvent \in 1 .. Len(fgEvents)
            /\ fgEvents[NextReplayEvent] \in Events
            /\ Returned(fgEvents[NextReplayEvent], fgMask[NextReplayEvent], fPenIsDown)
<1> DEFINE rest == {i \in fIndex + 1 .. Len(fgEvents) :
                      Returned(fgEvents[i], fgMask[i], fPenIsDown)}
<1>1. NextReplayEvent
        = IF rest = {} THEN 0 ELSE CHOOSE i \in rest : \A j \in rest : i <= j
  BY DEF NextReplayEvent
<1>2. SUFFICES ASSUME rest # {}
               PROVE  \E i \in rest : \A j \in rest : i <= j
  <2>1. \A i \in rest : i \in 1 .. Len(fgEvents)
    BY LenProperties
  <2>2. \A i \in rest : Returned(fgEvents[i], fgMask[i], fPenIsDown)
    OBVIOUS
  <2> HIDE DEF rest
  <2>3. CASE rest = {}
    BY <1>1, <2>3
  <2>4. CASE rest # {}
    <3>1. NextReplayEvent = CHOOSE i \in rest : \A j \in rest : i <= j
      BY <1>1, <2>4
    <3>2. NextReplayEvent \in rest
      BY <1>2, <2>4, <3>1
    <3>3. QED
      BY <2>1, <2>2, <3>2, ElementOfSeq
  <2>5. QED
    BY <2>3, <2>4
<1>3. rest \subseteq Nat
  BY LenProperties
<1> HIDE DEF rest
<1>4. PICK i \in rest : \A j \in rest : ~ (<<j, i>> \in OpToRel(<, Nat))
  BY <1>2, <1>3, NatLessThanWellFounded, WFMin
<1>5. \A j \in rest : ~ (j < i)
  BY <1>3, <1>4 DEF OpToRel
<1>6. QED
  BY <1>3, <1>5

-----------------------------------------------------------------------------
(* The stack of ranges. *)

\* The number that ranges are split at.
LEMMA Midpoint ==
  ASSUME NEW a \in Nat, NEW b \in Nat, b - a > 1
  PROVE  /\ (a + b) \div 2 \in Nat
         /\ a < (a + b) \div 2 /\ (a + b) \div 2 < b
OBVIOUS

\* Popping a range leaves those below it.
LEMMA Popped ==
  ASSUME fLevels \in Seq(Levels), fLevels # <<>>
  PROVE  /\ Len(fLevels) \in Nat \ {0}
         /\ Top \in Levels
         /\ Pop \in Seq(Levels)
         /\ Len(Pop) = Len(fLevels) - 1
         /\ \A i \in 1 .. Len(fLevels) - 1 : Pop[i] = fLevels[i]
<1> DEFINE n == Len(fLevels)
<1>1. n \in Nat \ {0}
  BY EmptySeq
<1>2. \A i \in 1 .. n : fLevels[i] \in Levels
  BY ElementOfSeq
<1>3. Top \in Levels
  BY <1>1, <1>2 DEF Top
<1>4. /\ Pop \in Seq(Levels)
      /\ Len(Pop) = IF 1 <= n - 1 THEN n - 1 - 1 + 1 ELSE 0
      /\ \A i \in 1 .. n - 1 - 1 + 1 : Pop[i] = fLevels[1 + i - 1]
  <2> DEFINE m == n - 1
  <2>1. m \in Int /\ 1 \in Int
    BY <1>1
  <2>2. \A i \in 1 .. m : fLevels[i] \in Levels
    BY <1>1, <1>2
  <2>3. Pop = SubSeq(fLevels, 1, m)
    BY DEF Pop
  <2> HIDE DEF m
  <2>4. /\ Pop \in Seq(Levels)
        /\ Len(Pop) = IF 1 <= m THEN m - 1 + 1 ELSE 0
        /\ \A i \in 1 .. m - 1 + 1 : Pop[i] = fLevels[1 + i - 1]
    BY <2>1, <2>2, <2>3, SubSeqProperties
  <2>5. QED
    BY <2>4 DEF m
<1>5. Len(Pop) = n - 1
  <2> HIDE DEF n
  <2>1. QED
    BY <1>1, <1>4
<1>6. \A i \in 1 .. n - 1 : Pop[i] = fLevels[i]
  <2> HIDE DEF n
  <2> SUFFICES ASSUME NEW i \in 1 .. n - 1 PROVE Pop[i] = fLevels[i]
    OBVIOUS
  <2>1. i \in 1 .. n - 1 - 1 + 1 /\ 1 + i - 1 = i
    BY <1>1
  <2>2. Pop[i] = fLevels[1 + i - 1]
    BY <1>4, <2>1
  <2>3. QED
    BY <2>1, <2>2
<1>7. QED
  BY <1>1, <1>3, <1>4, <1>5, <1>6

\* Splitting the top puts its halves in its place.
LEMMA Halved ==
  ASSUME fLevels \in Seq(Levels), fLevels # <<>>, Size(Top) > 1
  PROVE  LET n   == Len(fLevels)
             mid == (Top.fBegin + Top.fEnd) \div 2
         IN /\ Split \in Seq(Levels) /\ Len(Split) = n + 1
            /\ \A i \in 1 .. n - 1 : Split[i] = fLevels[i]
            /\ Split[n].fBegin = mid /\ Split[n].fEnd = Top.fEnd
            /\ Split[n].fChecked => Top.fEnd - mid > 1
            /\ Split[n + 1].fBegin = Top.fBegin /\ Split[n + 1].fEnd = mid
            /\ mid \in Nat /\ Top.fBegin < mid /\ mid < Top.fEnd
<1> DEFINE n   == Len(fLevels)
           mid == (Top.fBegin + Top.fEnd) \div 2
           half(begin, end) == Level(begin, end, Top.fChecked /\ end - begin > 1)
           halves == << half(mid, Top.fEnd), half(Top.fBegin, mid) >>
<1>1. n \in Nat \ {0} /\ Top \in Levels
  BY Popped
<1>2. Top.fBegin \in Nat /\ Top.fEnd \in Nat /\ Top.fChecked \in BOOLEAN
  BY <1>1 DEF Levels
<1>3. mid \in Nat /\ Top.fBegin < mid /\ mid < Top.fEnd
  BY <1>2, Midpoint DEF Size
<1>4. half(mid, Top.fEnd) \in Levels /\ half(Top.fBegin, mid) \in Levels
  <2> HIDE DEF mid
  <2>1. QED
    BY <1>2, <1>3 DEF Level, Levels
<1>5. halves \in Seq(Levels) /\ Len(halves) = 2
  <2> HIDE DEF half
  <2>1. QED
    BY <1>4
<1>6. Split = Pop \o halves
  BY DEF Split
<1>7. /\ Pop \in Seq(Levels) /\ Len(Pop) = n - 1
      /\ \A i \in 1 .. n - 1 : Pop[i] = fLevels[i]
  BY Popped
<1>8. /\ halves[1].fBegin = mid /\ halves[1].fEnd = Top.fEnd
      /\ halves[1].fChecked => Top.fEnd - mid > 1
      /\ halves[2].fBegin = Top.fBegin /\ halves[2].fEnd = mid
  BY DEF Level
<1> HIDE DEF halves, mid, n
<1>9. /\ Split \in Seq(Levels)
      /\ Len(Split) = Len(Pop) + Len(halves)
      /\ \A i \in 1 .. Len(Pop) + Len(halves) :
           Split[i] = IF i <= Len(Pop) THEN Pop[i] ELSE halves[i - Len(Pop)]
  BY <1>5, <1>6, <1>7, ConcatProperties
<1>10. /\ Split \in Seq(Levels) /\ Len(Split) = n + 1
       /\ \A i \in 1 .. n - 1 : Split[i] = fLevels[i]
       /\ Split[n] = halves[1] /\ Split[n + 1] = halves[2]
  <2>1. Len(Split) = n + 1
    BY <1>1, <1>5, <1>7, <1>9
  <2>2. \A i \in 1 .. n + 1 : Split[i] = IF i <= n - 1 THEN Pop[i] ELSE halves[i - (n - 1)]
    BY <1>1, <1>5, <1>7, <1>9
  <2>3. Split[n] = halves[n - (n - 1)] /\ Split[n + 1] = halves[n + 1 - (n - 1)]
    BY <1>1, <2>2
  <2>4. n - (n - 1) = 1 /\ n + 1 - (n - 1) = 2
    BY <1>1
  <2>5. \A i \in 1 .. n - 1 : Split[i] = fLevels[i]
    BY <1>1, <1>7, <2>2
  <2>6. QED
    BY <1>9, <2>1, <2>3, <2>4, <2>5
<1>11. QED
  BY <1>3, <1>8, <1>10 DEF mid, n

-----------------------------------------------------------------------------
(* The invariant. *)

\* What each function finds, and what the device leaves behind for the next.
Stack ==
  /\ call \in {"SplitAndStartAgain", "DisableAndStartAgain", "StartAgain", "NextSubRange",
               "ErrorOccurred", "NoErrorOccurred", "wakeMinimizing"} => fLevels # <<>>
  /\ call \in {"idle", "InitialLevel", "MinimizationPassComplete", "MinimizationComplete"}
       => fLevels = <<>>
  /\ call = "device" /\ fgIsOn => fLevels # <<>>
  /\ call = "wakeReplaying" => ~fgIsOn
  /\ call = "idle" => ~fgIsOn /\ ~fgReplaying
  /\ call = "InitialLevel" => \A i \in 1 .. Len(fgMask) : fgMask[i]

\* Culling leaves events that are all enabled.
LEMMA Culled ==
  ASSUME fgEvents \in Seq(Events), NEW mask, CullEvents(mask)
  PROVE  /\ fgEvents' \in Seq(Events)
         /\ fgMask' \in Seq(BOOLEAN) /\ Len(fgMask') = Len(fgEvents')
         /\ \A i \in 1 .. Len(fgMask') : fgMask'[i]
         /\ fIndex' \in Nat /\ fPenIsDown' \in BOOLEAN
<1> DEFINE culled == Replay(fgEvents, mask)
<1>1. culled \in Seq(Events)
  BY ReplayTyped
<1>2. /\ fgEvents' = culled /\ fgMask' = AllEnabled(culled) /\ fIndex' = Len(fgEvents)
      /\ fPenIsDown' = (culled # <<>> /\ culled[Len(culled)].type = "down")
  BY DEF CullEvents
<1>3. Len(fgEvents) \in Nat
  BY LenProperties
<1> HIDE DEF culled
<1>4. QED
  BY <1>1, <1>2, <1>3, AllEnabledTyped

\* The range that is tested has natural bounds.
LEMMA CurrentRangeTyped ==
  ASSUME fLevels \in Seq(Levels)
  PROVE  CurrentRange \in Levels
<1>1. CASE fLevels = <<>>
  BY <1>1 DEF CurrentRange, Level, Levels
<1>2. CASE fLevels # <<>>
  BY <1>2, Popped DEF CurrentRange
<1>3. QED
  BY <1>1, <1>2

TypedEvents ==
  /\ fgEvents \in Seq(Events)
  /\ fgMask \in Seq(BOOLEAN) /\ Len(fgMask) = Len(fgEvents)

\* The masks and the events that each function leaves are of one length.
LEMMA EventsTyped ==
  ASSUME TypeOK, Stack, [Next]_vars
  PROVE  TypedEvents'
<1>0. TypedEvents /\ fLevels \in Seq(Levels) /\ fIndex \in Nat
  BY DEF TypeOK, TypedEvents, Levels
<1>1. CASE Start
  <2>1. CASE UNCHANGED playback
    BY <1>0, <2>1 DEF TypedEvents, playback
  <2>2. CASE \E mask : CullEvents(mask)
    <3>1. PICK mask : CullEvents(mask)
      BY <2>2
    <3>2. QED
      BY <1>0, <3>1, Culled DEF TypedEvents
  <2>3. QED
    BY <1>1, <2>1, <2>2 DEF Start
<1>2. CASE MinimizationPassComplete
  BY <1>0, <1>2, Culled DEF MinimizationPassComplete, TypedEvents
<1>3. CASE MinimizationComplete
  <2> DEFINE error == [number |-> 0, type |-> "error"]
  <2>1. error \in Events /\ TRUE \in BOOLEAN
    BY DEF Events, Types
  <2>2. fgEvents' = Append(fgEvents, error) /\ fgMask' = Append(fgMask, TRUE)
    BY <1>3 DEF MinimizationComplete
  <2> HIDE DEF error
  <2>3. fgEvents' \in Seq(Events) /\ Len(fgEvents') = Len(fgEvents) + 1
    BY <1>0, <2>1, <2>2, AppendProperties DEF TypedEvents
  <2>4. fgMask' \in Seq(BOOLEAN) /\ Len(fgMask') = Len(fgMask) + 1
    BY <1>0, <2>1, <2>2, AppendProperties DEF TypedEvents
  <2>5. QED
    BY <1>0, <2>3, <2>4 DEF TypedEvents
<1>4. CASE DisableAndStartAgain
  <2>1. fLevels # <<>>
    BY <1>4 DEF DisableAndStartAgain, Stack
  <2>2. Top.fBegin \in Nat /\ Top.fEnd \in Nat
    BY <1>0, <2>1, Popped DEF Levels
  <2>3. /\ SetEvents(fgMask, Top.fBegin, Top.fEnd, FALSE) \in Seq(BOOLEAN)
        /\ Len(SetEvents(fgMask, Top.fBegin, Top.fEnd, FALSE)) = Len(fgMask)
    BY <1>0, <2>2, SetEventsTyped DEF TypedEvents
  <2>4. /\ fgEvents' = fgEvents
        /\ fgMask' = fgMask \/ fgMask' = SetEvents(fgMask, Top.fBegin, Top.fEnd, FALSE)
    BY <1>4 DEF DisableAndStartAgain
  <2>5. QED
    BY <1>0, <2>3, <2>4 DEF TypedEvents
<1>5. CASE NoErrorOccurred
  <2>1. CurrentRange.fBegin \in Nat /\ CurrentRange.fEnd \in Nat
    BY <1>0, CurrentRangeTyped DEF Levels
  <2>2. /\ fgEvents' = fgEvents
        /\ fgMask' = SetEvents(fgMask, CurrentRange.fBegin, CurrentRange.fEnd, TRUE)
    BY <1>5 DEF NoErrorOccurred
  <2>3. QED
    BY <1>0, <2>1, <2>2, SetEventsTyped DEF TypedEvents
<1>6. CASE ErrorOccurred
  <2>1. Len(fgMask) \in Nat
    BY <1>0, LenProperties DEF TypedEvents
  <2>2. /\ fgEvents' = fgEvents
        /\ fgMask' = fgMask \/ fgMask' = SetEvents(fgMask, fIndex, Len(fgMask), FALSE)
    BY <1>6 DEF ErrorOccurred
  <2>3. /\ SetEvents(fgMask, fIndex, Len(fgMask), FALSE) \in Seq(BOOLEAN)
        /\ Len(SetEvents(fgMask, fIndex, Len(fgMask), FALSE)) = Len(fgMask)
    BY <1>0, <2>1, SetEventsTyped DEF TypedEvents
  <2>4. QED
    BY <1>0, <2>2, <2>3 DEF TypedEvents
<1>7. CASE UNCHANGED <<fgEvents, fgMask>>
  BY <1>0, <1>7 DEF TypedEvents
<1>8. QED
  BY <1>1, <1>2, <1>3, <1>4, <1>5, <1>6, <1>7
     DEF Next, Minimization, Device, Stop, Reset, InitialLevel, SplitCurrentLevel, CannotSplit,
         StartAgain, NextSubRange, RealLoadInitialState, DeviceFails, ReportError,
         ReplayGetEvent, ReplayGetPen, Sleeps, Wakes, vars, playback

TypedLevels ==
  /\ fLevels \in Seq(Levels)
  /\ \A i \in 1 .. Len(fLevels) : Size(fLevels[i]) >= 1 \/ fgMask = <<>>

\* No range is empty, since one event is not split.
LEMMA LevelsTyped ==
  ASSUME TypeOK, Stack, [Next]_vars
  PROVE  TypedLevels'
<1>0. TypedLevels /\ TypedEvents /\ fIndex \in Nat /\ Len(fgMask) \in Nat
  <2>1. fLevels \in Seq(Levels) /\ DOMAIN fLevels = 1 .. Len(fLevels)
    BY LenProperties DEF TypeOK, Levels
  <2>2. TypedEvents /\ fIndex \in Nat /\ Len(fgMask) \in Nat
    BY LenProperties DEF TypeOK, TypedEvents
  <2>3. QED
    BY <2>1, <2>2 DEF TypeOK, TypedLevels
<1>1. fgMask = <<>> /\ Len(fgMask') = Len(fgMask) /\ fgMask' \in Seq(BOOLEAN) => fgMask' = <<>>
  BY EmptySeq
<1>2. CASE fLevels' = <<>>
  BY <1>2, EmptySeq DEF TypedLevels
<1>3. CASE InitialLevel
  <2> DEFINE level == Level(0, Len(fgMask), FALSE)
  <2>1. fLevels' = <<level>> /\ fgMask' = fgMask
    BY <1>3 DEF InitialLevel, playback
  <2>2. level \in Levels /\ (Size(level) >= 1 \/ fgMask = <<>>)
    BY <1>0, EmptySeq DEF Level, Levels, Size, TypedEvents
  <2> HIDE DEF level
  <2>3. QED
    BY <2>1, <2>2 DEF TypedLevels, Size
<1>4. CASE SplitCurrentLevel
  <2>1. fLevels # <<>> /\ Size(Top) > 1 /\ fLevels' = Split
    BY <1>4 DEF SplitCurrentLevel, Stack
  <2> DEFINE n == Len(fLevels)
             mid == (Top.fBegin + Top.fEnd) \div 2
  <2>2. /\ Split \in Seq(Levels) /\ Len(Split) = n + 1
        /\ \A i \in 1 .. n - 1 : Split[i] = fLevels[i]
        /\ Split[n].fBegin = mid /\ Split[n].fEnd = Top.fEnd
        /\ Split[n + 1].fBegin = Top.fBegin /\ Split[n + 1].fEnd = mid
        /\ mid \in Nat /\ Top.fBegin < mid /\ mid < Top.fEnd
    BY <1>0, <2>1, Halved DEF TypedLevels
  <2>3. n \in Nat \ {0} /\ Top.fBegin \in Nat /\ Top.fEnd \in Nat
    BY <1>0, <2>1, Popped DEF TypedLevels, Levels
  <2>4. fgMask' = fgMask
    BY <1>4 DEF SplitCurrentLevel, playback
  <2> HIDE DEF mid, n
  <2>5. Size(Split[n]) >= 1 /\ Size(Split[n + 1]) >= 1
    BY <2>2, <2>3 DEF Size
  <2>6. \A i \in 1 .. n - 1 : Size(Split[i]) >= 1 \/ fgMask = <<>>
    BY <1>0, <2>2, <2>3 DEF TypedLevels, n
  <2>7. \A i \in 1 .. n + 1 : Size(Split[i]) >= 1 \/ fgMask = <<>>
    BY <2>3, <2>5, <2>6
  <2>8. QED
    BY <2>1, <2>2, <2>4, <2>7 DEF TypedLevels, Size
<1>5. CASE CannotSplit
  <2> DEFINE e(i) == [fLevels[i] EXCEPT !.fChecked = FALSE]
  <2>1. Len(fLevels) \in Nat /\ DOMAIN fLevels = 1 .. Len(fLevels)
    BY <1>0, LenProperties DEF TypedLevels
  <2>2. \A i \in 1 .. Len(fLevels) : /\ e(i) \in Levels
                                     /\ e(i).fBegin = fLevels[i].fBegin
                                     /\ e(i).fEnd = fLevels[i].fEnd
    <3>1. \A l \in Levels : LET r == [l EXCEPT !.fChecked = FALSE]
                            IN r \in Levels /\ r.fBegin = l.fBegin /\ r.fEnd = l.fEnd
      BY DEF Levels
    <3>2. \A i \in 1 .. Len(fLevels) : fLevels[i] \in Levels
      BY <1>0, ElementOfSeq DEF TypedLevels
    <3>3. QED
      BY <3>1, <3>2
  <2>3. fLevels' = [i \in 1 .. Len(fLevels) |-> e(i)] /\ fgMask' = fgMask
    BY <1>5, <2>1 DEF CannotSplit, playback
  <2> HIDE DEF e
  <2>4. fLevels' \in Seq(Levels) /\ Len(fLevels') = Len(fLevels)
    BY <2>1, <2>2, <2>3, IsASeq
  <2>5. \A i \in 1 .. Len(fLevels) : Size(e(i)) >= 1 \/ fgMask = <<>>
    BY <1>0, <2>2 DEF TypedLevels, Size
  <2>6. QED
    BY <2>3, <2>4, <2>5 DEF TypedLevels, Size
<1>6. CASE NextSubRange
  <2>1. fLevels # <<>> /\ fLevels' = Pop /\ fgMask' = fgMask
    BY <1>6 DEF NextSubRange, Stack, playback
  <2>2. /\ Len(fLevels) \in Nat \ {0}
        /\ Pop \in Seq(Levels) /\ Len(Pop) = Len(fLevels) - 1
        /\ \A i \in 1 .. Len(fLevels) - 1 : Pop[i] = fLevels[i]
    BY <1>0, <2>1, Popped DEF TypedLevels
  <2>3. \A i \in 1 .. Len(Pop) : Size(Pop[i]) >= 1 \/ fgMask = <<>>
    BY <1>0, <2>2 DEF TypedLevels
  <2>4. QED
    BY <2>1, <2>2, <2>3 DEF TypedLevels, Size
<1>7. CASE NoErrorOccurred /\ fLevels' # <<>>
  <2> DEFINE n     == Len(fLevels)
             level == [fLevels[n] EXCEPT !.fChecked = TRUE]
  <2>1. fLevels # <<>> /\ fLevels' = [fLevels EXCEPT ![n] = level]
    BY <1>7 DEF NoErrorOccurred, Stack
  <2>2. n \in Nat \ {0} /\ fLevels[n] \in Levels
    BY <1>0, <2>1, Popped DEF TypedLevels, Top
  <2>3. level \in Levels /\ level.fBegin = fLevels[n].fBegin /\ level.fEnd = fLevels[n].fEnd
    <3>1. \A l \in Levels : LET r == [l EXCEPT !.fChecked = TRUE]
                            IN r \in Levels /\ r.fBegin = l.fBegin /\ r.fEnd = l.fEnd
      BY DEF Levels
    <3>2. QED
      BY <2>2, <3>1
  <2> HIDE DEF level
  <2>4. n \in 1 .. n /\ Size(level) = Size(fLevels[n])
    BY <2>2, <2>3 DEF Size
  <2>5. /\ fLevels' \in Seq(Levels) /\ Len(fLevels') = n
        /\ \A j \in 1 .. n : fLevels'[j] = IF j = n THEN level ELSE fLevels[j]
    BY <1>0, <2>1, <2>3, <2>4, ExceptSeq DEF TypedLevels
  <2>6. fgMask = <<>> => fgMask' = <<>>
    <3>1. TypedEvents' /\ fgEvents' = fgEvents
      BY <1>7, EventsTyped DEF NoErrorOccurred
    <3>2. QED
      BY <1>0, <1>1, <3>1 DEF TypedEvents
  <2>7. \A i \in 1 .. n : Size(fLevels'[i]) >= 1 \/ fgMask' = <<>>
    BY <1>0, <2>4, <2>5, <2>6 DEF TypedLevels
  <2>8. QED
    BY <2>5, <2>7 DEF TypedLevels, Size
<1>8. CASE UNCHANGED fLevels /\ Len(fgMask') = Len(fgMask)
  <2>1. fgMask = <<>> => fgMask' = <<>>
    BY <1>1, <1>8, EventsTyped DEF TypedEvents
  <2>2. QED
    BY <1>0, <1>8, <2>1 DEF TypedLevels, Size
<1>9. CASE DisableAndStartAgain \/ (ErrorOccurred /\ fLevels' # <<>>)
  <2>1. UNCHANGED <<fLevels, fgEvents>>
    BY <1>9 DEF DisableAndStartAgain, ErrorOccurred, minimize
  <2>2. TypedEvents'
    BY EventsTyped
  <2>3. Len(fgMask') = Len(fgMask)
    BY <1>0, <2>1, <2>2 DEF TypedEvents
  <2>4. QED
    BY <1>8, <2>1, <2>3
<1>10. CASE UNCHANGED <<fLevels, fgMask>>
  BY <1>8, <1>10
<1>11. CASE Start \/ MinimizationPassComplete \/ MinimizationComplete
  <2>1. fLevels' = <<>>
    BY <1>11 DEF Start, MinimizationPassComplete, MinimizationComplete, Stack, minimize
  <2>2. QED
    BY <1>2, <2>1
<1>12. QED
  BY <1>2, <1>3, <1>4, <1>5, <1>6, <1>7, <1>9, <1>10, <1>11
     DEF Next, Minimization, Device, Stop, Reset, StartAgain, RealLoadInitialState, DeviceFails,
         ReportError, ReplayGetEvent, ReplayGetPen, Sleeps, Wakes, vars, playback, minimize

\* The rest of TypeOK.
Scalars ==
  /\ call \in Calls
  /\ fgIsOn \in BOOLEAN /\ fgMutex \in BOOLEAN /\ fgReplaying \in BOOLEAN
  /\ fPenIsDown \in BOOLEAN /\ fMinimizeLoadState \in BOOLEAN /\ saved \in BOOLEAN
  /\ progress \in {"closed", "open", "stopped"}
  /\ played \in Seq(Events)
  /\ fIndex \in Nat
  /\ fgPassNumber \in Nat /\ fDeferredErrs \in 0 .. MaxErrors

LEMMA TypeParts == TypeOK <=> Scalars /\ TypedEvents /\ TypedLevels
<1>1. fLevels \in Seq(Levels) => DOMAIN fLevels = 1 .. Len(fLevels)
  BY LenProperties
<1>2. {fgIsOn, fgMutex, fgReplaying, fPenIsDown, fMinimizeLoadState, saved} \subseteq BOOLEAN
        <=> /\ fgIsOn \in BOOLEAN /\ fgMutex \in BOOLEAN /\ fgReplaying \in BOOLEAN
            /\ fPenIsDown \in BOOLEAN /\ fMinimizeLoadState \in BOOLEAN /\ saved \in BOOLEAN
  OBVIOUS
<1>3. QED
  BY <1>1, <1>2 DEF TypeOK, Scalars, TypedEvents, TypedLevels, Levels

\* The calls and the flags.
LEMMA FlagsTyped ==
  ASSUME Scalars, [Next]_vars
  PROVE  /\ call' \in Calls /\ progress' \in {"closed", "open", "stopped"}
         /\ fgPassNumber' \in Nat /\ fDeferredErrs' \in 0 .. MaxErrors
<1>1. call' \in Calls
  BY DEF Scalars, Calls, Next, Minimization, Device, Start, Stop, Reset, InitialLevel,
         SplitCurrentLevel, CannotSplit, DisableAndStartAgain, StartAgain, NextSubRange,
         MinimizationPassComplete, MinimizationComplete, NoErrorOccurred, ErrorOccurred,
         RealLoadInitialState, DeviceFails, ReportError, ReplayGetEvent, ReplayGetPen, Sleeps,
         Wakes, vars
<1>2. progress' \in {"closed", "open", "stopped"}
  BY DEF Scalars, Next, Minimization, Device, Start, Stop, Reset, InitialLevel,
         SplitCurrentLevel, CannotSplit, DisableAndStartAgain, StartAgain, NextSubRange,
         MinimizationPassComplete, MinimizationComplete, NoErrorOccurred, ErrorOccurred,
         RealLoadInitialState, DeviceFails, ReportError, ReplayGetEvent, ReplayGetPen, Sleeps,
         Wakes, vars, ui
<1>3. fgPassNumber' \in Nat
  <2>1. CASE Start
    <3>1. fgPassNumber' = 1 \/ fgPassNumber' = fgPassNumber
      BY <2>1 DEF Start, minimize
    <3>2. QED
      BY <3>1 DEF Scalars
  <2>2. CASE MinimizationPassComplete
    BY <2>2 DEF MinimizationPassComplete, Scalars, kLastPass
  <2>3. CASE UNCHANGED fgPassNumber
    BY <2>3 DEF Scalars
  <2>4. QED
    BY <2>1, <2>2, <2>3
       DEF Next, Minimization, Device, Stop, Reset, InitialLevel, SplitCurrentLevel,
           CannotSplit, DisableAndStartAgain, StartAgain, NextSubRange, MinimizationComplete,
           NoErrorOccurred, ErrorOccurred, RealLoadInitialState, DeviceFails, ReportError,
           ReplayGetEvent, ReplayGetPen, Sleeps, Wakes, vars, minimize
<1>4. fDeferredErrs' \in 0 .. MaxErrors
  <2>1. MaxErrors \in Nat \ {0}
    BY BoundsAssumption
  <2>2. CASE DeviceFails
    BY <2>1, <2>2 DEF DeviceFails
  <2>3. CASE ReportError
    BY <2>1, <2>3 DEF ReportError, Scalars
  <2>4. CASE Reset
    BY <2>1, <2>4 DEF Reset
  <2>5. CASE UNCHANGED fDeferredErrs
    BY <2>5 DEF Scalars
  <2>6. QED
    BY <2>2, <2>3, <2>4, <2>5
       DEF Next, Minimization, Device, Start, Stop, InitialLevel, SplitCurrentLevel,
           CannotSplit, DisableAndStartAgain, StartAgain, NextSubRange,
           MinimizationPassComplete, MinimizationComplete, NoErrorOccurred, ErrorOccurred,
           RealLoadInitialState, ReplayGetEvent, ReplayGetPen, Sleeps, Wakes, vars, session
<1>5. QED
  BY <1>1, <1>2, <1>3, <1>4

\* The switches.
LEMMA SwitchesTyped ==
  ASSUME Scalars, [Next]_vars
  PROVE  /\ fgIsOn' \in BOOLEAN /\ fgMutex' \in BOOLEAN /\ fgReplaying' \in BOOLEAN
         /\ fMinimizeLoadState' \in BOOLEAN /\ saved' \in BOOLEAN
<1>1. fgIsOn' \in BOOLEAN
  <2>1. CASE fgIsOn' \in {TRUE, FALSE}
    BY <2>1
  <2>2. CASE UNCHANGED fgIsOn
    BY <2>2 DEF Scalars
  <2>3. CASE Wakes
    BY <2>3, Zenon DEF Wakes
  <2>4. QED
    BY <2>1, <2>2, <2>3
       DEF Next, Minimization, Device, Start, Stop, Reset, InitialLevel, SplitCurrentLevel,
           CannotSplit, DisableAndStartAgain, StartAgain, NextSubRange,
           MinimizationPassComplete, MinimizationComplete, NoErrorOccurred, ErrorOccurred,
           RealLoadInitialState, DeviceFails, ReportError, ReplayGetEvent, ReplayGetPen,
           Sleeps, vars, minimize
<1>2. fgMutex' \in BOOLEAN
  <2>1. fgMutex' \in {TRUE, FALSE, fgMutex}
    BY DEF Next, Minimization, Device, Start, Stop, Reset, InitialLevel, SplitCurrentLevel,
           CannotSplit, DisableAndStartAgain, StartAgain, NextSubRange,
           MinimizationPassComplete, MinimizationComplete, NoErrorOccurred, ErrorOccurred,
           RealLoadInitialState, DeviceFails, ReportError, ReplayGetEvent, ReplayGetPen,
           Sleeps, Wakes, vars, minimize
  <2>2. QED
    BY <2>1 DEF Scalars
<1>3. fgReplaying' \in BOOLEAN
  <2>1. fgReplaying' \in {TRUE, FALSE, fgReplaying}
    BY DEF Next, Minimization, Device, Start, Stop, Reset, InitialLevel, SplitCurrentLevel,
           CannotSplit, DisableAndStartAgain, StartAgain, NextSubRange,
           MinimizationPassComplete, MinimizationComplete, NoErrorOccurred, ErrorOccurred,
           RealLoadInitialState, DeviceFails, ReportError, ReplayGetEvent, ReplayGetPen,
           Sleeps, Wakes, vars, playback, ReplayEventsOn, ReplayEventsOff
  <2>2. QED
    BY <2>1 DEF Scalars
<1>4. fMinimizeLoadState' \in BOOLEAN
  <2>1. fMinimizeLoadState' \in {TRUE, FALSE, fMinimizeLoadState}
    BY DEF Next, Minimization, Device, Start, Stop, Reset, InitialLevel, SplitCurrentLevel,
           CannotSplit, DisableAndStartAgain, StartAgain, NextSubRange,
           MinimizationPassComplete, MinimizationComplete, NoErrorOccurred, ErrorOccurred,
           RealLoadInitialState, DeviceFails, ReportError, ReplayGetEvent, ReplayGetPen,
           Sleeps, Wakes, vars, session
  <2>2. QED
    BY <2>1 DEF Scalars
<1>5. saved' \in BOOLEAN
  <2>1. saved' \in {TRUE, saved}
    BY DEF Next, Minimization, Device, Start, Stop, Reset, InitialLevel, SplitCurrentLevel,
           CannotSplit, DisableAndStartAgain, StartAgain, NextSubRange,
           MinimizationPassComplete, MinimizationComplete, NoErrorOccurred, ErrorOccurred,
           RealLoadInitialState, DeviceFails, ReportError, ReplayGetEvent, ReplayGetPen,
           Sleeps, Wakes, vars, ui
  <2>2. QED
    BY <2>1 DEF Scalars
<1>6. QED
  BY <1>1, <1>2, <1>3, <1>4, <1>5

\* The place in the list, the pen, and what the device was given.
LEMMA PlaybackTyped ==
  ASSUME Scalars, TypedEvents, [Next]_vars
  PROVE  fIndex' \in Nat /\ fPenIsDown' \in BOOLEAN /\ played' \in Seq(Events)
<1>0. /\ fIndex \in Nat /\ fPenIsDown \in BOOLEAN /\ played \in Seq(Events)
      /\ fgEvents \in Seq(Events) /\ Len(fgEvents) \in Nat
  BY LenProperties DEF Scalars, TypedEvents
<1>1. \A event \in Events : Plays(event) => played' \in Seq(Events)
  <2> SUFFICES ASSUME NEW event \in Events, Plays(event)
               PROVE  played' \in Seq(Events)
    OBVIOUS
  <2>1. CASE played' = Append(played, event)
    BY <1>0, <2>1, AppendProperties
  <2>2. CASE played' = <<event>>
    BY <2>2
  <2>3. QED
    BY <2>1, <2>2 DEF Plays
<1>2. [number |-> 0, type |-> "up"] \in Events
  BY DEF Events, Types
<1>3. NextReplayEvent # 0
        => NextReplayEvent \in Nat /\ fgEvents[NextReplayEvent] \in Events
  BY <1>0, NextReplayed
<1>4. CASE ReplayGetEvent
  <2>1. fIndex' \in {NextReplayEvent, Len(fgEvents)}
    BY <1>4 DEF ReplayGetEvent
  <2>2. CASE NextReplayEvent # 0
    <3>1. /\ fIndex' = NextReplayEvent /\ Plays(fgEvents[NextReplayEvent])
          /\ fPenIsDown' = (fgEvents[NextReplayEvent].type = "down")
      BY <1>4, <2>2 DEF ReplayGetEvent
    <3>2. QED
      BY <1>1, <1>3, <2>2, <3>1
  <2>3. CASE NextReplayEvent = 0
    <3>1. fIndex' = Len(fgEvents) /\ UNCHANGED <<fPenIsDown, played>>
      BY <1>4, <2>3 DEF ReplayGetEvent
    <3>2. QED
      BY <1>0, <3>1
  <2>4. QED
    BY <2>2, <2>3
<1>5. CASE ReplayGetPen
  <2>1. CASE NextReplayEvent # 0 /\ fgEvents[NextReplayEvent].type \in {"down", "up"}
    <3>1. /\ fIndex' = NextReplayEvent /\ Plays(fgEvents[NextReplayEvent])
          /\ UNCHANGED fPenIsDown
      BY <1>5, <2>1 DEF ReplayGetPen
    <3>2. QED
      BY <1>0, <1>1, <1>3, <2>1, <3>1
  <2>2. CASE ~(NextReplayEvent # 0 /\ fgEvents[NextReplayEvent].type \in {"down", "up"})
    <3>1. /\ fIndex' \in {Len(fgEvents), fIndex} /\ Plays([number |-> 0, type |-> "up"])
          /\ fPenIsDown' = FALSE
      BY <1>5, <2>2 DEF ReplayGetPen
    <3>2. QED
      BY <1>0, <1>1, <1>2, <3>1
  <2>3. QED
    BY <2>1, <2>2
<1>6. CASE \E mask : CullEvents(mask) /\ UNCHANGED played
  <2>1. PICK mask : CullEvents(mask) /\ UNCHANGED played
    BY <1>6
  <2>2. QED
    BY <1>0, <2>1, Culled
<1>7. CASE Start
  <2>1. UNCHANGED played /\ (UNCHANGED playback \/ \E mask : CullEvents(mask))
    BY <1>7 DEF Start, device
  <2>2. QED
    BY <1>0, <1>6, <2>1 DEF playback
<1>8. CASE MinimizationPassComplete
  BY <1>6, <1>8 DEF MinimizationPassComplete, device
<1>9. CASE (ResetPlayback \/ UNCHANGED <<fIndex, fPenIsDown>>) /\ played' \in {played, <<>>}
  <2>1. played' \in Seq(Events)
    BY <1>0, <1>9, EmptySeq
  <2>2. fIndex' \in Nat
    BY <1>0, <1>9 DEF ResetPlayback
  <2>3. fPenIsDown' \in BOOLEAN
    BY <1>0, <1>9 DEF ResetPlayback
  <2>4. QED
    BY <2>1, <2>2, <2>3
<1>10. QED
  BY <1>4, <1>5, <1>7, <1>8, <1>9
     DEF Next, Minimization, Device, Stop, Reset, InitialLevel, SplitCurrentLevel,
         CannotSplit, DisableAndStartAgain, StartAgain, NextSubRange, MinimizationComplete,
         NoErrorOccurred, ErrorOccurred, RealLoadInitialState, DeviceFails, ReportError,
         Sleeps, Wakes, vars, playback, device, ReplayEventsOn, ReplayEventsOff

\* Each function leaves the stack as the next one expects it.
LEMMA StackKept ==
  ASSUME TypeOK, Stack, [Next]_vars
  PROVE  Stack'
<1>0. TypedEvents /\ fLevels \in Seq(Levels)
  BY TypeParts DEF TypedLevels
<1>1. CASE Start
  <2>1. CASE UNCHANGED <<playback, minimize>> /\ call' = "device"
    BY <1>1, <2>1 DEF Start, Stack, minimize, playback
  <2>2. CASE fLevels' = <<>> /\ call' = "InitialLevel" /\ \E mask : CullEvents(mask)
    <3>1. \A i \in 1 .. Len(fgMask') : fgMask'[i]
      BY <1>0, <2>2, Culled DEF TypedEvents
    <3>2. QED
      BY <2>2, <3>1 DEF Stack
  <2>3. QED
    BY <1>1, <2>1, <2>2 DEF Start
<1>2. CASE InitialLevel
  <2>1. fLevels' # <<>> /\ call' \in {"StartAgain", "SplitAndStartAgain"}
    BY <1>2 DEF InitialLevel
  <2>2. QED
    BY <2>1 DEF Stack
<1>3. CASE SplitCurrentLevel
  <2>1. fLevels # <<>> /\ Size(Top) > 1 /\ fLevels' = Split
    BY <1>3 DEF SplitCurrentLevel, Stack
  <2>2. Len(Split) = Len(fLevels) + 1 /\ Len(fLevels) \in Nat \ {0}
    BY <1>0, <2>1, Halved, Popped
  <2>3. Split # <<>>
    BY <2>2, EmptySeq
  <2>4. call' \in {"DisableAndStartAgain", "SplitAndStartAgain"}
    BY <1>3 DEF SplitCurrentLevel
  <2>5. QED
    BY <2>1, <2>3, <2>4 DEF Stack
<1>4. CASE CannotSplit
  <2>1. fLevels # <<>> /\ call' = "NextSubRange" /\ DOMAIN fLevels' = DOMAIN fLevels
    BY <1>4 DEF CannotSplit, Stack
  <2>2. DOMAIN fLevels = 1 .. Len(fLevels) /\ Len(fLevels) \in Nat \ {0}
    BY <1>0, <2>1, LenProperties, EmptySeq
  <2>3. 1 \in DOMAIN fLevels'
    BY <2>1, <2>2
  <2>4. fLevels' # <<>>
    BY <2>3
  <2>5. QED
    BY <2>1, <2>4 DEF Stack
<1>5. CASE NextSubRange
  <2>1. CASE fLevels' = <<>> /\ call' = "MinimizationPassComplete"
    BY <2>1 DEF Stack
  <2>2. CASE fLevels' # <<>> /\ call' \in {"SplitAndStartAgain", "DisableAndStartAgain"}
    BY <2>2 DEF Stack
  <2>3. QED
    BY <1>5, <2>1, <2>2 DEF NextSubRange
<1>6. CASE MinimizationPassComplete
  <2>1. \A i \in 1 .. Len(fgMask') : fgMask'[i]
    BY <1>0, <1>6, Culled DEF MinimizationPassComplete, TypedEvents
  <2>2. call' \in {"InitialLevel", "MinimizationComplete"} /\ UNCHANGED fLevels
    BY <1>6 DEF MinimizationPassComplete
  <2>3. fLevels = <<>>
    BY <1>6 DEF MinimizationPassComplete, Stack
  <2>4. QED
    BY <2>1, <2>2, <2>3 DEF Stack
<1>7. CASE NoErrorOccurred
  <2>1. CASE fLevels' = <<>> /\ call' = "MinimizationPassComplete"
    BY <2>1 DEF Stack
  <2>2. CASE /\ fLevels' = [fLevels EXCEPT ![Len(fLevels)].fChecked = TRUE]
             /\ call' = "SplitAndStartAgain"
    <3>1. fLevels # <<>> /\ DOMAIN fLevels' = DOMAIN fLevels
      BY <1>7, <2>2 DEF NoErrorOccurred, Stack
    <3>2. DOMAIN fLevels = 1 .. Len(fLevels) /\ Len(fLevels) \in Nat \ {0}
      BY <1>0, <3>1, LenProperties, EmptySeq
    <3>3. 1 \in DOMAIN fLevels'
      BY <3>1, <3>2
    <3>4. fLevels' # <<>>
      BY <3>3
    <3>5. QED
      BY <2>2, <3>4 DEF Stack
  <2>3. QED
    BY <1>7, <2>1, <2>2 DEF NoErrorOccurred
<1>8. CASE ErrorOccurred
  BY <1>8 DEF ErrorOccurred, Stack
<1>9. CASE DisableAndStartAgain
  BY <1>9 DEF DisableAndStartAgain, Stack, minimize
<1>10. CASE StartAgain
  BY <1>10 DEF StartAgain, Stack
<1>11. CASE MinimizationComplete
  BY <1>11 DEF MinimizationComplete, Stack
<1>12. CASE Stop
  BY <1>12 DEF Stop, Stack, ReplayEventsOff
<1>13. CASE Sleeps
  BY <1>13 DEF Sleeps, Stack, Free
<1>14. CASE Wakes
  BY <1>14 DEF Wakes, Stack
<1>15. CASE ReportError
  BY <1>15 DEF ReportError, Stack, minimize, playback
<1>16. CASE ReplayGetEvent
  BY <1>16 DEF ReplayGetEvent, Asks, Runs, Free, Stack, minimize
<1>17. CASE ReplayGetPen
  BY <1>17 DEF ReplayGetPen, Asks, Runs, Free, Stack, minimize
<1>18. CASE Reset \/ RealLoadInitialState \/ DeviceFails
  <2>1. UNCHANGED minimize /\ call' = "device" /\ call = "device"
    BY <1>18 DEF Reset, RealLoadInitialState, DeviceFails, Runs, Free
  <2>2. QED
    BY <2>1 DEF Stack, minimize
<1>19. CASE UNCHANGED vars
  BY <1>19 DEF vars, Stack, minimize, playback
<1>20. QED
  BY <1>1, <1>2, <1>3, <1>4, <1>5, <1>6, <1>7, <1>8, <1>9, <1>10, <1>11, <1>12, <1>13, <1>14,
     <1>15, <1>16, <1>17, <1>18, <1>19
     DEF Next, Minimization, Device

-----------------------------------------------------------------------------
(* The theorems. *)

\* The recording and the device are well-typed, and nothing is called yet.
LEMMA Started == Init => TypeOK /\ Stack
<1> SUFFICES ASSUME Init PROVE TypeOK /\ Stack
  OBVIOUS
<1>1. fgEvents \in Seq(Events)
  <2>1. PICK r \in Recordings : fgEvents = [i \in DOMAIN r |-> [number |-> i, type |-> r[i]]]
    BY DEF Init
  <2> DEFINE e(i) == [number |-> i, type |-> r[i]]
  <2>2. PICK n \in 0 .. MaxEvents : r \in [1 .. n -> Types]
    BY DEF Recordings
  <2>3. n \in Nat /\ DOMAIN r = 1 .. n /\ \A i \in 1 .. n : e(i) \in Events
    BY <2>2, BoundsAssumption DEF Events
  <2>4. fgEvents = [i \in 1 .. n |-> e(i)]
    BY <2>1, <2>3
  <2> HIDE DEF e
  <2>5. QED
    BY <2>3, <2>4, IsASeq
<1>2. TypedEvents
  BY <1>1, AllEnabledTyped DEF Init, TypedEvents
<1>3. TypedLevels
  BY EmptySeq DEF Init, TypedLevels
<1>4. Scalars
  <2>1. 0 \in 0 .. MaxErrors
    BY BoundsAssumption
  <2>2. <<>> \in Seq(Events)
    BY EmptySeq
  <2>3. QED
    BY <2>1, <2>2 DEF Init, Scalars, Calls
<1>5. Stack
  BY DEF Init, Stack
<1>6. QED
  BY <1>2, <1>3, <1>4, <1>5, TypeParts

LEMMA TypesKept ==
  ASSUME TypeOK, Stack, [Next]_vars
  PROVE  TypeOK'
<1>1. Scalars /\ TypedEvents
  BY TypeParts
<1>2. Scalars'
  BY <1>1, FlagsTyped, SwitchesTyped, PlaybackTyped DEF Scalars
<1>3. TypedEvents' /\ TypedLevels'
  BY EventsTyped, LevelsTyped
<1>4. (Scalars /\ TypedEvents /\ TypedLevels)' => TypeOK'
  BY TypeParts, PTL
<1>5. QED
  BY <1>2, <1>3, <1>4

\* Whatever the recording and the device, every variable keeps its type: the
\* masks are as long as the lists of events, and no range is empty.
THEOREM Typing == Spec => []TypeOK
<1>1. TypeOK /\ Stack /\ [Next]_vars => (TypeOK /\ Stack)'
  BY TypesKept, StackKept
<1>2. QED
  BY <1>1, Started, PTL DEF Spec

\* The functions that take the top of the stack (CurrentRange, SplitCurrentLevel
\* and NextSubRange, in EmMinimize.cpp) find a range there, whatever the device did
\* between the calls, resets, a Stop and a sleep included.
THEOREM Found == Spec => []LevelsFound
<1>1. TypeOK /\ Stack /\ [Next]_vars => (TypeOK /\ Stack)'
  BY TypesKept, StackKept
<1>2. Stack => LevelsFound
  BY DEF Stack, LevelsFound
<1>3. QED
  BY <1>1, <1>2, Started, PTL DEF Spec

\* What EnableEvents enables, and what neither of them changes.
LEMMA SetEventsAt ==
  ASSUME NEW mask \in Seq(BOOLEAN), NEW begin \in Nat, NEW end \in Nat, NEW value \in BOOLEAN
  PROVE  \A i \in 1 .. Len(mask) :
           /\ i > begin /\ i <= end /\ value => SetEvents(mask, begin, end, value)[i]
           /\ i > end /\ mask[i] => SetEvents(mask, begin, end, value)[i]
<1>1. Len(mask) \in Nat /\ DOMAIN mask = 1 .. Len(mask)
  BY LenProperties
<1> SUFFICES ASSUME NEW i \in 1 .. Len(mask)
             PROVE  /\ i > begin /\ i <= end /\ value => SetEvents(mask, begin, end, value)[i]
                    /\ i > end /\ mask[i] => SetEvents(mask, begin, end, value)[i]
  OBVIOUS
<1>2. SetEvents(mask, begin, end, value)[i] = IF begin < i /\ i <= end THEN value ELSE mask[i]
  BY <1>1 DEF SetEvents
<1>3. ASSUME i > begin, i <= end, value PROVE SetEvents(mask, begin, end, value)[i]
  BY <1>2, <1>3
<1>4. ASSUME i > end, mask[i] PROVE SetEvents(mask, begin, end, value)[i]
  <2>1. ~(begin < i /\ i <= end)
    BY <1>1, <1>4
  <2>2. QED
    BY <1>2, <1>4, <2>1
<1>5. QED
  BY <1>3, <1>4

\* Each function leaves the stack and the mask as LevelsTile says.
LEMMA TilesKept ==
  ASSUME TypeOK, Stack, LevelsTile, [Next]_vars
  PROVE  LevelsTile'
<1> DEFINE n == Len(fLevels)
<1>0. /\ TypedEvents /\ TypedLevels /\ fIndex \in Nat
      /\ fLevels \in Seq(Levels) /\ Len(fgMask) \in Nat
  BY TypeParts, LenProperties DEF TypedLevels, TypedEvents, Scalars
<1>1. fLevels # <<>> => /\ n \in Nat \ {0} /\ Top \in Levels /\ Top = fLevels[n]
                        /\ Top.fBegin \in Nat /\ Top.fEnd \in Nat
                        /\ (Top.fBegin <= Top.fEnd \/ Len(fgMask) = 0)
  <2> SUFFICES ASSUME fLevels # <<>>
               PROVE  /\ n \in Nat \ {0} /\ Top \in Levels /\ Top = fLevels[n]
                      /\ Top.fBegin \in Nat /\ Top.fEnd \in Nat
                      /\ (Top.fBegin <= Top.fEnd \/ Len(fgMask) = 0)
    OBVIOUS
  <2>1. n \in Nat \ {0} /\ Top \in Levels /\ Top = fLevels[n]
    BY <1>0, Popped DEF Top
  <2>2. Top.fBegin \in Nat /\ Top.fEnd \in Nat
    BY <2>1 DEF Levels
  <2>3. Size(Top) >= 1 \/ fgMask = <<>>
    <3>1. n \in 1 .. n
      BY <2>1
    <3>2. QED
      BY <1>0, <2>1, <3>1 DEF TypedLevels
  <2>4. QED
    BY <2>1, <2>2, <2>3, EmptySeq DEF Size
<1>2. CASE fLevels' = <<>>
  BY <1>2 DEF LevelsTile
<1>3. CASE InitialLevel
  <2>1. /\ fLevels' = << Level(0, Len(fgMask), FALSE) >> /\ fgMask' = fgMask
        /\ \A i \in 1 .. Len(fgMask) : fgMask[i]
    BY <1>3 DEF InitialLevel, playback, Stack
  <2>2. /\ fLevels'[1].fEnd = Len(fgMask) /\ Len(fLevels') = 1
    BY <2>1 DEF Level
  <2>3. fLevels'[1].fEnd = Len(fgMask') /\ \A i \in 1 .. Len(fgMask') : fgMask'[i]
    BY <2>1, <2>2
  <2>4. \A i \in 1 .. Len(fLevels') - 1 : fLevels'[i].fBegin = fLevels'[i + 1].fEnd
    BY <2>2
  <2>5. QED
    BY <2>3, <2>4 DEF LevelsTile
<1>4. CASE SplitCurrentLevel
  <2> DEFINE mid == (Top.fBegin + Top.fEnd) \div 2
  <2>1. /\ fLevels # <<>> /\ Size(Top) > 1 /\ fLevels' = Split /\ fgMask' = fgMask
        /\ ~Testing /\ ~Testing'
    BY <1>4 DEF SplitCurrentLevel, Stack, playback, Testing
  <2>2. /\ Split \in Seq(Levels) /\ Len(Split) = n + 1
        /\ \A i \in 1 .. n - 1 : Split[i] = fLevels[i]
        /\ Split[n].fBegin = mid /\ Split[n].fEnd = Top.fEnd
        /\ Split[n + 1].fBegin = Top.fBegin /\ Split[n + 1].fEnd = mid
    BY <1>0, <2>1, Halved
  <2>3. Top' = Split[n + 1]
    BY <2>1, <2>2 DEF Top
  <2> HIDE DEF mid, n
  <2>4. n \in Nat \ {0} /\ Top = fLevels[n]
    BY <1>1, <2>1
  <2>5. /\ fLevels[1].fEnd = Len(fgMask)
        /\ \A i \in 1 .. n - 1 : fLevels[i].fBegin = fLevels[i + 1].fEnd
        /\ \A i \in 1 .. Len(fgMask) : i > Top.fBegin => fgMask[i]
    BY <2>1 DEF LevelsTile, n
  <2>6. Split[1].fEnd = Len(fgMask)
    <3>1. CASE n = 1
      BY <2>2, <2>4, <2>5, <3>1
    <3>2. CASE n # 1
      BY <2>2, <2>4, <2>5, <3>2
    <3>3. QED
      BY <3>1, <3>2
  <2>7. \A i \in 1 .. n : Split[i].fBegin = Split[i + 1].fEnd
    <3> SUFFICES ASSUME NEW i \in 1 .. n PROVE Split[i].fBegin = Split[i + 1].fEnd
      OBVIOUS
    <3>1. CASE i = n
      BY <2>2, <3>1
    <3>2. CASE i = n - 1
      BY <2>2, <2>4, <2>5, <3>2
    <3>3. CASE i < n - 1
      BY <2>2, <2>4, <2>5, <3>3
    <3>4. QED
      BY <2>4, <3>1, <3>2, <3>3
  <2>8. Len(fLevels') - 1 = n
    BY <2>1, <2>2, <2>4
  <2>9. \A i \in 1 .. Len(fgMask') : i > Top'.fBegin => fgMask'[i]
    BY <2>1, <2>2, <2>3, <2>5
  <2>10. QED
    BY <2>1, <2>6, <2>7, <2>8, <2>9 DEF LevelsTile
<1>5. CASE CannotSplit
  <2>1. /\ fLevels # <<>> /\ fgMask' = fgMask /\ ~Testing
        /\ fLevels' = [i \in DOMAIN fLevels |-> [fLevels[i] EXCEPT !.fChecked = FALSE]]
        /\ Testing'
    BY <1>5 DEF CannotSplit, Stack, playback, Testing
  <2>2. \A l \in Levels : LET r == [l EXCEPT !.fChecked = FALSE]
                          IN r.fBegin = l.fBegin /\ r.fEnd = l.fEnd
    BY DEF Levels
  <2>3. DOMAIN fLevels = 1 .. n /\ \A i \in 1 .. n : fLevels[i] \in Levels
    BY <1>0, LenProperties, ElementOfSeq
  <2>4. \A i \in 1 .. n : fLevels'[i].fBegin = fLevels[i].fBegin
                          /\ fLevels'[i].fEnd = fLevels[i].fEnd
    BY <2>1, <2>2, <2>3
  <2>5. Len(fLevels') = n
    BY <1>1, <2>1, <2>3
  <2>6. Top'.fEnd = Top.fEnd
    BY <1>1, <2>1, <2>4, <2>5 DEF Top
  <2> HIDE DEF n
  <2>7. /\ fLevels[1].fEnd = Len(fgMask)
        /\ \A i \in 1 .. n - 1 : fLevels[i].fBegin = fLevels[i + 1].fEnd
        /\ \A i \in 1 .. Len(fgMask) : i > Top.fBegin => fgMask[i]
    BY <2>1 DEF LevelsTile, n
  <2>8. /\ fLevels'[1].fEnd = Len(fgMask)
        /\ \A i \in 1 .. n - 1 : fLevels'[i].fBegin = fLevels'[i + 1].fEnd
    <3>1. n \in Nat \ {0}
      BY <1>1, <2>1 DEF n
    <3>2. 1 \in 1 .. n /\ \A i \in 1 .. n - 1 : i \in 1 .. n /\ i + 1 \in 1 .. n
      BY <3>1
    <3>3. QED
      BY <2>4, <2>7, <3>2
  <2>9. \A i \in 1 .. Len(fgMask) : i > Top.fEnd => fgMask[i]
    BY <1>0, <1>1, <2>1, <2>7
  <2>10. QED
    BY <2>1, <2>5, <2>6, <2>8, <2>9 DEF LevelsTile
<1>6. CASE NextSubRange /\ fLevels' # <<>>
  <2>1. fLevels # <<>> /\ fLevels' = Pop /\ Pop # <<>> /\ fgMask' = fgMask /\ Testing /\ ~Testing'
    BY <1>6 DEF NextSubRange, Stack, playback, Testing
  <2>2. /\ Pop \in Seq(Levels) /\ Len(Pop) = n - 1
        /\ \A i \in 1 .. n - 1 : Pop[i] = fLevels[i]
    BY <1>0, <2>1, Popped
  <2>3. Len(Pop) # 0
    BY <2>1, <2>2, EmptySeq
  <2>4. Top' = Pop[n - 1]
    BY <2>1, <2>2 DEF Top
  <2> HIDE DEF n
  <2>5. n \in Nat /\ n > 1 /\ Top = fLevels[n]
    BY <1>1, <2>1, <2>2, <2>3 DEF n
  <2>6. /\ fLevels[1].fEnd = Len(fgMask)
        /\ \A i \in 1 .. n - 1 : fLevels[i].fBegin = fLevels[i + 1].fEnd
        /\ \A i \in 1 .. Len(fgMask) : i > Top.fEnd => fgMask[i]
    BY <2>1 DEF LevelsTile, n
  <2>7. Top'.fBegin = Top.fEnd
    <3>1. n - 1 \in 1 .. n - 1 /\ n - 1 + 1 = n
      BY <2>5
    <3>2. fLevels[n - 1].fBegin = fLevels[n - 1 + 1].fEnd
      BY <2>6, <3>1
    <3>3. QED
      BY <2>2, <2>4, <2>5, <3>1, <3>2
  <2>8. /\ Pop[1].fEnd = Len(fgMask)
        /\ \A i \in 1 .. Len(Pop) - 1 : Pop[i].fBegin = Pop[i + 1].fEnd
    <3>1. 1 \in 1 .. n - 1 /\ Len(Pop) - 1 = n - 2
      BY <2>2, <2>5
    <3>2. \A i \in 1 .. n - 2 : i \in 1 .. n - 1 /\ i + 1 \in 1 .. n - 1
      BY <2>5
    <3>3. Pop[1].fEnd = Len(fgMask)
      BY <2>2, <2>6, <3>1
    <3>4. \A i \in 1 .. n - 2 : Pop[i].fBegin = Pop[i + 1].fEnd
      BY <2>2, <2>6, <3>2
    <3>5. QED
      BY <3>1, <3>3, <3>4
  <2>9. QED
    BY <2>1, <2>6, <2>7, <2>8 DEF LevelsTile
<1>7. CASE NoErrorOccurred /\ fLevels' # <<>>
  <2> DEFINE level == [fLevels[n] EXCEPT !.fChecked = TRUE]
  <2>1. /\ fLevels # <<>> /\ fLevels' = [fLevels EXCEPT ![n] = level] /\ Testing /\ ~Testing'
        /\ fgMask' = SetEvents(fgMask, Top.fBegin, Top.fEnd, TRUE)
    BY <1>7 DEF NoErrorOccurred, Stack, Testing, CurrentRange
  <2>2. \A l \in Levels : LET r == [l EXCEPT !.fChecked = TRUE]
                          IN r \in Levels /\ r.fBegin = l.fBegin /\ r.fEnd = l.fEnd
    BY DEF Levels
  <2>3. level \in Levels /\ level.fBegin = fLevels[n].fBegin /\ level.fEnd = fLevels[n].fEnd
    BY <1>1, <2>1, <2>2
  <2> HIDE DEF level
  <2>4. n \in 1 .. n
    BY <1>1, <2>1
  <2>5. /\ fLevels' \in Seq(Levels) /\ Len(fLevels') = n
        /\ \A j \in 1 .. n : fLevels'[j] = IF j = n THEN level ELSE fLevels[j]
    BY <1>0, <2>1, <2>3, <2>4, ExceptSeq
  <2>6. \A i \in 1 .. n : fLevels'[i].fBegin = fLevels[i].fBegin
                          /\ fLevels'[i].fEnd = fLevels[i].fEnd
    BY <2>3, <2>5
  <2>7. Top'.fBegin = Top.fBegin
    BY <1>1, <2>1, <2>4, <2>5, <2>6 DEF Top
  <2>8. /\ Len(fgMask') = Len(fgMask)
        /\ \A i \in 1 .. Len(fgMask) :
             /\ i > Top.fBegin /\ i <= Top.fEnd => fgMask'[i]
             /\ i > Top.fEnd /\ fgMask[i] => fgMask'[i]
    <3>1. fgMask \in Seq(BOOLEAN) /\ Top.fBegin \in Nat /\ Top.fEnd \in Nat
      BY <1>0, <1>1, <2>1 DEF TypedEvents
    <3>2. Len(fgMask') = Len(fgMask)
      BY <2>1, <3>1, SetEventsTyped
    <3>3. QED
      BY <2>1, <3>1, <3>2, SetEventsAt
  <2> HIDE DEF n
  <2>9. /\ fLevels[1].fEnd = Len(fgMask)
        /\ \A i \in 1 .. n - 1 : fLevels[i].fBegin = fLevels[i + 1].fEnd
        /\ \A i \in 1 .. Len(fgMask) : i > Top.fEnd => fgMask[i]
    BY <2>1 DEF LevelsTile, n
  <2>10. \A i \in 1 .. Len(fgMask') : i > Top'.fBegin => fgMask'[i]
    <3>1. ASSUME NEW i \in 1 .. Len(fgMask), i > Top.fBegin PROVE fgMask'[i]
      <4>1. Top.fEnd \in Nat /\ Len(fgMask) \in Nat
        BY <1>0, <1>1, <2>1
      <4>2. CASE i <= Top.fEnd
        BY <2>8, <3>1, <4>2
      <4>3. CASE i > Top.fEnd
        BY <2>8, <2>9, <4>3
      <4>4. QED
        BY <4>1, <4>2, <4>3
    <3>2. QED
      BY <2>7, <2>8, <3>1
  <2>11. /\ fLevels'[1].fEnd = Len(fgMask')
         /\ \A i \in 1 .. Len(fLevels') - 1 : fLevels'[i].fBegin = fLevels'[i + 1].fEnd
    <3>1. n \in Nat \ {0}
      BY <1>1, <2>1 DEF n
    <3>2. 1 \in 1 .. n /\ \A i \in 1 .. n - 1 : i \in 1 .. n /\ i + 1 \in 1 .. n
      BY <3>1
    <3>3. QED
      BY <2>5, <2>6, <2>8, <2>9, <3>2
  <2>12. QED
    BY <2>1, <2>10, <2>11 DEF LevelsTile
<1>8. CASE DisableAndStartAgain
  <2>1. fLevels # <<>> /\ fLevels' = fLevels /\ ~Testing /\ Testing' /\ Top' = Top
    BY <1>8 DEF DisableAndStartAgain, Stack, Testing, minimize, Top
  <2>2. \/ fgMask' = fgMask
        \/ fgMask' = SetEvents(fgMask, Top.fBegin, Top.fEnd, FALSE)
    BY <1>8 DEF DisableAndStartAgain
  <2> DEFINE disabled == SetEvents(fgMask, Top.fBegin, Top.fEnd, FALSE)
  <2>3. /\ Len(disabled) = Len(fgMask)
        /\ \A i \in 1 .. Len(fgMask) : i > Top.fEnd /\ fgMask[i] => disabled[i]
    <3>1. fgMask \in Seq(BOOLEAN) /\ Top.fBegin \in Nat /\ Top.fEnd \in Nat
      BY <1>0, <1>1, <2>1 DEF TypedEvents
    <3>2. Len(disabled) = Len(fgMask)
      BY <3>1, SetEventsTyped
    <3>3. QED
      BY <3>1, <3>2, SetEventsAt
  <2> HIDE DEF disabled
  <2>4. /\ Len(fgMask') = Len(fgMask)
        /\ \A i \in 1 .. Len(fgMask) : i > Top.fEnd /\ fgMask[i] => fgMask'[i]
    BY <2>2, <2>3 DEF disabled
  <2>5. /\ fLevels[1].fEnd = Len(fgMask)
        /\ \A i \in 1 .. Len(fLevels) - 1 : fLevels[i].fBegin = fLevels[i + 1].fEnd
        /\ \A i \in 1 .. Len(fgMask) : i > Top.fBegin => fgMask[i]
    BY <2>1 DEF LevelsTile
  <2>6. \A i \in 1 .. Len(fgMask) : i > Top.fEnd => fgMask'[i]
    BY <1>0, <1>1, <2>1, <2>4, <2>5
  <2>7. QED
    BY <2>1, <2>4, <2>5, <2>6 DEF LevelsTile
<1>9. CASE UNCHANGED <<fLevels, fgMask>> /\ (Testing => Testing') /\ (Testing' => Testing)
  BY <1>9 DEF LevelsTile, Top
<1>10. CASE ErrorOccurred /\ fLevels' # <<>>
  <2>1. UNCHANGED <<fLevels, fgMask>> /\ Testing /\ Testing'
    BY <1>10 DEF ErrorOccurred, Testing
  <2>2. QED
    BY <1>9, <2>1
<1>11. CASE Start \/ MinimizationPassComplete \/ MinimizationComplete
  <2>1. fLevels' = <<>>
    BY <1>11 DEF Start, MinimizationPassComplete, MinimizationComplete, Stack, minimize
  <2>2. QED
    BY <1>2, <2>1
<1>12. CASE StartAgain \/ Stop \/ Reset \/ Device \/ UNCHANGED vars
  <2>1. UNCHANGED <<fLevels, fgMask>>
    BY <1>12
       DEF StartAgain, Stop, Reset, Device, RealLoadInitialState, DeviceFails, ReportError,
           ReplayGetEvent, ReplayGetPen, Sleeps, Wakes, vars, minimize, playback
  <2>2. UNCHANGED call \/ (Testing /\ Testing')
    BY <1>12
       DEF StartAgain, Stop, Reset, Device, RealLoadInitialState, DeviceFails, ReportError,
           ReplayGetEvent, ReplayGetPen, Sleeps, Wakes, vars, Asks, Runs, Free, Testing
  <2>3. QED
    BY <1>9, <2>1, <2>2 DEF Testing
<1>13. QED
  BY <1>2, <1>3, <1>4, <1>5, <1>6, <1>7, <1>8, <1>10, <1>11, <1>12 DEF Next, Minimization

\* The ranges on the stack (fLevels of EmMinimize.cpp, split and popped call by
\* call between replays) cover all that the pass has still to decide about, and
\* nothing there stays masked out: no event is lost to the search.
THEOREM Tiled == Spec => []LevelsTile
<1> DEFINE IInv == TypeOK /\ Stack /\ LevelsTile
<1>1. Init => IInv
  BY Started DEF Init, LevelsTile
<1>2. IInv /\ [Next]_vars => IInv'
  BY TypesKept, StackKept, TilesKept
<1>3. QED
  BY <1>1, <1>2, PTL DEF Spec

\* Found and Tiled together: whenever one of those functions runs, the stack has a range
\* for it, and its ranges cover the rest of the pass.
THEOREM Covered == Spec => []LevelsCover
<1>1. LevelsFound /\ LevelsTile => LevelsCover
  BY DEF LevelsCover
<1>2. QED
  BY <1>1, Found, Tiled, PTL

\* What GetNextReplayEvent remembers of the pen is what the device was last given,
\* or nothing while the session has still to be reloaded.
Pen ==
  call = "device" /\ fgReplaying =>
    IF fMinimizeLoadState THEN ~fPenIsDown
    ELSE fPenIsDown => played # <<>> /\ played[Len(played)].type = "down"

PenInv == PenUpsFollowDowns /\ (quirks = {} => Pen)

LEMMA PenKept ==
  ASSUME TypeOK, Stack, PenInv, [Next]_vars
  PROVE  PenInv'
<1>1. UNCHANGED quirks
  BY DEF Next, Minimization, Device, Start, Stop, Reset, InitialLevel, SplitCurrentLevel,
         CannotSplit, DisableAndStartAgain, StartAgain, NextSubRange,
         MinimizationPassComplete, MinimizationComplete, NoErrorOccurred, ErrorOccurred,
         RealLoadInitialState, DeviceFails, ReportError, ReplayGetEvent, ReplayGetPen,
         Sleeps, Wakes, vars, device
<1> SUFFICES ASSUME quirks = {}
             PROVE  /\ \A i \in DOMAIN played' :
                         played'[i].type = "up" => i > 1 /\ played'[i - 1].type = "down"
                    /\ Pen'
  BY <1>1 DEF PenInv, PenUpsFollowDowns
<1>2. Pen /\ \A i \in DOMAIN played : played[i].type = "up" => i > 1 /\ played[i - 1].type = "down"
  BY DEF PenInv, PenUpsFollowDowns
<1>3. Remembers /\ ~TracksPen
  BY DEF Remembers, TracksPen
<1>4. /\ played \in Seq(Events) /\ fgEvents \in Seq(Events) /\ fIndex \in Nat
      /\ Len(played) \in Nat /\ DOMAIN played = 1 .. Len(played)
  BY TypeParts, LenProperties DEF Scalars, TypedEvents
<1>5. CASE ReplayGetEvent /\ NextReplayEvent # 0
  <2> DEFINE event == fgEvents[NextReplayEvent]
             n     == Len(played)
  <2>1. /\ call = "device" /\ fgReplaying /\ ~fMinimizeLoadState
        /\ fPenIsDown' = (event.type = "down") /\ Plays(event)
    BY <1>5 DEF ReplayGetEvent, Asks, Runs, Free
  <2>2. event \in Events /\ (event.type = "up" => fPenIsDown)
    BY <1>4, <1>5, NextReplayed DEF Returned
  <2>3. played' = Append(played, event)
    BY <1>3, <2>1 DEF Plays
  <2> HIDE DEF event
  <2>4. /\ played' \in Seq(Events) /\ Len(played') = n + 1
        /\ \A i \in 1 .. n : played'[i] = played[i]
        /\ played'[n + 1] = event
    BY <1>4, <2>2, <2>3, AppendProperties
  <2>5. DOMAIN played' = 1 .. n + 1 /\ played' # <<>>
    BY <1>4, <2>4, LenProperties, EmptySeq
  <2>6. \A i \in 1 .. n :
          played'[i].type = "up" => i > 1 /\ played'[i - 1].type = "down"
    <3> SUFFICES ASSUME NEW i \in 1 .. n, played'[i].type = "up"
                 PROVE  i > 1 /\ played'[i - 1].type = "down"
      OBVIOUS
    <3>1. i > 1 /\ played[i - 1].type = "down"
      BY <1>2, <1>4, <2>4
    <3>2. i - 1 \in 1 .. n
      BY <1>4, <3>1
    <3>3. QED
      BY <2>4, <3>1, <3>2
  <2>7. played'[n + 1].type = "up" => n + 1 > 1 /\ played'[n].type = "down"
    <3> SUFFICES ASSUME event.type = "up" PROVE n + 1 > 1 /\ played'[n].type = "down"
      BY <2>4
    <3>1. played # <<>> /\ played[n].type = "down"
      BY <1>2, <2>1, <2>2 DEF Pen
    <3>2. n \in 1 .. n
      BY <1>4, <3>1, EmptySeq
    <3>3. QED
      BY <2>4, <3>1, <3>2
  <2>8. Pen'
    <3>1. fPenIsDown' => played' # <<>> /\ played'[Len(played')].type = "down"
      BY <2>1, <2>4, <2>5
    <3>2. UNCHANGED fMinimizeLoadState
      BY <1>5 DEF ReplayGetEvent, session
    <3>3. QED
      BY <2>1, <3>1, <3>2 DEF Pen
  <2> HIDE DEF n
  <2>9. \A i \in 1 .. n + 1 :
          played'[i].type = "up" => i > 1 /\ played'[i - 1].type = "down"
    <3>1. n \in Nat /\ n + 1 - 1 = n
      BY <1>4 DEF n
    <3>2. \A i \in 1 .. n + 1 : i \in 1 .. n \/ i = n + 1
      BY <3>1
    <3>3. QED
      BY <2>6, <2>7, <3>1, <3>2
  <2>10. QED
    BY <2>5, <2>8, <2>9
<1>6. CASE UNCHANGED played /\ ~(call' = "device" /\ fgReplaying')
  BY <1>2, <1>6 DEF Pen
<1>7. CASE UNCHANGED played /\ fPenIsDown' = FALSE
  BY <1>2, <1>7 DEF Pen
<1>8. CASE UNCHANGED <<played, call, fgReplaying, fPenIsDown, fMinimizeLoadState>>
  BY <1>2, <1>8 DEF Pen
<1>9. CASE RealLoadInitialState
  <2>1. /\ call = "device" /\ fMinimizeLoadState /\ played' = <<>> /\ ~fMinimizeLoadState'
        /\ UNCHANGED <<call, fgReplaying, fPenIsDown>>
    BY <1>9 DEF RealLoadInitialState, playback
  <2>2. fgReplaying => ~fPenIsDown
    BY <1>2, <2>1 DEF Pen
  <2>3. DOMAIN played' = {}
    BY <2>1
  <2>4. QED
    BY <2>1, <2>2, <2>3 DEF Pen
<1>10. CASE Wakes
  <2>1. played' = <<>> /\ fPenIsDown' = FALSE
    BY <1>10 DEF Wakes, ReplayEventsOn, ResetPlayback
  <2>2. DOMAIN played' = {}
    BY <2>1
  <2>3. QED
    BY <2>1, <2>2 DEF Pen
<1>11. ~ReplayGetPen
  BY <1>3 DEF ReplayGetPen
<1>12. CASE Start
  <2>1. UNCHANGED played /\ (call' = "InitialLevel" \/ (call' = "device" /\ UNCHANGED playback))
    BY <1>12 DEF Start, device
  <2>2. CASE call' = "device" /\ UNCHANGED playback
    <3>1. ~fgReplaying'
      BY <1>12, <2>2 DEF Start, Stack, playback
    <3>2. QED
      BY <1>6, <2>1, <3>1
  <2>3. QED
    BY <1>6, <2>1, <2>2
<1>13. QED
  BY <1>5, <1>6, <1>7, <1>8, <1>9, <1>10, <1>11, <1>12
     DEF Next, Minimization, Device, Stop, Reset, InitialLevel, SplitCurrentLevel,
         CannotSplit, DisableAndStartAgain, StartAgain, NextSubRange,
         MinimizationPassComplete, MinimizationComplete, NoErrorOccurred, ErrorOccurred,
         DeviceFails, ReportError, ReplayGetEvent, Sleeps, vars, playback, device, session,
         ReplayEventsOn, ReplayEventsOff, ResetPlayback

\* Without its quirks, the device is never given a pen up but after a pen down
\* (fPenIsDown of GetNextReplayEvent in EmEventPlayback.cpp), whatever is masked out,
\* and however replays are cut short by an error, Stop or the reload of the session.
THEOREM PenUps == Spec => []PenUpsFollowDowns
<1> DEFINE IInv == TypeOK /\ Stack /\ PenInv
<1>1. Init => IInv
  <2>1. Init => PenInv
    BY DEF Init, PenInv, PenUpsFollowDowns, Pen
  <2>2. QED
    BY <2>1, Started
<1>2. IInv /\ [Next]_vars => IInv'
  BY TypesKept, StackKept, PenKept
<1>3. IInv => PenUpsFollowDowns
  BY DEF PenInv
<1>4. QED
  BY <1>1, <1>2, <1>3, PTL DEF Spec

-----------------------------------------------------------------------------
(* What a replay consists of. *)

\* The place of an index among those of a set.
Rank(E, i) == Cardinality({j \in E : j <= i})

\* The indices up to some number.
UpTo(E, m) == {i \in E : i <= m}

\* The list has the events with the indices in E, in their order.
Lists(list, events, E) ==
  /\ list \in Seq(Events) /\ Len(list) = Cardinality(E)
  /\ \A i \in E : list[Rank(E, i)] = events[i]

\* Different indices have different places, and all places are taken.
LEMMA Ranks ==
  ASSUME NEW N \in Nat, NEW E \in SUBSET (1 .. N)
  PROVE  /\ IsFiniteSet(E) /\ Cardinality(E) \in Nat
         /\ \A i \in E : Rank(E, i) \in 1 .. Cardinality(E)
         /\ \A i, j \in E : i < j => Rank(E, i) < Rank(E, j)
         /\ \A n \in 1 .. Cardinality(E) : \E i \in E : Rank(E, i) = n
<1>1. /\ IsFiniteSet(E) /\ Cardinality(E) \in Nat
      /\ \A n \in 1 .. Cardinality(E) : \E i \in E : Rank(E, i) = n
  <2>1. /\ IsFiniteSet(E) /\ Cardinality(E) \in 0 .. N
        /\ \A n \in 1 .. Cardinality(E) : \E i \in E : Cardinality({j \in E : j <= i}) = n
    BY Nth
  <2>2. QED
    BY <2>1 DEF Rank
<1>0. \A i \in E : i \in Int
  OBVIOUS
<1> DEFINE upto(i) == {j \in E : j <= i}
<1>2. \A i \in E : /\ IsFiniteSet(upto(i)) /\ Cardinality(upto(i)) \in Nat
                   /\ Cardinality(upto(i)) <= Cardinality(E) /\ Cardinality(upto(i)) # 0
  <2> SUFFICES ASSUME NEW i \in E
               PROVE  /\ IsFiniteSet(upto(i)) /\ Cardinality(upto(i)) \in Nat
                      /\ Cardinality(upto(i)) <= Cardinality(E) /\ Cardinality(upto(i)) # 0
    OBVIOUS
  <2>1. upto(i) \in SUBSET E /\ i \in upto(i)
    OBVIOUS
  <2> HIDE DEF upto
  <2>2. QED
    BY <1>1, <2>1, FS_Subset, FS_CardinalityType, FS_EmptySet
<1>3. \A i \in E : Rank(E, i) \in 1 .. Cardinality(E)
  <2>1. \A i \in E : Rank(E, i) = Cardinality(upto(i))
    BY DEF Rank
  <2> HIDE DEF upto
  <2>2. QED
    BY <1>1, <1>2, <2>1
<1>4. \A i, j \in E : i < j => Rank(E, i) < Rank(E, j)
  <2> SUFFICES ASSUME NEW i \in E, NEW j \in E, i < j
               PROVE  Cardinality(upto(i)) < Cardinality(upto(j))
    BY DEF Rank
  <2>1. upto(i) \in SUBSET upto(j) /\ j \in upto(j) /\ j \notin upto(i)
    <3>1. \A x \in upto(i) : x \in upto(j)
      BY <1>0
    <3>2. j \in upto(j) /\ j \notin upto(i)
      BY <1>0
    <3>3. QED
      BY <3>1, <3>2
  <2> HIDE DEF upto
  <2>2. /\ Cardinality(upto(i)) <= Cardinality(upto(j))
        /\ Cardinality(upto(j)) = Cardinality(upto(i)) => upto(j) = upto(i)
    BY <1>2, <2>1, FS_Subset
  <2>3. QED
    BY <1>2, <2>1, <2>2
<1>5. QED
  BY <1>1, <1>3, <1>4

\* Up to some index, a set has the same places as the part of it up to there.
LEMMA RankBelow ==
  ASSUME NEW N \in Nat, NEW F \in SUBSET (1 .. N), NEW m \in Int, NEW i \in F, i <= m
  PROVE  Rank(UpTo(F, m), i) = Rank(F, i)
<1>0. \A j \in F : j \in Int
  OBVIOUS
<1>1. {j \in {k \in F : k <= m} : j <= i} = {j \in F : j <= i}
  <2>1. \A j \in F : j <= i => j <= m
    BY <1>0
  <2>2. QED
    BY <2>1
<1>2. QED
  BY <1>1 DEF Rank, UpTo

\* CullEvents and a playback from the first event on give the events that are returned,
\* in their order.
LEMMA ReplayLists ==
  ASSUME NEW events \in Seq(Events), NEW mask
  PROVE  Lists(Replay(events, mask), events, Enabled(events, mask))
<1> DEFINE E      == Enabled(events, mask)
           k      == CountEnabledEvents(events, mask)
           nth(n) == CHOOSE i \in E : Cardinality({j \in E : j <= i}) = n
<1>1. Len(events) \in Nat /\ E \in SUBSET (1 .. Len(events))
  BY LenProperties DEF Enabled
<1>2. /\ Replay(events, mask) \in Seq(Events)
      /\ Len(Replay(events, mask)) = k /\ k = Cardinality(E)
  BY ReplayTyped DEF CountEnabledEvents
<1>3. Replay(events, mask) = [n \in 1 .. k |-> events[nth(n)]]
  BY DEF Replay
<1>4. \A i \in E : nth(Rank(E, i)) = i /\ Rank(E, i) \in 1 .. k
  <2> HIDE DEF E, k
  <2> SUFFICES ASSUME NEW i \in E PROVE nth(Rank(E, i)) = i /\ Rank(E, i) \in 1 .. k
    OBVIOUS
  <2>1. /\ Rank(E, i) \in 1 .. k
        /\ \A a, b \in E : Rank(E, a) \in Nat /\ (a < b => Rank(E, a) < Rank(E, b))
    <3>1. /\ \A a \in E : Rank(E, a) \in 1 .. Cardinality(E)
          /\ \A a, b \in E : a < b => Rank(E, a) < Rank(E, b)
      BY <1>1, Ranks
    <3>2. \A n : n \in 1 .. Cardinality(E) => n \in Nat
      OBVIOUS
    <3>3. QED
      BY <1>2, <3>1, <3>2
  <2>2. \A a, b \in E : Rank(E, a) = Rank(E, b) => a = b
    BY <1>1, <2>1
  <2>3. nth(Rank(E, i)) \in E /\ Rank(E, nth(Rank(E, i))) = Rank(E, i)
    BY DEF Rank
  <2>4. QED
    BY <2>1, <2>2, <2>3
<1>5. \A i \in E : Replay(events, mask)[Rank(E, i)] = events[i]
  <2> HIDE DEF E, k, nth
  <2>1. QED
    BY <1>3, <1>4
<1>6. QED
  BY <1>2, <1>5 DEF Lists

\* Of two lists that agree up to some index, the one that ends there is the beginning of
\* the other.
LEMMA ListsBegin ==
  ASSUME NEW e \in Seq(Events), NEW f \in Seq(Events), NEW m \in Int,
         NEW F \in SUBSET (1 .. Len(f)), NEW s, NEW t, Lists(s, e, UpTo(F, m)), Lists(t, f, F),
         \A i \in UpTo(F, m) : e[i] = f[i]
  PROVE  Len(s) \in 0 .. Len(t) /\ SubSeq(t, 1, Len(s)) = s
<1> DEFINE E == UpTo(F, m)
           N == Len(f)
<1>0. N \in Nat
  BY LenProperties
<1>1. /\ E \in SUBSET (1 .. N) /\ E \in SUBSET F
      /\ s \in Seq(Events) /\ t \in Seq(Events)
      /\ Len(s) = Cardinality(E) /\ Len(t) = Cardinality(F)
  BY DEF Lists, UpTo
<1> HIDE DEF N
<1>2. /\ IsFiniteSet(E) /\ Cardinality(E) \in Nat
      /\ IsFiniteSet(F) /\ Cardinality(F) \in Nat
      /\ \A n \in 1 .. Cardinality(E) : \E i \in E : Rank(E, i) = n
  <2> HIDE DEF E
  <2>1. F \in SUBSET (1 .. N)
    BY DEF N
  <2>2. QED
    BY <1>0, <1>1, <2>1, Ranks
<1>3. Len(s) \in 0 .. Len(t)
  <2> HIDE DEF E
  <2>1. Cardinality(E) <= Cardinality(F)
    BY <1>1, <1>2, FS_Subset
  <2>2. QED
    BY <1>1, <1>2, <2>1
<1>4. \A n \in 1 .. Len(s) : s[n] = t[n]
  <2> SUFFICES ASSUME NEW n \in 1 .. Len(s) PROVE s[n] = t[n]
    OBVIOUS
  <2>1. PICK i \in E : Rank(E, i) = n
    BY <1>1, <1>2
  <2>2. i \in F /\ i <= m
    BY DEF UpTo
  <2>3. Rank(F, i) = n
    <3>1. F \in SUBSET (1 .. N)
      BY DEF N
    <3>2. QED
      BY <1>0, <2>1, <2>2, <3>1, RankBelow
  <2>4. s[n] = e[i] /\ t[n] = f[i]
    BY <2>1, <2>2, <2>3 DEF Lists
  <2>5. QED
    BY <2>4
<1>5. \A i \in 1 .. Len(s) : t[i] \in Events
  BY <1>1, <1>3, ElementOfSeq
<1>6. /\ SubSeq(t, 1, Len(s)) \in Seq(Events) /\ Len(SubSeq(t, 1, Len(s))) = Len(s)
      /\ \A i \in 1 .. Len(s) : SubSeq(t, 1, Len(s))[i] = t[i]
  <2>1. Len(s) \in Int /\ 1 \in Int /\ (1 <= Len(s) \/ Len(s) = 0)
    BY <1>3
  <2>2. /\ SubSeq(t, 1, Len(s)) \in Seq(Events)
        /\ Len(SubSeq(t, 1, Len(s))) = IF 1 <= Len(s) THEN Len(s) - 1 + 1 ELSE 0
        /\ \A i \in 1 .. Len(s) - 1 + 1 : SubSeq(t, 1, Len(s))[i] = t[1 + i - 1]
    BY <1>5, <2>1, SubSeqProperties
  <2>3. QED
    BY <2>1, <2>2
<1>7. QED
  BY <1>1, <1>3, <1>4, <1>6, SeqEqual

\* One event more is one index more.
LEMMA ListsGrow ==
  ASSUME NEW e \in Seq(Events), NEW i \in 1 .. Len(e), NEW E \in SUBSET (1 .. i - 1),
         NEW s, Lists(s, e, E)
  PROVE  Lists(Append(s, e[i]), e, E \cup {i})
<1>0. /\ Len(e) \in Nat /\ i \in Nat /\ i - 1 \in Nat /\ e[i] \in Events
      /\ s \in Seq(Events) /\ Len(s) = Cardinality(E)
      /\ i \notin E /\ \A j \in E \cup {i} : j \in Int /\ j <= i
  <2>1. Len(e) \in Nat
    BY LenProperties
  <2>2. /\ i \in Nat /\ i - 1 \in Nat /\ i \notin E
        /\ \A j \in E \cup {i} : j \in Int /\ j <= i
    BY <2>1
  <2>3. QED
    BY <2>1, <2>2, ElementOfSeq DEF Lists
<1>1. /\ IsFiniteSet(E) /\ Cardinality(E) \in Nat
      /\ \A j \in E : Rank(E, j) \in 1 .. Cardinality(E)
  BY <1>0, Ranks
<1>2. Cardinality(E \cup {i}) = Cardinality(E) + 1
  BY <1>0, <1>1, FS_AddElement
<1>3. Rank(E \cup {i}, i) = Cardinality(E) + 1
  <2>1. {j \in E \cup {i} : j <= i} = E \cup {i}
    BY <1>0
  <2>2. QED
    BY <1>2, <2>1 DEF Rank
<1>4. \A j \in E : Rank(E \cup {i}, j) = Rank(E, j)
  <2>1. \A j \in E : {k \in E \cup {i} : k <= j} = {k \in E : k <= j}
    BY <1>0
  <2>2. QED
    BY <2>1 DEF Rank
<1>5. /\ Append(s, e[i]) \in Seq(Events) /\ Len(Append(s, e[i])) = Len(s) + 1
      /\ \A n \in 1 .. Len(s) : Append(s, e[i])[n] = s[n]
      /\ Append(s, e[i])[Len(s) + 1] = e[i]
  BY <1>0, AppendProperties
<1>6. \A j \in E : Append(s, e[i])[Rank(E, j)] = e[j]
  BY <1>0, <1>1, <1>5 DEF Lists
<1>7. QED
  BY <1>0, <1>1, <1>2, <1>3, <1>4, <1>5, <1>6 DEF Lists

-----------------------------------------------------------------------------
(* The pen. *)

\* A set of indices has a least one.
LEMMA Least ==
  ASSUME NEW T \in SUBSET Nat, T # {}
  PROVE  \E x \in T : \A y \in T : x <= y
<1>1. \E x \in T : \A y \in T : ~(<<y, x>> \in OpToRel(<, Nat))
  BY NatLessThanWellFounded, WFMin
<1>2. PICK x \in T : \A y \in T : ~(y < x)
  BY <1>1 DEF OpToRel
<1>3. QED
  BY <1>2

\* The pen is down before an event exactly if the last event that was returned put it
\* down.
LEMMA PenLast ==
  ASSUME NEW events \in Seq(Events), NEW mask, NEW i \in 1 .. Len(events) + 1
  PROVE  PenIsDown(events, mask, i)
           <=> \E j \in Enabled(events, mask) :
                 /\ j < i /\ events[j].type = "down"
                 /\ \A k \in Enabled(events, mask) : k < i => k <= j
<1> DEFINE E == Enabled(events, mask)
           n == Len(events)
<1>0. n \in Nat /\ i \in Nat /\ i <= n + 1 /\ E \in SUBSET (1 .. n)
  BY LenProperties DEF Enabled
<1>1. ASSUME NEW j \in 1 .. i - 1, events[j].type = "down", mask[j],
             \A k \in j + 1 .. i - 1 : events[k].type # "up" /\ ~mask[k]
      PROVE  j \in E /\ j < i /\ \A k \in E : k < i => k <= j
  <2>1. j \in 1 .. n /\ j < i
    BY <1>0
  <2>2. j \in E
    BY <1>1, <2>1 DEF Enabled, Returned
  <2>3. \A k \in j + 1 .. i - 1 : k \notin E
    BY <1>1 DEF Enabled, Returned
  <2>4. \A k \in E : k < i => k <= j
    <3> HIDE DEF E, n
    <3>1. \A k \in E : k \in Int /\ k \notin j + 1 .. i - 1
      BY <1>0, <2>3
    <3>2. QED
      BY <1>0, <2>1, <3>1
  <2>5. QED
    BY <2>1, <2>2, <2>4
<1>2. ASSUME NEW j \in E, j < i, events[j].type = "down", \A k \in E : k < i => k <= j
      PROVE  PenIsDown(events, mask, i)
  <2>1. j \in 1 .. i - 1 /\ j \in 1 .. n /\ mask[j]
    <3>1. j \in 1 .. n /\ mask[j]
      BY <1>2 DEF Enabled, Returned
    <3>2. QED
      BY <1>0, <1>2, <3>1
  <2>2. \A k \in j + 1 .. i - 1 : k \in 1 .. n /\ k \notin E
    <3> HIDE DEF E, n
    <3>1. QED
      BY <1>0, <1>2, <2>1
  <2>3. \A k \in j + 1 .. i - 1 : events[k].type # "up"
    <3> DEFINE U == {k \in j + 1 .. i - 1 : events[k].type = "up"}
    <3>1. SUFFICES ASSUME U # {} PROVE FALSE
      OBVIOUS
    <3>2. U \in SUBSET Nat
      BY <2>1
    <3>3. PICK k \in U : \A l \in U : k <= l
      BY <3>1, <3>2, Least
    <3>4. /\ k \in 1 .. n /\ k \notin E /\ j \in 1 .. k - 1
          /\ \A l \in j + 1 .. k - 1 : l \in j + 1 .. i - 1 /\ l \notin U
      BY <1>0, <2>1, <2>2, <3>3
    <3>5. \A l \in j + 1 .. k - 1 : events[l].type # "up" /\ ~mask[l]
      BY <2>2, <3>4 DEF Enabled, Returned
    <3>6. PenIsDown(events, mask, k)
      BY <1>2, <2>1, <3>4, <3>5 DEF PenIsDown
    <3>7. QED
      BY <3>3, <3>4, <3>6 DEF Enabled, Returned
  <2>4. \A k \in j + 1 .. i - 1 : ~mask[k]
    BY <2>2, <2>3 DEF Enabled, Returned
  <2>5. QED
    BY <1>2, <2>1, <2>3, <2>4 DEF PenIsDown
<1>3. QED
  BY <1>1, <1>2 DEF PenIsDown

\* As long as nothing is returned, the pen stays as it is.
LEMMA PenStays ==
  ASSUME NEW events \in Seq(Events), NEW mask, NEW m \in 1 .. Len(events) + 1,
         NEW i \in m .. Len(events) + 1, \A k \in m .. i - 1 : k \notin Enabled(events, mask)
  PROVE  PenIsDown(events, mask, i) = PenIsDown(events, mask, m)
<1> DEFINE E == Enabled(events, mask)
<1>0. /\ Len(events) \in Nat /\ m \in Nat /\ i \in Nat /\ i >= m
      /\ i \in 1 .. Len(events) + 1 /\ \A k \in E : k \in Int
  BY LenProperties DEF Enabled
<1>1. \A k \in E : k < i <=> k < m
  <2> HIDE DEF E
  <2>1. \A k \in E : k \notin m .. i - 1
    BY DEF E
  <2>2. QED
    BY <1>0, <2>1
<1>2. PenIsDown(events, mask, i) <=> PenIsDown(events, mask, m)
  <2>1. PenIsDown(events, mask, i)
           <=> \E j \in E : /\ j < i /\ events[j].type = "down"
                            /\ \A k \in E : k < i => k <= j
    BY <1>0, PenLast
  <2>2. PenIsDown(events, mask, m)
           <=> \E j \in E : /\ j < m /\ events[j].type = "down"
                            /\ \A k \in E : k < m => k <= j
    BY PenLast
  <2> HIDE DEF E
  <2>3. QED
    BY <1>1, <2>1, <2>2
<1>3. PenIsDown(events, mask, i) \in BOOLEAN /\ PenIsDown(events, mask, m) \in BOOLEAN
  BY DEF PenIsDown
<1>4. QED
  BY <1>2, <1>3

\* After an event that is returned, the pen is as this event put it.
LEMMA PenAfter ==
  ASSUME NEW events \in Seq(Events), NEW mask, NEW i \in Enabled(events, mask)
  PROVE  PenIsDown(events, mask, i + 1) = (events[i].type = "down")
<1> DEFINE E == Enabled(events, mask)
<1>0. /\ Len(events) \in Nat /\ i \in 1 .. Len(events) /\ i + 1 \in 1 .. Len(events) + 1
      /\ i \in Int /\ \A k \in E : k \in Int
  <2>1. Len(events) \in Nat /\ i \in 1 .. Len(events) /\ \A k \in E : k \in 1 .. Len(events)
    BY LenProperties DEF Enabled
  <2> HIDE DEF E
  <2>2. QED
    BY <2>1
<1>1. PenIsDown(events, mask, i + 1)
         <=> \E j \in E : /\ j < i + 1 /\ events[j].type = "down"
                          /\ \A k \in E : k < i + 1 => k <= j
  BY <1>0, PenLast
<1>2. i \in E
  OBVIOUS
<1>3. (\E j \in E : /\ j < i + 1 /\ events[j].type = "down"
                    /\ \A k \in E : k < i + 1 => k <= j)
        <=> events[i].type = "down"
  <2> HIDE DEF E
  <2>1. \A k \in E : k < i + 1 <=> k <= i
    BY <1>0
  <2>2. \A j \in E : j <= i /\ i <= j => j = i
    BY <1>0
  <2>3. i < i + 1 /\ i <= i
    BY <1>0
  <2>4. QED
    BY <1>2, <2>1, <2>2, <2>3
<1>4. PenIsDown(events, mask, i + 1) \in BOOLEAN
  BY DEF PenIsDown
<1>5. QED
  BY <1>1, <1>3, <1>4

\* GetNextReplayEvent, which looks only at what is left and at fPenIsDown, finds the next
\* of the events that CullEvents keeps.
LEMMA NextIsEnabled ==
  ASSUME fgEvents \in Seq(Events), fIndex \in 0 .. Len(fgEvents),
         fPenIsDown = PenIsDown(fgEvents, fgMask, fIndex + 1)
  PROVE  /\ NextReplayEvent = 0 => \A k \in Enabled(fgEvents, fgMask) : k <= fIndex
         /\ NextReplayEvent # 0 =>
              /\ NextReplayEvent \in Enabled(fgEvents, fgMask) /\ NextReplayEvent > fIndex
              /\ \A k \in Enabled(fgEvents, fgMask) : k <= fIndex \/ k >= NextReplayEvent
<1> DEFINE E    == Enabled(fgEvents, fgMask)
           n    == Len(fgEvents)
           rest == {i \in fIndex + 1 .. n : Returned(fgEvents[i], fgMask[i], fPenIsDown)}
           left == {i \in E : i > fIndex}
<1>0. n \in Nat /\ fIndex \in Nat /\ fIndex + 1 \in 1 .. n + 1 /\ E \in SUBSET (1 .. n)
  BY LenProperties DEF Enabled
<1>1. ASSUME NEW i \in fIndex + 1 .. n, \A k \in fIndex + 1 .. i - 1 : k \notin E
      PROVE  i \in E <=> i \in rest
  <2>1. i \in 1 .. n /\ i \in fIndex + 1 .. n + 1
    BY <1>0
  <2>2. PenIsDown(fgEvents, fgMask, i) = fPenIsDown
    BY <1>0, <1>1, <2>1, PenStays
  <2>3. QED
    BY <2>1, <2>2 DEF Enabled
<1>2. NextReplayEvent = IF rest = {} THEN 0 ELSE CHOOSE i \in rest : \A j \in rest : i <= j
  BY DEF NextReplayEvent
<1>3. rest # {} => /\ NextReplayEvent \in rest
                   /\ \A j \in rest : NextReplayEvent <= j
  <2>1. rest \in SUBSET Nat
    BY <1>0
  <2> HIDE DEF rest
  <2>2. QED
    BY <1>2, <2>1, Least
<1>4. left \in SUBSET Nat
  BY <1>0
<1>5. ASSUME NEW x \in left, \A y \in left : x <= y
      PROVE  x \in rest
  <2>1. x \in E /\ x \in fIndex + 1 .. n
    BY <1>0
  <2>2. \A k \in fIndex + 1 .. x - 1 : k \notin E
    BY <1>0, <1>5
  <2>3. QED
    BY <1>1, <2>1, <2>2
<1>6. CASE rest = {}
  <2>1. left = {}
    <3> HIDE DEF rest, left
    <3>1. QED
      BY <1>4, <1>5, <1>6, Least
  <2>2. QED
    BY <1>0, <1>2, <1>6, <2>1
<1>7. CASE rest # {}
  <2> DEFINE next == NextReplayEvent
  <2>1. next \in fIndex + 1 .. n /\ next # 0 /\ next > fIndex
    BY <1>0, <1>3, <1>7
  <2>2. \A x \in left : next <= x
    <3>1. CASE left = {}
      BY <3>1
    <3>2. CASE left # {}
      <4>1. PICK x \in left : \A y \in left : x <= y
        BY <1>4, <3>2, Least
      <4>2. next <= x
        BY <1>3, <1>5, <1>7, <4>1
      <4>3. \A y \in left : next <= y
        <5> HIDE DEF left, next
        <5>1. QED
          BY <1>4, <2>1, <4>1, <4>2
      <4>4. QED
        BY <4>3
    <3>3. QED
      BY <3>1, <3>2
  <2>3. \A k \in fIndex + 1 .. next - 1 : k \notin E
    <3>1. \A k \in fIndex + 1 .. next - 1 : k \in Int /\ k > fIndex /\ ~(next <= k)
      BY <1>0, <2>1
    <3>2. QED
      BY <2>2, <3>1
  <2>4. next \in E
    BY <1>1, <1>3, <1>7, <2>1, <2>3
  <2>5. \A k \in E : k <= fIndex \/ k >= next
    <3>1. \A k \in E : k \in Int /\ (k > fIndex => next <= k)
      BY <1>0, <2>2
    <3>2. QED
      BY <1>0, <2>1, <3>1
  <2>6. QED
    BY <2>1, <2>4, <2>5
<1>8. QED
  BY <1>6, <1>7

-----------------------------------------------------------------------------
(* Replays of lists that agree, and replays of replays. *)

\* Two lists and their masks agree on the first m events.
Agree(e, d, f, g, m) ==
  m <= Len(e) /\ m <= Len(f) /\ \A i \in 1 .. m : e[i] = f[i] /\ d[i] = g[i]

\* What is returned depends only on what came before.
LEMMA Agreeing ==
  ASSUME NEW e \in Seq(Events), NEW f \in Seq(Events), NEW d, NEW g, NEW m \in Nat,
         Agree(e, d, f, g, m)
  PROVE  UpTo(Enabled(e, d), m) = UpTo(Enabled(f, g), m)
<1>0. /\ Len(e) \in Nat /\ Len(f) \in Nat /\ m <= Len(e) /\ m <= Len(f)
      /\ \A i \in 1 .. m : e[i] = f[i] /\ d[i] = g[i]
  BY LenProperties DEF Agree
<1>1. \A i \in 1 .. m : PenIsDown(e, d, i) <=> PenIsDown(f, g, i)
  <2>1. \A i \in 1 .. m : \A k \in 1 .. i - 1 : k \in 1 .. m /\ \A l \in k + 1 .. i - 1 : l \in 1 .. m
    OBVIOUS
  <2>2. QED
    BY <1>0, <2>1 DEF PenIsDown
<1>2. \A i \in 1 .. m : Returned(e[i], d[i], PenIsDown(e, d, i))
                          <=> Returned(f[i], g[i], PenIsDown(f, g, i))
  BY <1>0, <1>1 DEF Returned
<1>3. \A i \in Int : i <= m => /\ i \in 1 .. Len(e) <=> i \in 1 .. m
                              /\ i \in 1 .. Len(f) <=> i \in 1 .. m
  BY <1>0
<1>4. /\ \A i \in Enabled(e, d) : i \in Int /\ i \in 1 .. Len(e)
      /\ \A i \in Enabled(f, g) : i \in Int /\ i \in 1 .. Len(f)
  BY <1>0 DEF Enabled
<1>5. \A i \in Int : i <= m => (i \in Enabled(e, d) <=> i \in Enabled(f, g))
  BY <1>2, <1>3 DEF Enabled
<1>6. QED
  BY <1>4, <1>5 DEF UpTo

\* What was given to the device up to some event is the beginning of any replay that
\* agrees so far.
LEMMA Beginning ==
  ASSUME NEW e \in Seq(Events), NEW f \in Seq(Events), NEW d, NEW g, NEW m \in Nat,
         Agree(e, d, f, g, m), NEW s, Lists(s, e, UpTo(Enabled(e, d), m))
  PROVE  Len(s) \in 0 .. Len(Replay(f, g)) /\ SubSeq(Replay(f, g), 1, Len(s)) = s
<1> DEFINE F == Enabled(f, g)
<1>1. UpTo(Enabled(e, d), m) = UpTo(F, m)
  BY Agreeing
<1>2. F \in SUBSET (1 .. Len(f)) /\ Len(f) \in Nat
  BY LenProperties DEF Enabled
<1>3. Lists(Replay(f, g), f, F) /\ Lists(s, e, UpTo(F, m))
  BY <1>1, ReplayLists
<1>4. \A i \in UpTo(F, m) : e[i] = f[i]
  BY <1>2 DEF Agree, UpTo
<1>5. m \in Int
  OBVIOUS
<1> HIDE DEF F
<1>6. QED
  BY <1>2, <1>3, <1>4, <1>5, ListsBegin

\* All indices are up to the length of the list.
LEMMA AllOfThem ==
  ASSUME NEW e \in Seq(Events), NEW d, NEW m \in Nat,
         \A i \in Enabled(e, d) : i <= m
  PROVE  UpTo(Enabled(e, d), m) = Enabled(e, d)
BY DEF UpTo

\* A replay that agrees with another on all events of the latter begins with it.
LEMMA BeginsWith ==
  ASSUME NEW e \in Seq(Events), NEW f \in Seq(Events), NEW d, NEW g,
         Agree(e, d, f, g, Len(e))
  PROVE  /\ Len(Replay(e, d)) \in 0 .. Len(Replay(f, g))
         /\ SubSeq(Replay(f, g), 1, Len(Replay(e, d))) = Replay(e, d)
<1>1. Len(e) \in Nat
  BY LenProperties
<1>2. \A i \in Enabled(e, d) : i <= Len(e)
  BY <1>1 DEF Enabled
<1>3. Lists(Replay(e, d), e, UpTo(Enabled(e, d), Len(e)))
  BY <1>1, <1>2, AllOfThem, ReplayLists
<1>4. QED
  BY <1>1, <1>3, Beginning

\* Only the entries of a mask that belong to events matter.
LEMMA SameReplay ==
  ASSUME NEW e \in Seq(Events), NEW d, NEW g, \A i \in 1 .. Len(e) : d[i] = g[i]
  PROVE  Replay(e, d) = Replay(e, g)
<1>1. Len(e) \in Nat /\ Agree(e, d, e, g, Len(e))
  BY LenProperties DEF Agree
<1>2. \A i \in Enabled(e, d) \cup Enabled(e, g) : i <= Len(e)
  BY <1>1 DEF Enabled
<1>3. UpTo(Enabled(e, d), Len(e)) = UpTo(Enabled(e, g), Len(e))
  BY <1>1, Agreeing
<1>4. Enabled(e, d) = Enabled(e, g)
  BY <1>1, <1>2, <1>3, AllOfThem
<1>5. QED
  BY <1>4 DEF Replay, CountEnabledEvents

\* A pen up stands only directly after a pen down.
Clean(events) ==
  \A i \in 1 .. Len(events) : events[i].type = "up" => i > 1 /\ events[i - 1].type = "down"

\* So it is in all that CullEvents leaves.
LEMMA ReplayClean ==
  ASSUME NEW events \in Seq(Events), NEW mask
  PROVE  Clean(Replay(events, mask))
<1> DEFINE E == Enabled(events, mask)
           t == Replay(events, mask)
<1>1. E \in SUBSET (1 .. Len(events)) /\ Len(events) \in Nat
  BY LenProperties DEF Enabled
<1>2. t \in Seq(Events) /\ Len(t) = Cardinality(E) /\ \A i \in E : t[Rank(E, i)] = events[i]
  BY ReplayLists DEF Lists
<1>3. /\ IsFiniteSet(E) /\ Cardinality(E) \in Nat
      /\ \A i \in E : Rank(E, i) \in 1 .. Cardinality(E)
      /\ \A n \in 1 .. Cardinality(E) : \E i \in E : Rank(E, i) = n
  BY <1>1, Ranks
<1> SUFFICES ASSUME NEW n \in 1 .. Len(t), t[n].type = "up"
             PROVE  n > 1 /\ t[n - 1].type = "down"
  BY DEF Clean
<1>4. PICK i \in E : Rank(E, i) = n
  <2> HIDE DEF E, t
  <2>1. QED
    BY <1>2, <1>3
<1>5. PenIsDown(events, mask, i) /\ i \in 1 .. Len(events) + 1
  <2>1. events[i].type = "up"
    BY <1>2, <1>4
  <2>2. QED
    BY <1>1, <1>4, <2>1 DEF Enabled, Returned
<1>6. PICK j \in E : j < i /\ events[j].type = "down" /\ \A k \in E : k < i => k <= j
  BY <1>5, PenLast
<1>7. Rank(E, i) = Rank(E, j) + 1
  <2>0. \A k \in E : k \in Int
    BY <1>1
  <2> HIDE DEF E
  <2>1. {k \in E : k <= i} = {k \in E : k <= j} \cup {i}
    <3>1. \A k \in E : k <= i => k <= j \/ k = i
      BY <1>6, <2>0
    <3>2. \A k \in E : k <= j => k <= i
      BY <1>6, <2>0
    <3>3. i <= i /\ i \in E
      BY <2>0
    <3>4. QED
      BY <3>1, <3>2, <3>3
  <2>2. i \notin {k \in E : k <= j}
    BY <1>6, <2>0
  <2>3. IsFiniteSet({k \in E : k <= j})
    <3>1. {k \in E : k <= j} \in SUBSET E
      OBVIOUS
    <3>2. QED
      BY <1>3, <3>1, FS_Subset
  <2>4. QED
    BY <2>1, <2>2, <2>3, FS_AddElement DEF Rank
<1>8. Rank(E, j) \in 1 .. Cardinality(E) /\ t[Rank(E, j)].type = "down"
  BY <1>2, <1>3, <1>6
<1>9. QED
  <2> HIDE DEF E, t
  <2>1. Rank(E, j) \in Nat /\ Rank(E, j) >= 1 /\ Rank(E, j) = n - 1
    BY <1>3, <1>4, <1>7, <1>8
  <2>2. QED
    BY <1>8, <2>1

\* Such a list is returned as a whole.
LEMMA CleanKept ==
  ASSUME NEW events \in Seq(Events), Clean(events)
  PROVE  /\ Enabled(events, AllEnabled(events)) = 1 .. Len(events)
         /\ CountEnabledEvents(events, AllEnabled(events)) = Len(events)
         /\ Replay(events, AllEnabled(events)) = events
<1> DEFINE all == AllEnabled(events)
           n   == Len(events)
<1>1. n \in Nat /\ \A i \in 1 .. n : all[i]
  BY LenProperties, AllEnabledTyped DEF AllEnabled
<1>2. \A i \in 1 .. n : events[i].type = "up" => PenIsDown(events, all, i)
  <2> SUFFICES ASSUME NEW i \in 1 .. n, events[i].type = "up"
               PROVE  PenIsDown(events, all, i)
    OBVIOUS
  <2>1. i > 1 /\ events[i - 1].type = "down"
    BY DEF Clean
  <2>2. i - 1 \in 1 .. i - 1 /\ i - 1 \in 1 .. n /\ (i - 1) + 1 .. i - 1 = {}
    BY <1>1, <2>1
  <2>3. QED
    BY <1>1, <2>1, <2>2 DEF PenIsDown
<1>3. Enabled(events, all) = 1 .. n
  BY <1>1, <1>2 DEF Enabled, Returned
<1>4. CountEnabledEvents(events, all) = n
  <2>1. Cardinality(1 .. n) = n
    <3> HIDE DEF n
    <3>1. 1 \in Int /\ n \in Int /\ (IF 1 > n THEN 0 ELSE n - 1 + 1) = n
      BY <1>1
    <3>2. QED
      BY <3>1, FS_Interval
  <2>2. QED
    BY <1>3, <2>1 DEF CountEnabledEvents
<1>5. \A i \in 1 .. n : Rank(1 .. n, i) = i
  <2> SUFFICES ASSUME NEW i \in 1 .. n PROVE Rank(1 .. n, i) = i
    OBVIOUS
  <2>1. {j \in 1 .. n : j <= i} = 1 .. i
    BY <1>1
  <2>2. i \in Int /\ 1 \in Int /\ ~(1 > i)
    BY <1>1
  <2>3. Cardinality(1 .. i) = i - 1 + 1
    BY <2>2, FS_Interval
  <2>4. i - 1 + 1 = i
    BY <2>2
  <2>5. QED
    BY <2>1, <2>3, <2>4 DEF Rank
<1>6. Replay(events, all) = events
  <2>1. /\ Replay(events, all) \in Seq(Events) /\ Len(Replay(events, all)) = n
        /\ \A i \in 1 .. n : Replay(events, all)[i] = events[i]
    <3>1. Lists(Replay(events, all), events, 1 .. n)
      BY <1>3, ReplayLists
    <3>2. Len(Replay(events, all)) = n
      BY <1>4, ReplayTyped
    <3>3. QED
      BY <1>5, <3>1, <3>2 DEF Lists
  <2>2. QED
    BY <2>1, SeqEqual
<1>7. QED
  BY <1>3, <1>4, <1>6

-----------------------------------------------------------------------------
(* What a device without quirks was given. *)

\* The device was given the events that are returned, up to the iterator.
Shown ==
  /\ fIndex <= Len(fgEvents)
  /\ Lists(played, fgEvents, UpTo(Enabled(fgEvents, fgMask), fIndex))

Running == call = "device" /\ fgIsOn

\* Between the reload of the session and the answer of the device, the iterator and the
\* pen say what the device was given; when an error is reported, it is because of that.
Playing ==
  /\ Running /\ fMinimizeLoadState => fIndex = 0 /\ ~fPenIsDown
  /\ Running /\ ~fMinimizeLoadState =>
       Shown /\ fPenIsDown = PenIsDown(fgEvents, fgMask, fIndex + 1)
  /\ fDeferredErrs > 0 =>
       call = "device" /\ ~fMinimizeLoadState /\ fDeferredErrs = 1 /\ played \in fatal
  /\ call = "ErrorOccurred" => Shown /\ played \in fatal

\* Before the first event nothing was given, and the pen is up.
LEMMA ShownNothing ==
  ASSUME fgEvents \in Seq(Events)
  PROVE  /\ Lists(<<>>, fgEvents, UpTo(Enabled(fgEvents, fgMask), 0))
         /\ PenIsDown(fgEvents, fgMask, 0 + 1) = FALSE
         /\ 0 <= Len(fgEvents)
<1>1. Len(fgEvents) \in Nat
  BY LenProperties
<1>2. UpTo(Enabled(fgEvents, fgMask), 0) = {}
  BY <1>1 DEF Enabled, UpTo
<1>3. Cardinality({}) = 0 /\ <<>> \in Seq(Events) /\ Len(<<>>) = 0
  BY FS_EmptySet, EmptySeq
<1>4. PenIsDown(fgEvents, fgMask, 0 + 1) = FALSE
  <2>1. ~PenIsDown(fgEvents, fgMask, 0 + 1)
    BY DEF PenIsDown
  <2>2. PenIsDown(fgEvents, fgMask, 0 + 1) \in BOOLEAN
    BY DEF PenIsDown
  <2>3. QED
    BY <2>1, <2>2
<1>5. Lists(<<>>, fgEvents, {})
  BY <1>3 DEF Lists
<1>6. Lists(<<>>, fgEvents, UpTo(Enabled(fgEvents, fgMask), 0))
  BY <1>2, <1>5
<1>7. 0 <= Len(fgEvents)
  BY <1>1
<1>8. QED
  BY <1>4, <1>6, <1>7, Zenon

\* What ReplayGetEvent gives to the device, one event after the other, is what
\* CullEvents would keep.
LEMMA ShownNext ==
  ASSUME fgEvents \in Seq(Events), fIndex \in Nat, Shown,
         fPenIsDown = PenIsDown(fgEvents, fgMask, fIndex + 1), NextReplayEvent # 0
  PROVE  /\ NextReplayEvent <= Len(fgEvents)
         /\ Lists(Append(played, fgEvents[NextReplayEvent]), fgEvents,
                  UpTo(Enabled(fgEvents, fgMask), NextReplayEvent))
         /\ PenIsDown(fgEvents, fgMask, NextReplayEvent + 1)
              = (fgEvents[NextReplayEvent].type = "down")
<1> DEFINE E    == Enabled(fgEvents, fgMask)
           next == NextReplayEvent
<1>0. Len(fgEvents) \in Nat /\ E \in SUBSET (1 .. Len(fgEvents)) /\ fIndex \in 0 .. Len(fgEvents)
  BY LenProperties DEF Enabled, Shown
<1>1. next \in E /\ next > fIndex /\ \A k \in E : k <= fIndex \/ k >= next
  BY <1>0, NextIsEnabled
<1>2. PenIsDown(fgEvents, fgMask, next + 1) = (fgEvents[next].type = "down")
  BY <1>1, PenAfter
<1> HIDE DEF E, next
<1>3. next \in 1 .. Len(fgEvents) /\ \A k \in E : k \in Int
  BY <1>0, <1>1
<1>4. UpTo(E, next) = UpTo(E, fIndex) \cup {next}
  <2>1. \A k \in E : k <= next <=> k <= fIndex \/ k = next
    BY <1>0, <1>1, <1>3
  <2>2. QED
    BY <1>1, <2>1 DEF UpTo
<1>5. UpTo(E, fIndex) \in SUBSET (1 .. next - 1)
  <2>1. \A k \in E : k <= fIndex => k \in 1 .. next - 1
    BY <1>0, <1>1, <1>3
  <2>2. QED
    BY <2>1 DEF UpTo
<1>6. Lists(played, fgEvents, UpTo(E, fIndex))
  BY DEF Shown, E
<1>7. Lists(Append(played, fgEvents[next]), fgEvents, UpTo(E, next))
  BY <1>3, <1>4, <1>5, <1>6, ListsGrow
<1>8. next <= Len(fgEvents)
  BY <1>0, <1>3
<1>9. QED
  BY <1>2, <1>7, <1>8 DEF E, next

\* No step changes the quirks of the device.
LEMMA QuirksStay == [Next]_vars => UNCHANGED quirks
BY DEF Next, Minimization, Device, Start, Stop, Reset, InitialLevel, SplitCurrentLevel,
       CannotSplit, DisableAndStartAgain, StartAgain, NextSubRange,
       MinimizationPassComplete, MinimizationComplete, NoErrorOccurred, ErrorOccurred,
       RealLoadInitialState, DeviceFails, ReportError, ReplayGetEvent, ReplayGetPen,
       Sleeps, Wakes, vars, device

\* Each step keeps the account of what the device was given.
LEMMA PlayingKept ==
  ASSUME TypeOK, Stack, quirks = {}, Playing, [Next]_vars
  PROVE  Playing'
<1>0. TypedEvents /\ Scalars
  BY TypeParts
<1>1. /\ Remembers /\ ~TracksPen /\ ~Asleep /\ "resets" \notin quirks /\ "burst" \notin quirks
      /\ "sleeps" \notin quirks
  BY DEF Remembers, TracksPen, Asleep
<1>2. fDeferredErrs \in Nat /\ fIndex \in Nat
  BY <1>0 DEF Scalars
<1>3. ASSUME call # "device", call' \notin {"device", "ErrorOccurred"}, UNCHANGED fDeferredErrs
      PROVE  Playing'
  BY <1>2, <1>3 DEF Playing, Running
<1>4. ASSUME UNCHANGED <<fgEvents, fgMask, fIndex, played>>
      PROVE  /\ Shown' = Shown
             /\ PenIsDown(fgEvents', fgMask', fIndex' + 1) = PenIsDown(fgEvents, fgMask, fIndex + 1)
  BY <1>4 DEF Shown
<1>5. CASE Start
  <2>1. CASE call' = "device"
    BY <1>2, <1>5, <2>1 DEF Start, Stack, Playing, Running, minimize, session
  <2>2. CASE call' # "device"
    <3>1. call = "idle" /\ call' = "InitialLevel" /\ UNCHANGED fDeferredErrs
      BY <1>5, <2>2 DEF Start, session
    <3>2. QED
      BY <1>3, <3>1
  <2>3. QED
    BY <2>1, <2>2
<1>6. CASE InitialLevel \/ SplitCurrentLevel \/ CannotSplit \/ NextSubRange
           \/ MinimizationPassComplete \/ NoErrorOccurred \/ ErrorOccurred
  <2>1. call # "device" /\ call' \notin {"device", "ErrorOccurred"} /\ UNCHANGED fDeferredErrs
    BY <1>6 DEF InitialLevel, SplitCurrentLevel, CannotSplit, NextSubRange,
         MinimizationPassComplete, NoErrorOccurred, ErrorOccurred, session
  <2>2. QED
    BY <1>3, <2>1
<1>7. CASE DisableAndStartAgain
  <2>1. call # "device" /\ call' \notin {"device", "ErrorOccurred"} /\ UNCHANGED fDeferredErrs
    BY <1>7 DEF DisableAndStartAgain, session
  <2>2. QED
    BY <1>3, <2>1
<1>8. CASE StartAgain
  BY <1>2, <1>8 DEF StartAgain, ReplayEventsOn, ResetPlayback, Playing, Running
<1>9. CASE MinimizationComplete
  BY <1>2, <1>9 DEF MinimizationComplete, Playing, Running
<1>10. CASE Stop
  <2>1. /\ UNCHANGED <<fgEvents, fgMask, fIndex, played, call, fMinimizeLoadState,
                      fDeferredErrs, fatal>>
        /\ fgIsOn' = FALSE
    BY <1>10 DEF Stop, ReplayEventsOff, session, device
  <2>2. QED
    BY <1>4, <2>1 DEF Playing, Running
<1>11. CASE Reset
  BY <1>1, <1>11 DEF Reset
<1>12. CASE RealLoadInitialState
  <2>1. /\ call = "device" /\ fDeferredErrs = 0 /\ fMinimizeLoadState /\ ~fMinimizeLoadState'
        /\ played' = <<>>
        /\ UNCHANGED <<fgEvents, fgMask, fIndex, fPenIsDown, call, fgIsOn, fDeferredErrs>>
    BY <1>12 DEF RealLoadInitialState, playback, minimize
  <2>2. Running' => fIndex = 0 /\ fPenIsDown = FALSE
    <3>1. Running' => fIndex = 0 /\ ~fPenIsDown
      BY <2>1 DEF Playing, Running
    <3>2. fPenIsDown \in BOOLEAN
      BY <1>0 DEF Scalars
    <3>3. QED
      BY <3>1, <3>2
  <2>3. Running' => Shown' /\ fPenIsDown' = PenIsDown(fgEvents', fgMask', fIndex' + 1)
    BY <1>0, <2>1, <2>2, ShownNothing DEF Shown, TypedEvents
  <2>4. QED
    BY <2>1, <2>3 DEF Playing, Running
<1>13. CASE DeviceFails
  <2>1. /\ Runs /\ fatal' = fatal \union {played} /\ fDeferredErrs' = 1
        /\ UNCHANGED <<fgEvents, fgMask, fIndex, fPenIsDown, played, call, fgIsOn,
                       fMinimizeLoadState>>
    BY <1>1, <1>13 DEF DeviceFails, playback, minimize
  <2>2. call = "device" /\ ~fMinimizeLoadState
    BY <2>1 DEF Runs, Free
  <2>3. QED
    BY <1>4, <2>1, <2>2 DEF Playing, Running
<1>14. CASE ReportError
  <2>1. /\ call = "device" /\ fDeferredErrs > 0 /\ fDeferredErrs' = fDeferredErrs - 1
        /\ call' = IF fgIsOn THEN "ErrorOccurred" ELSE "device"
        /\ UNCHANGED <<fgEvents, fgMask, fIndex, fPenIsDown, played, fatal, fgIsOn,
                       fMinimizeLoadState>>
    BY <1>14 DEF ReportError, playback, minimize, device
  <2>2. fDeferredErrs' = 0 /\ ~fMinimizeLoadState /\ played \in fatal
    BY <1>2, <2>1 DEF Playing
  <2>3. QED
    BY <1>4, <2>1, <2>2 DEF Playing, Running
<1>15. CASE ReplayGetEvent
  <2>1. /\ call = "device" /\ fDeferredErrs = 0 /\ ~fMinimizeLoadState
        /\ UNCHANGED <<fgEvents, fgMask, fgIsOn, fMinimizeLoadState, fDeferredErrs, fatal>>
    BY <1>15 DEF ReplayGetEvent, Asks, Runs, Free, minimize, session
  <2>2. CASE NextReplayEvent = 0
    <3>1. call' = IF fgIsOn THEN "NoErrorOccurred" ELSE "device"
      BY <1>15, <2>2 DEF ReplayGetEvent
    <3>2. QED
      BY <2>1, <3>1 DEF Playing, Running
  <2>3. CASE NextReplayEvent # 0
    <3>1. /\ fIndex' = NextReplayEvent /\ fPenIsDown' = (fgEvents[NextReplayEvent].type = "down")
          /\ played' = Append(played, fgEvents[NextReplayEvent]) /\ UNCHANGED call
      BY <1>1, <1>15, <2>3 DEF ReplayGetEvent, Plays
    <3>2. Running => Shown' /\ fPenIsDown' = PenIsDown(fgEvents', fgMask', fIndex' + 1)
      <4>1. Running => Shown /\ fPenIsDown = PenIsDown(fgEvents, fgMask, fIndex + 1)
        BY <2>1 DEF Playing
      <4>2. fgEvents \in Seq(Events) /\ fIndex \in Nat
        BY <1>0, <1>2 DEF TypedEvents
      <4>3. QED
        BY <2>1, <2>3, <3>1, <4>1, <4>2, ShownNext DEF Shown
    <3>3. QED
      BY <2>1, <3>1, <3>2 DEF Playing, Running
  <2>4. QED
    BY <2>2, <2>3
<1>16. CASE ReplayGetPen
  BY <1>1, <1>16 DEF ReplayGetPen
<1>17. CASE Sleeps
  BY <1>1, <1>17 DEF Sleeps
<1>18. CASE Wakes
  <2>1. /\ call # "device" /\ call' = "device" /\ fIndex' = 0 /\ fPenIsDown' = FALSE
        /\ played' = <<>> /\ UNCHANGED <<fgEvents, fgMask, fDeferredErrs>>
    BY <1>18 DEF Wakes, ReplayEventsOn, ResetPlayback, session
  <2>2. Shown' /\ fPenIsDown' = PenIsDown(fgEvents', fgMask', fIndex' + 1)
    BY <1>0, <2>1, ShownNothing DEF Shown, TypedEvents
  <2>3. QED
    BY <1>2, <2>1, <2>2 DEF Playing, Running
<1>19. CASE UNCHANGED vars
  <2>1. UNCHANGED <<fgEvents, fgMask, fIndex, fPenIsDown, played, call, fgIsOn,
                    fMinimizeLoadState, fDeferredErrs, fatal>>
    BY <1>19 DEF vars, playback, minimize, session, device
  <2>2. QED
    BY <1>4, <2>1 DEF Playing, Running
<1>20. QED
  BY <1>5, <1>6, <1>7, <1>8, <1>9, <1>10, <1>11, <1>12, <1>13, <1>14, <1>15, <1>16, <1>17,
     <1>18, <1>19 DEF Next, Minimization, Device

-----------------------------------------------------------------------------
(* What the device is known to fail on. *)

\* The device is known to fail while it is given this list.
FailsOn(list) == \E n \in 0 .. Len(list) : SubSeq(list, 1, n) \in fatal

\* Before Start, what the device failed on is the recording up to its error.  At the top
\* of the stack a range may be taken out, after ErrorOccurred, because the rest fails too.
Failing ==
  /\ call = "idle" => fatal = {Recorded(fgEvents)} /\ fgMask = AllEnabled(fgEvents)
  /\ call # "idle" => FailsOn(Replay(fgEvents, Kept))
  /\ call = "NextSubRange" => FailsOn(Replay(fgEvents, fgMask))

\* The beginning of a beginning.
LEMMA Shorter ==
  ASSUME NEW t \in Seq(Events), NEW m \in 0 .. Len(t), NEW n \in 0 .. m
  PROVE  SubSeq(SubSeq(t, 1, m), 1, n) = SubSeq(t, 1, n)
<1>0. Len(t) \in Nat /\ m \in Int /\ n \in Int /\ 1 \in Int
  BY LenProperties
<1>1. CASE n = 0
  BY <1>0, <1>1, SubSeqEmpty
<1>2. CASE n # 0
  <2> DEFINE s == SubSeq(t, 1, m)
  <2>1. \A i \in 1 .. m : t[i] \in Events
    BY <1>0, ElementOfSeq
  <2>2. s \in Seq(Events) /\ \A i \in 1 .. m - 1 + 1 : s[i] = t[1 + i - 1]
    BY <1>0, <2>1, SubSeqProperties
  <2>3. \A i \in 1 .. m : s[i] = t[i]
    BY <1>0, <2>2
  <2> HIDE DEF s
  <2>4. \A i \in 1 .. n : s[i] \in Events /\ t[i] \in Events /\ s[i] = t[i]
    BY <1>0, <2>1, <2>3
  <2>5. /\ SubSeq(s, 1, n) \in Seq(Events) /\ Len(SubSeq(s, 1, n)) = IF 1 <= n THEN n - 1 + 1 ELSE 0
        /\ \A i \in 1 .. n - 1 + 1 : SubSeq(s, 1, n)[i] = s[1 + i - 1]
    BY <1>0, <2>4, SubSeqProperties
  <2>6. /\ SubSeq(t, 1, n) \in Seq(Events) /\ Len(SubSeq(t, 1, n)) = IF 1 <= n THEN n - 1 + 1 ELSE 0
        /\ \A i \in 1 .. n - 1 + 1 : SubSeq(t, 1, n)[i] = t[1 + i - 1]
    BY <1>0, <2>4, SubSeqProperties
  <2>7. \A i \in 1 .. n : 1 + i - 1 = i /\ i \in 1 .. n - 1 + 1
    BY <1>0
  <2>8. \A i \in 1 .. Len(SubSeq(s, 1, n)) : SubSeq(s, 1, n)[i] = SubSeq(t, 1, n)[i]
    <3>1. Len(SubSeq(s, 1, n)) = n
      BY <1>0, <1>2, <2>5
    <3>2. QED
      BY <2>4, <2>5, <2>6, <2>7, <3>1
  <2>9. SubSeq(s, 1, n) = SubSeq(t, 1, n)
    BY <2>5, <2>6, <2>8, SeqEqual
  <2>10. QED
    BY <2>9 DEF s
<1>3. QED
  BY <1>1, <1>2

\* A list that begins with one that the device fails on.
LEMMA FailsEarlier ==
  ASSUME NEW s, NEW t \in Seq(Events), Len(s) \in 0 .. Len(t), SubSeq(t, 1, Len(s)) = s,
         FailsOn(s)
  PROVE  FailsOn(t)
<1>1. PICK n \in 0 .. Len(s) : SubSeq(s, 1, n) \in fatal
  BY DEF FailsOn
<1>2. SubSeq(t, 1, n) \in fatal
  BY <1>1, Shorter
<1>3. n \in 0 .. Len(t)
  <2>1. Len(t) \in Nat
    BY LenProperties
  <2>2. QED
    BY <1>1, <2>1
<1>4. QED
  BY <1>2, <1>3 DEF FailsOn

\* What the device failed on when it was given that much, it fails on when it is given
\* more.
LEMMA FailsOnMore ==
  ASSUME NEW s, NEW t \in Seq(Events), Len(s) \in 0 .. Len(t), SubSeq(t, 1, Len(s)) = s,
         s \in fatal
  PROVE  FailsOn(t)
BY DEF FailsOn

\* The events that are not masked out, or only as long as they are tested.
KeptAt(i) == fgMask[i] \/ (Testing /\ CurrentRange.fBegin < i /\ i <= CurrentRange.fEnd)

LEMMA KeptIs ==
  TypedEvents /\ fLevels \in Seq(Levels) =>
    /\ Kept \in Seq(BOOLEAN) /\ Len(Kept) = Len(fgEvents)
    /\ \A i \in 1 .. Len(fgEvents) : Kept[i] = KeptAt(i)
<1> SUFFICES ASSUME TypedEvents, fLevels \in Seq(Levels)
             PROVE  /\ Kept \in Seq(BOOLEAN) /\ Len(Kept) = Len(fgEvents)
                    /\ \A i \in 1 .. Len(fgEvents) : Kept[i] = KeptAt(i)
  OBVIOUS
<1>1. CurrentRange.fBegin \in Nat /\ CurrentRange.fEnd \in Nat
  BY CurrentRangeTyped DEF Levels
<1>2. Len(fgMask) \in Nat /\ \A i \in 1 .. Len(fgMask) : fgMask[i] \in BOOLEAN
  BY LenProperties, ElementOfSeq DEF TypedEvents
<1>3. CASE Testing
  <2> DEFINE kept == SetEvents(fgMask, CurrentRange.fBegin, CurrentRange.fEnd, TRUE)
  <2>1. /\ kept \in Seq(BOOLEAN) /\ Len(kept) = Len(fgMask)
        /\ \A i \in 1 .. Len(fgMask) :
             kept[i] = IF CurrentRange.fBegin < i /\ i <= CurrentRange.fEnd THEN TRUE ELSE fgMask[i]
    BY <1>1, SetEventsTyped DEF TypedEvents
  <2>2. Kept = kept
    BY <1>3 DEF Kept
  <2> HIDE DEF kept
  <2>3. QED
    BY <1>2, <1>3, <2>1, <2>2 DEF KeptAt, TypedEvents
<1>4. CASE ~Testing
  <2>1. Kept = fgMask
    BY <1>4 DEF Kept
  <2>2. QED
    BY <1>2, <1>4, <2>1 DEF KeptAt, TypedEvents
<1>5. QED
  BY <1>3, <1>4

\* As long as the same events are kept, the device still fails.
LEMMA StillKept ==
  ASSUME TypedEvents, TypedEvents', fLevels \in Seq(Levels), fLevels' \in Seq(Levels),
         fgEvents' = fgEvents, \A x \in fatal : x \in fatal',
         FailsOn(Replay(fgEvents, Kept)),
         \A i \in 1 .. Len(fgEvents) : KeptAt(i)' = KeptAt(i)
  PROVE  FailsOn(Replay(fgEvents, Kept))'
<1>1. \A i \in 1 .. Len(fgEvents) : Kept'[i] = Kept[i]
  <2>1. \A i \in 1 .. Len(fgEvents) : Kept[i] = KeptAt(i)
    BY KeptIs
  <2>2. \A i \in 1 .. Len(fgEvents') : Kept'[i] = KeptAt(i)'
    <3>1. (TypedEvents /\ fLevels \in Seq(Levels) =>
             /\ Kept \in Seq(BOOLEAN) /\ Len(Kept) = Len(fgEvents)
             /\ \A i \in 1 .. Len(fgEvents) : Kept[i] = KeptAt(i))'
      BY KeptIs, PTL
    <3>2. QED
      BY <3>1
  <2>3. QED
    BY <2>1, <2>2
<1>2. Replay(fgEvents, Kept') = Replay(fgEvents, Kept)
  BY <1>1, SameReplay DEF TypedEvents
<1>3. Replay(fgEvents, Kept)' = Replay(fgEvents, Kept)
  BY <1>2
<1>4. QED
  BY <1>3 DEF FailsOn

\* While no range is tested, everything from the range on top on is kept anyway.
LEMMA KeptOnTop ==
  ASSUME TypedEvents, fLevels \in Seq(Levels), fLevels # <<>>, LevelsTile, ~Testing,
         NEW i \in 1 .. Len(fgEvents)
  PROVE  /\ KeptAt(i) = fgMask[i]
         /\ Top.fBegin < i => fgMask[i]
         /\ Top.fBegin < i /\ i <= Top.fEnd => fgMask[i]
<1>1. Top.fBegin \in Nat /\ Len(fgMask) = Len(fgEvents) /\ fgMask[i] \in BOOLEAN
  BY Popped, ElementOfSeq DEF Levels, TypedEvents
<1>2. KeptAt(i) = fgMask[i]
  BY <1>1 DEF KeptAt
<1>3. Top.fBegin < i => fgMask[i]
  BY <1>1 DEF LevelsTile
<1>4. QED
  BY <1>2, <1>3

\* What the search masks out, it keeps for the time being; what it has decided about, it
\* has seen the device fail without.
LEMMA KeptStays ==
  ASSUME TypeOK, TypeOK', Stack, LevelsTile,
         \/ InitialLevel \/ SplitCurrentLevel \/ CannotSplit \/ DisableAndStartAgain
         \/ NoErrorOccurred
  PROVE  \A i \in 1 .. Len(fgEvents) : KeptAt(i)' = KeptAt(i)
<1> SUFFICES ASSUME NEW i \in 1 .. Len(fgEvents) PROVE KeptAt(i)' = KeptAt(i)
  OBVIOUS
<1>0. /\ TypedEvents /\ fLevels \in Seq(Levels) /\ Len(fgMask) = Len(fgEvents)
      /\ fgMask[i] \in BOOLEAN /\ i \in 1 .. Len(fgMask)
  BY TypeParts, ElementOfSeq DEF TypedEvents, TypedLevels
<1>1. CASE InitialLevel
  <2>1. fgMask[i] /\ UNCHANGED fgMask
    BY <1>0, <1>1 DEF InitialLevel, Stack, playback
  <2>2. QED
    BY <1>0, <2>1 DEF KeptAt
<1>2. CASE SplitCurrentLevel
  <2>1. ~Testing /\ ~Testing' /\ UNCHANGED fgMask
    BY <1>2 DEF SplitCurrentLevel, Testing, playback
  <2>2. QED
    BY <1>0, <2>1 DEF KeptAt
<1>3. CASE CannotSplit
  <2>1. /\ fLevels # <<>> /\ ~Testing /\ Testing' /\ UNCHANGED fgMask
        /\ fLevels' = [n \in DOMAIN fLevels |-> [fLevels[n] EXCEPT !.fChecked = FALSE]]
    BY <1>3 DEF CannotSplit, Stack, Testing, playback
  <2>2. CurrentRange'.fBegin = Top.fBegin /\ CurrentRange'.fEnd = Top.fEnd
    <3>1. /\ Len(fLevels) \in Nat \ {0} /\ DOMAIN fLevels = 1 .. Len(fLevels)
          /\ Top \in Levels /\ Top = fLevels[Len(fLevels)]
      BY <1>0, <2>1, LenProperties, Popped DEF Top
    <3>2. Len(fLevels') = Len(fLevels) /\ fLevels' # <<>>
      BY <2>1, <3>1
    <3>3. fLevels'[Len(fLevels)] = [Top EXCEPT !.fChecked = FALSE]
      <4>1. Len(fLevels) \in DOMAIN fLevels
        BY <3>1
      <4>2. fLevels'[Len(fLevels)] = [fLevels[Len(fLevels)] EXCEPT !.fChecked = FALSE]
        BY <2>1, <4>1, Zenon
      <4>3. QED
        BY <3>1, <4>2
    <3>4. CurrentRange' = [Top EXCEPT !.fChecked = FALSE]
      BY <3>2, <3>3 DEF CurrentRange, Top
    <3>5. QED
      BY <3>1, <3>4 DEF Levels
  <2>3. Top.fBegin < i => fgMask[i]
    BY <1>0, <2>1, KeptOnTop
  <2>4. QED
    BY <1>0, <2>1, <2>2, <2>3 DEF KeptAt
<1>4. CASE DisableAndStartAgain
  <2>1. fLevels # <<>> /\ ~Testing /\ Testing' /\ UNCHANGED fLevels
    BY <1>4 DEF DisableAndStartAgain, Stack, Testing, minimize
  <2>2. /\ CurrentRange = Top /\ CurrentRange' = Top
        /\ Top.fBegin \in Nat /\ Top.fEnd \in Nat
    BY <1>0, <2>1, Popped DEF CurrentRange, Top, Levels
  <2>3. Top.fBegin < i => fgMask[i]
    BY <1>0, <2>1, KeptOnTop
  <2>4. CASE UNCHANGED fgMask
    BY <1>0, <2>1, <2>2, <2>3, <2>4 DEF KeptAt
  <2>5. CASE fgMask' = SetEvents(fgMask, Top.fBegin, Top.fEnd, FALSE)
    <3>1. fgMask'[i] = IF Top.fBegin < i /\ i <= Top.fEnd THEN FALSE ELSE fgMask[i]
      BY <1>0, <2>2, <2>5, SetEventsTyped DEF TypedEvents
    <3>2. QED
      BY <1>0, <2>1, <2>2, <2>3, <3>1 DEF KeptAt
  <2>6. QED
    BY <1>4, <2>4, <2>5 DEF DisableAndStartAgain
<1>5. CASE NoErrorOccurred
  <2>1. /\ Testing /\ ~Testing'
        /\ fgMask' = SetEvents(fgMask, CurrentRange.fBegin, CurrentRange.fEnd, TRUE)
    BY <1>5 DEF NoErrorOccurred, Testing
  <2>2. CurrentRange.fBegin \in Nat /\ CurrentRange.fEnd \in Nat
    BY <1>0, CurrentRangeTyped DEF Levels
  <2>3. fgMask'[i] = IF CurrentRange.fBegin < i /\ i <= CurrentRange.fEnd THEN TRUE ELSE fgMask[i]
    BY <1>0, <2>1, <2>2, SetEventsTyped DEF TypedEvents
  <2>4. QED
    BY <1>0, <2>1, <2>3 DEF KeptAt
<1>6. QED
  BY <1>1, <1>2, <1>3, <1>4, <1>5

\* What is played up to an error is the beginning of what is left when the rest is masked
\* out.
LEMMA ErrorTells ==
  ASSUME TypedEvents, fIndex \in Nat, Shown, played \in fatal,
         NEW mask, \A i \in 1 .. fIndex : mask[i] = fgMask[i]
  PROVE  FailsOn(Replay(fgEvents, mask))
<1>1. Agree(fgEvents, fgMask, fgEvents, mask, fIndex)
  BY DEF Agree, Shown
<1>2. /\ Len(played) \in 0 .. Len(Replay(fgEvents, mask))
      /\ SubSeq(Replay(fgEvents, mask), 1, Len(played)) = played
  BY <1>1, Beginning DEF Shown, TypedEvents
<1>3. Replay(fgEvents, mask) \in Seq(Events)
  BY ReplayTyped DEF TypedEvents
<1>4. QED
  BY <1>2, <1>3, FailsOnMore

\* CullEvents loses nothing more than the mask does.
LEMMA CulledKept ==
  ASSUME fgEvents \in Seq(Events), NEW mask, CullEvents(mask)
  PROVE  Replay(fgEvents', fgMask') = Replay(fgEvents, mask)
<1>1. Replay(fgEvents, mask) \in Seq(Events) /\ Clean(Replay(fgEvents, mask))
  BY ReplayTyped, ReplayClean
<1>2. fgEvents' = Replay(fgEvents, mask) /\ fgMask' = AllEnabled(Replay(fgEvents, mask))
  BY DEF CullEvents
<1>3. QED
  BY <1>1, <1>2, CleanKept

\* The events before those that Start takes away stay enabled.
LEMMA TailMasked ==
  ASSUME NEW events \in Seq(Events), NEW m, m \in Nat, m <= Len(events)
  PROVE  \A i \in 1 .. m :
           SetEvents(AllEnabled(events), m, Len(events), FALSE)[i] = AllEnabled(events)[i]
<1> DEFINE all  == AllEnabled(events)
           n    == Len(events)
           mask == SetEvents(all, m, n, FALSE)
<1>1. all \in Seq(BOOLEAN) /\ Len(all) = n /\ n \in Nat /\ FALSE \in BOOLEAN
  BY AllEnabledTyped, LenProperties
<1>2. \A i \in 1 .. Len(all) : mask[i] = IF m < i /\ i <= n THEN FALSE ELSE all[i]
  <2> HIDE DEF all, n
  <2>1. QED
    BY <1>1, SetEventsTyped
<1> HIDE DEF all, n, mask
<1>3. \A i \in 1 .. m : i \in 1 .. Len(all) /\ ~(m < i)
  <2>1. m <= n
    BY DEF n
  <2>2. QED
    BY <1>1, <2>1
<1>4. \A i \in 1 .. m : mask[i] = all[i]
  BY <1>2, <1>3
<1>5. QED
  BY <1>4 DEF all, n, mask

\* Start, of a recording with an error in it: the device failed on what is before.
LEMMA StartFails ==
  ASSUME TypedEvents, Start, fatal = {Recorded(fgEvents)}
  PROVE  FailsOn(Replay(fgEvents, Kept))'
<1> DEFINE errors == {i \in 1 .. Len(fgEvents) : fgEvents[i].type = "error"}
<1>0. fatal' = fatal /\ Len(fgEvents) \in Nat
  BY LenProperties DEF Start, device, TypedEvents
<1>1. CASE errors = {}
  <2>1. fatal' = {<<>>}
    BY <1>0, <1>1 DEF Recorded
  <2>2. \A list : SubSeq(list, 1, 0) = <<>>
    BY SubSeqEmpty
  <2>3. fgEvents' = fgEvents /\ call' = "device" /\ UNCHANGED <<fgMask, fLevels>>
    BY <1>1 DEF Start, playback, minimize
  <2>4. Len(Replay(fgEvents, Kept)') \in Nat
    <3>1. Replay(fgEvents, Kept') \in Seq(Events)
      BY ReplayTyped DEF TypedEvents
    <3>2. QED
      BY <2>3, <3>1, LenProperties
  <2>5. QED
    BY <2>1, <2>2, <2>4 DEF FailsOn
<1>2. CASE errors # {}
  <2> DEFINE first == CHOOSE i \in errors : \A j \in errors : i <= j
             mask  == SetEvents(AllEnabled(fgEvents), first - 1, Len(fgEvents), FALSE)
             head  == SubSeq(fgEvents, 1, first - 1)
  <2>1. first \in 1 .. Len(fgEvents)
    <3>1. errors \in SUBSET Nat /\ errors \in SUBSET (1 .. Len(fgEvents))
      BY <1>0
    <3> HIDE DEF errors
    <3>2. first \in errors
      BY <1>2, <3>1, Least
    <3>3. QED
      BY <3>1, <3>2
  <2>2. /\ CullEvents(mask) /\ call' = "InitialLevel"
        /\ fatal = {Replay(head, AllEnabled(fgEvents))}
    BY <1>2 DEF Start, Recorded
  <2> HIDE DEF first, errors
  <2>3. /\ head \in Seq(Events) /\ Len(head) = first - 1
        /\ \A i \in 1 .. first - 1 : head[i] = fgEvents[i]
    <3>1. first - 1 \in Int /\ \A i \in 1 .. first - 1 : fgEvents[i] \in Events /\ 1 + i - 1 = i
      BY <1>0, <2>1, ElementOfSeq DEF TypedEvents
    <3>2. /\ head \in Seq(Events)
          /\ Len(head) = IF 1 <= first - 1 THEN first - 1 - 1 + 1 ELSE 0
          /\ \A i \in 1 .. first - 1 - 1 + 1 : head[i] = fgEvents[1 + i - 1]
      BY <3>1, SubSeqProperties
    <3> HIDE DEF head
    <3>3. QED
      BY <1>0, <2>1, <3>1, <3>2
  <2>4. \A i \in 1 .. first - 1 : mask[i] = AllEnabled(fgEvents)[i]
    <3>1. fgEvents \in Seq(Events) /\ first - 1 \in Nat /\ first - 1 <= Len(fgEvents)
      BY <1>0, <2>1 DEF TypedEvents
    <3>2. QED
      BY <3>1, TailMasked
  <2> HIDE DEF mask, head
  <2>5. Agree(head, AllEnabled(fgEvents), fgEvents, mask, Len(head))
    BY <1>0, <2>1, <2>3, <2>4 DEF Agree
  <2> DEFINE s == Replay(head, AllEnabled(fgEvents))
             t == Replay(fgEvents, mask)
  <2>6. t \in Seq(Events) /\ Len(s) \in 0 .. Len(t) /\ SubSeq(t, 1, Len(s)) = s
    BY <2>3, <2>5, BeginsWith, ReplayTyped DEF TypedEvents
  <2>7. Replay(fgEvents, Kept)' = t
    <3>1. Kept' = fgMask'
      BY <2>2 DEF Kept, Testing
    <3>2. Replay(fgEvents', fgMask') = t
      BY <2>2, CulledKept DEF TypedEvents
    <3>3. QED
      BY <3>1, <3>2
  <2>8. s \in fatal
    BY <2>2
  <2> HIDE DEF s, t
  <2>9. FailsOn(t)
    BY <2>6, <2>8, FailsOnMore
  <2>10. QED
    BY <1>0, <2>7, <2>9 DEF FailsOn
<1>3. QED
  BY <1>1, <1>2

\* Each step keeps the device failing on what is kept.
LEMMA FailingKept ==
  ASSUME TypeOK, TypeOK', Stack, LevelsTile, quirks = {}, Playing, Failing, [Next]_vars
  PROVE  Failing'
<1>0. /\ TypedEvents /\ fLevels \in Seq(Levels) /\ fIndex \in Nat
      /\ TypedEvents' /\ fLevels' \in Seq(Levels)
  <2>1. TypedEvents /\ TypedLevels /\ Scalars
    BY TypeParts
  <2>2. (TypeOK <=> Scalars /\ TypedEvents /\ TypedLevels)'
    BY TypeParts, PTL
  <2>3. QED
    BY <2>1, <2>2 DEF TypedLevels, Scalars
<1>1. fgEvents \in Seq(Events) /\ fgMask \in Seq(BOOLEAN) /\ Len(fgMask) = Len(fgEvents)
  BY <1>0 DEF TypedEvents
<1>2. ASSUME call # "idle", call' # "idle", call' = "NextSubRange" => FailsOn(Replay(fgEvents, fgMask))',
             FailsOn(Replay(fgEvents, Kept))'
      PROVE  Failing'
  BY <1>2 DEF Failing
<1>3. ASSUME call # "idle", call' # "idle",
             UNCHANGED <<fgEvents, fatal>>, call' = "NextSubRange" => UNCHANGED fgMask /\ ~Testing,
             \A i \in 1 .. Len(fgEvents) : KeptAt(i)' = KeptAt(i)
      PROVE  Failing'
  <2>1. FailsOn(Replay(fgEvents, Kept))
    BY <1>3 DEF Failing
  <2>2. FailsOn(Replay(fgEvents, Kept))'
    BY <1>0, <1>3, <2>1, StillKept
  <2>3. call' = "NextSubRange" => FailsOn(Replay(fgEvents, fgMask))'
    BY <1>3, <2>1 DEF Kept, FailsOn
  <2>4. QED
    BY <1>2, <1>3, <2>2, <2>3
<1>4. ASSUME UNCHANGED <<fgEvents, fgMask, fLevels>>, Testing' <=> Testing,
             \A x \in fatal : x \in fatal', call # "idle", call' # "idle",
             call' = "NextSubRange" => call = "NextSubRange"
      PROVE  Failing'
  <2>1. FailsOn(Replay(fgEvents, Kept))
    BY <1>4 DEF Failing
  <2>2. \A i \in 1 .. Len(fgEvents) : KeptAt(i)' = KeptAt(i)
    <3>1. CurrentRange' = CurrentRange
      BY <1>4 DEF CurrentRange, Top
    <3>2. Testing \in BOOLEAN /\ Testing' \in BOOLEAN
      BY DEF Testing
    <3>3. Testing' = Testing
      BY <1>4, <3>2
    <3>4. QED
      BY <1>4, <3>1, <3>3 DEF KeptAt
  <2>3. FailsOn(Replay(fgEvents, Kept))'
    BY <1>0, <1>4, <2>1, <2>2, StillKept
  <2>4. call' = "NextSubRange" => FailsOn(Replay(fgEvents, fgMask))'
    BY <1>4 DEF Failing, FailsOn
  <2>5. QED
    BY <1>2, <1>4, <2>3, <2>4
<1>5. CASE Start
  <2>1. call = "idle" /\ call' \in {"device", "InitialLevel"} /\ fatal = {Recorded(fgEvents)}
    BY <1>5 DEF Start, Failing
  <2>2. FailsOn(Replay(fgEvents, Kept))'
    BY <1>0, <1>5, <2>1, StartFails
  <2>3. QED
    BY <2>1, <2>2 DEF Failing
<1>6. CASE InitialLevel \/ SplitCurrentLevel \/ CannotSplit \/ DisableAndStartAgain
           \/ NoErrorOccurred
  <2>1. \A i \in 1 .. Len(fgEvents) : KeptAt(i)' = KeptAt(i)
    BY <1>6, KeptStays
  <2>2. call # "idle" /\ call' # "idle" /\ UNCHANGED <<fgEvents, fatal>>
    BY <1>6 DEF InitialLevel, SplitCurrentLevel, CannotSplit, DisableAndStartAgain,
         NoErrorOccurred, playback, device
  <2>3. call' = "NextSubRange" => UNCHANGED fgMask /\ ~Testing
    BY <1>6 DEF InitialLevel, SplitCurrentLevel, CannotSplit, DisableAndStartAgain,
         NoErrorOccurred, playback, Testing
  <2>4. QED
    BY <1>3, <2>1, <2>2, <2>3
<1>7. CASE NextSubRange
  <2>1. /\ call = "NextSubRange" /\ ~Testing' /\ call' \notin {"idle", "NextSubRange"}
        /\ UNCHANGED <<fgEvents, fgMask, fatal>>
    BY <1>7 DEF NextSubRange, Testing, playback, device
  <2>2. FailsOn(Replay(fgEvents, fgMask))
    BY <2>1 DEF Failing
  <2>3. FailsOn(Replay(fgEvents, Kept))'
    BY <2>1, <2>2 DEF Kept, FailsOn
  <2>4. QED
    BY <1>2, <2>1, <2>3
<1>8. CASE ErrorOccurred
  <2>1. /\ call = "ErrorOccurred" /\ call' \notin {"idle", "ErrorOccurred"}
        /\ UNCHANGED <<fgEvents, fIndex, fatal>>
    BY <1>8 DEF ErrorOccurred, device
  <2>2. Shown /\ played \in fatal
    BY <2>1 DEF Playing
  <2>3. CASE fIndex < Len(fgMask)
    <3>1. /\ fgMask' = SetEvents(fgMask, fIndex, Len(fgMask), FALSE)
          /\ ~Testing' /\ call' # "NextSubRange"
      BY <1>8, <2>3 DEF ErrorOccurred, Testing
    <3>2. \A i \in 1 .. fIndex : fgMask'[i] = fgMask[i]
      <4>1. Len(fgMask) \in Nat /\ FALSE \in BOOLEAN
        BY <1>1, LenProperties
      <4>2. \A i \in 1 .. Len(fgMask) :
              fgMask'[i] = IF fIndex < i /\ i <= Len(fgMask) THEN FALSE ELSE fgMask[i]
        BY <1>0, <1>1, <3>1, <4>1, SetEventsTyped
      <4>3. \A i \in 1 .. fIndex : i \in 1 .. Len(fgMask) /\ ~(fIndex < i)
        BY <1>0, <2>3, <4>1
      <4>4. QED
        BY <4>2, <4>3
    <3>3. FailsOn(Replay(fgEvents, fgMask'))
      BY <1>0, <2>2, <3>2, ErrorTells
    <3>4. FailsOn(Replay(fgEvents, Kept))'
      BY <2>1, <3>1, <3>3 DEF Kept, FailsOn
    <3>5. QED
      BY <1>2, <2>1, <3>1, <3>4
  <2>4. CASE ~(fIndex < Len(fgMask))
    <3>1. UNCHANGED <<fgMask, fLevels>> /\ Testing /\ Testing'
      BY <1>8, <2>4 DEF ErrorOccurred, Testing
    <3>2. FailsOn(Replay(fgEvents, fgMask))
      BY <1>0, <2>2, ErrorTells
    <3>3. FailsOn(Replay(fgEvents, Kept)) /\ Kept' = Kept
      BY <2>1, <3>1 DEF Failing, Kept, CurrentRange, Top
    <3>4. QED
      BY <1>2, <2>1, <3>1, <3>2, <3>3 DEF FailsOn
  <2>5. QED
    BY <2>3, <2>4
<1>9. CASE MinimizationPassComplete
  <2>1. /\ call = "MinimizationPassComplete" /\ ~Testing /\ ~Testing' /\ CullEvents(fgMask)
        /\ call' \notin {"idle", "NextSubRange"} /\ fatal' = fatal
    BY <1>9 DEF MinimizationPassComplete, Testing, device
  <2>2. FailsOn(Replay(fgEvents, fgMask))
    BY <2>1 DEF Failing, Kept
  <2>3. Replay(fgEvents', fgMask') = Replay(fgEvents, fgMask)
    BY <1>1, <2>1, CulledKept
  <2>4. FailsOn(Replay(fgEvents, Kept))'
    BY <2>1, <2>2, <2>3 DEF Kept, FailsOn
  <2>5. QED
    BY <1>2, <2>1, <2>4
<1>10. CASE MinimizationComplete
  <2> DEFINE event == [number |-> 0, type |-> "error"]
             s     == Replay(fgEvents, fgMask)
             t     == Replay(fgEvents', fgMask')
  <2>1. /\ call = "MinimizationComplete" /\ ~Testing /\ call' = "device" /\ Testing'
        /\ fgEvents' = Append(fgEvents, event) /\ fgMask' = Append(fgMask, TRUE)
        /\ fLevels' = <<>> /\ fatal' = fatal
    BY <1>10 DEF MinimizationComplete, Stack, Testing, device
  <2>2. FailsOn(s)
    BY <2>1 DEF Failing, Kept
  <2>3. \A i \in 1 .. Len(fgEvents) : fgEvents[i] = fgEvents'[i] /\ fgMask[i] = fgMask'[i]
    <3>1. event \in Events /\ TRUE \in BOOLEAN
      BY DEF Events, Types
    <3> HIDE DEF event
    <3>2. \A i \in 1 .. Len(fgEvents) : fgEvents'[i] = fgEvents[i]
      BY <1>1, <2>1, <3>1, AppendProperties
    <3>3. \A i \in 1 .. Len(fgMask) : fgMask'[i] = fgMask[i]
      BY <1>1, <2>1, <3>1, AppendProperties
    <3>4. QED
      BY <1>1, <3>2, <3>3
  <2>4. Len(fgEvents) \in Nat /\ Len(fgEvents') = Len(fgEvents) + 1 /\ fgEvents' \in Seq(Events)
    BY <1>0, <1>1, <2>1, LenProperties DEF TypedEvents
  <2>5. Agree(fgEvents, fgMask, fgEvents', fgMask', Len(fgEvents))
    BY <2>3, <2>4 DEF Agree
  <2>6. t \in Seq(Events) /\ Len(s) \in 0 .. Len(t) /\ SubSeq(t, 1, Len(s)) = s
    BY <1>1, <2>4, <2>5, BeginsWith, ReplayTyped
  <2>7. FailsOn(t)
    <3> HIDE DEF s, t
    <3>1. QED
      BY <2>2, <2>6, FailsEarlier
  <2>8. Replay(fgEvents', Kept') = t
    <3>1. \A i \in 1 .. Len(fgEvents') : Kept'[i] = fgMask'[i]
      <4>1. (TypedEvents /\ fLevels \in Seq(Levels) =>
               /\ Kept \in Seq(BOOLEAN) /\ Len(Kept) = Len(fgEvents)
               /\ \A i \in 1 .. Len(fgEvents) : Kept[i] = KeptAt(i))'
        BY KeptIs, PTL
      <4>2. CurrentRange'.fBegin = 0 /\ CurrentRange'.fEnd = 0
        BY <2>1 DEF CurrentRange, Level
      <4>3. \A i \in 1 .. Len(fgEvents') : KeptAt(i)' = fgMask'[i]
        <5>1. \A i \in 1 .. Len(fgEvents') : fgMask'[i] \in BOOLEAN
          BY <1>0, ElementOfSeq DEF TypedEvents
        <5>2. \A i \in 1 .. Len(fgEvents') : ~(CurrentRange'.fBegin < i /\ i <= CurrentRange'.fEnd)
          BY <4>2
        <5>3. QED
          BY <5>1, <5>2 DEF KeptAt
      <4>4. QED
        BY <1>0, <4>1, <4>3
    <3>2. QED
      BY <2>4, <3>1, SameReplay
  <2>9. FailsOn(Replay(fgEvents, Kept))'
    <3>1. (Replay(fgEvents, Kept))' = t
      BY <2>8
    <3>2. QED
      BY <2>1, <2>7, <3>1 DEF FailsOn
  <2>10. QED
    BY <1>2, <2>1, <2>9
<1>11. CASE StartAgain \/ Stop \/ Device \/ UNCHANGED vars
  <2>1. UNCHANGED <<fgEvents, fgMask, fLevels>> /\ \A x \in fatal : x \in fatal'
    BY <1>11
       DEF StartAgain, Stop, Device, RealLoadInitialState, DeviceFails, ReportError,
           ReplayGetEvent, ReplayGetPen, Sleeps, Wakes, vars, minimize, playback, device
  <2>2. CASE Stop \/ UNCHANGED vars
    <3>1. UNCHANGED <<call, fatal>>
      BY <2>2 DEF Stop, vars, device
    <3>2. Testing' <=> Testing
      BY <3>1 DEF Testing
    <3>3. CASE call = "idle"
      BY <2>1, <3>1, <3>3 DEF Failing
    <3>4. CASE call # "idle"
      BY <1>4, <2>1, <3>1, <3>2, <3>4
    <3>5. QED
      BY <3>3, <3>4
  <2>3. CASE StartAgain \/ Device
    <3>1. call # "idle" /\ call' \notin {"idle", "NextSubRange"} /\ Testing /\ Testing'
      BY <2>3
         DEF StartAgain, Device, RealLoadInitialState, DeviceFails, ReportError,
             ReplayGetEvent, ReplayGetPen, Sleeps, Wakes, Asks, Runs, Free, Testing
    <3>2. QED
      BY <1>4, <2>1, <3>1
  <2>4. QED
    BY <1>11, <2>2, <2>3
<1>12. CASE Reset
  BY <1>12 DEF Reset
<1>13. QED
  BY <1>5, <1>6, <1>7, <1>8, <1>9, <1>10, <1>11, <1>12 DEF Next, Minimization

\* To a device without quirks, ErrorOccurred discards only what the device was seen to
\* fail without: from the first test to the list that is saved, on the beginning of what
\* is not discarded, culled or not, the device failed before.
THEOREM Failed == Spec => []StillFails
<1> DEFINE Account == quirks = {} => Playing /\ Failing
           IInv    == TypeOK /\ Stack /\ LevelsTile /\ Account
<1>1. Init => IInv
  <2> SUFFICES ASSUME Init PROVE Account
    BY Started DEF Init, LevelsTile
  <2>1. /\ call = "idle" /\ fDeferredErrs = 0 /\ fgMask = AllEnabled(fgEvents)
        /\ quirks = {} => fatal = {Recorded(fgEvents)}
    BY DEF Init
  <2>2. QED
    BY <2>1 DEF Playing, Failing, Running
<1>2. IInv /\ [Next]_vars => IInv'
  <2> SUFFICES ASSUME IInv, [Next]_vars PROVE IInv'
    OBVIOUS
  <2>1. TypeOK' /\ Stack' /\ LevelsTile'
    BY TypesKept, StackKept, TilesKept
  <2>2. ASSUME quirks' = {} PROVE Playing' /\ Failing'
    <3>1. quirks = {} /\ Playing /\ Failing
      BY <2>2, QuirksStay
    <3>2. QED
      BY <2>1, <3>1, PlayingKept, FailingKept
  <2>3. QED
    BY <2>1, <2>2
<1>3. IInv => StillFails
  BY DEF Failing, FailsOn, StillFails
<1>4. QED
  BY <1>1, <1>2, <1>3, PTL DEF Spec

-----------------------------------------------------------------------------
(* What the device is known not to fail on. *)

\* What the device was seen to fail on it was never seen to survive; and in a replay that is
\* under way it has survived everything but the last event, at the end of it that one too.
Survived ==
  /\ fatal \intersect fine = {}
  /\ Running /\ ~fMinimizeLoadState =>
       \A n \in 0 .. Len(played) - 1 : SubSeq(played, 1, n) \in fine
  /\ call = "NoErrorOccurred" =>
       /\ played = Replay(fgEvents, fgMask)
       /\ \A n \in 0 .. Len(played) : SubSeq(played, 1, n) \in fine

\* The beginnings of a list are those of the list with one event more, but for the longest.
LEMMA Beginnings ==
  ASSUME NEW s \in Seq(Events), NEW event \in Events
  PROVE  /\ Len(Append(s, event)) - 1 = Len(s) /\ Len(s) \in Nat
         /\ \A n \in 0 .. Len(s) : SubSeq(Append(s, event), 1, n) = SubSeq(s, 1, n)
         /\ SubSeq(s, 1, Len(s)) = s
<1> DEFINE t == Append(s, event)
<1>1. /\ Len(s) \in Nat /\ t \in Seq(Events) /\ Len(t) = Len(s) + 1
      /\ \A i \in 1 .. Len(s) : t[i] = s[i]
  BY LenProperties, AppendProperties
<1> HIDE DEF t
<1>2. \A i \in 1 .. Len(s) : s[i] \in Events /\ t[i] \in Events
  BY <1>1, ElementOfSeq
<1>3. ASSUME NEW n \in 0 .. Len(s)
      PROVE  SubSeq(t, 1, n) = SubSeq(s, 1, n) /\ (n = Len(s) => SubSeq(s, 1, n) = s)
  <2>0. n \in Int /\ 1 \in Int /\ \A i \in 1 .. n : i \in 1 .. Len(s)
    BY <1>1
  <2>1. CASE n = 0
    BY <1>1, <2>0, <2>1, SubSeqEmpty, EmptySeq
  <2>2. CASE n # 0
    <3>1. \A i \in 1 .. n : s[i] \in Events /\ t[i] \in Events
      BY <1>2, <2>0
    <3>2. /\ SubSeq(s, 1, n) \in Seq(Events) /\ Len(SubSeq(s, 1, n)) = IF 1 <= n THEN n - 1 + 1 ELSE 0
          /\ \A i \in 1 .. n - 1 + 1 : SubSeq(s, 1, n)[i] = s[1 + i - 1]
      BY <2>0, <3>1, SubSeqProperties
    <3>3. /\ SubSeq(t, 1, n) \in Seq(Events) /\ Len(SubSeq(t, 1, n)) = IF 1 <= n THEN n - 1 + 1 ELSE 0
          /\ \A i \in 1 .. n - 1 + 1 : SubSeq(t, 1, n)[i] = t[1 + i - 1]
      BY <2>0, <3>1, SubSeqProperties
    <3>4. n - 1 + 1 = n /\ 1 <= n /\ \A i \in 1 .. n : 1 + i - 1 = i
      BY <2>0, <2>2
    <3>5. /\ Len(SubSeq(s, 1, n)) = n /\ Len(SubSeq(t, 1, n)) = n
          /\ \A i \in 1 .. n : SubSeq(s, 1, n)[i] = s[i] /\ SubSeq(t, 1, n)[i] = s[i]
      BY <1>1, <2>0, <3>2, <3>3, <3>4
    <3>6. SubSeq(t, 1, n) = SubSeq(s, 1, n)
      BY <3>2, <3>3, <3>5, SeqEqual
    <3>7. n = Len(s) => SubSeq(s, 1, n) = s
      BY <3>2, <3>5, SeqEqual
    <3>8. QED
      BY <3>6, <3>7
  <2>3. QED
    BY <2>1, <2>2
<1>4. QED
  BY <1>1, <1>3 DEF t

\* The events of a list are what it says they are.
LEMMA WholeReplay ==
  ASSUME fgEvents \in Seq(Events), fIndex \in Nat, Shown,
         fPenIsDown = PenIsDown(fgEvents, fgMask, fIndex + 1), NextReplayEvent = 0
  PROVE  played = Replay(fgEvents, fgMask)
<1> DEFINE E == Enabled(fgEvents, fgMask)
           t == Replay(fgEvents, fgMask)
<1>0. Len(fgEvents) \in Nat /\ fIndex \in 0 .. Len(fgEvents)
  BY LenProperties DEF Shown
<1>1. \A k \in E : k <= fIndex
  BY <1>0, NextIsEnabled
<1>2. UpTo(E, fIndex) = E
  <2> HIDE DEF E
  <2>1. QED
    BY <1>1 DEF UpTo
<1>3. Lists(played, fgEvents, E) /\ Lists(t, fgEvents, E)
  BY <1>2, ReplayLists DEF Shown
<1>4. Len(played) = Len(t) /\ played \in Seq(Events) /\ t \in Seq(Events)
  BY <1>3 DEF Lists
<1>5. Agree(fgEvents, fgMask, fgEvents, fgMask, fIndex)
  BY <1>0 DEF Agree
<1>6. Lists(played, fgEvents, UpTo(Enabled(fgEvents, fgMask), fIndex))
  BY DEF Shown
<1>7. SubSeq(t, 1, Len(played)) = played
  BY <1>5, <1>6, Beginning
<1>8. SubSeq(t, 1, Len(t)) = t
  <2> HIDE DEF t
  <2>1. [number |-> 0, type |-> "key"] \in Events
    BY DEF Events, Types
  <2>2. QED
    BY <1>4, <2>1, Beginnings
<1>9. QED
  BY <1>4, <1>7, <1>8

\* Each step keeps the account of what the device survived.
LEMMA SurvivedKept ==
  ASSUME TypeOK, Stack, quirks = {}, Playing, Survived, [Next]_vars
  PROVE  Survived'
<1>0. /\ fgEvents \in Seq(Events) /\ fIndex \in Nat /\ fDeferredErrs \in Nat
      /\ played \in Seq(Events) /\ Len(played) \in Nat
  BY TypeParts, LenProperties DEF Scalars, TypedEvents
<1>1. /\ Remembers /\ ~TracksPen /\ ~Asleep /\ "resets" \notin quirks /\ "sleeps" \notin quirks
  BY DEF Remembers, TracksPen, Asleep
<1>2. ASSUME UNCHANGED <<fatal, fine>>, call' # "NoErrorOccurred", ~(Running' /\ ~fMinimizeLoadState')
      PROVE  Survived'
  BY <1>2 DEF Survived
<1>3. ASSUME UNCHANGED <<fatal, fine>>, call' # "NoErrorOccurred", played' = <<>>
      PROVE  Survived'
  <2>1. 0 .. Len(played') - 1 = {}
    BY <1>3
  <2>2. QED
    BY <1>3, <2>1 DEF Survived
<1>4. CASE Start
  <2>1. ~Running'
    BY <1>4 DEF Start, Stack, Running, minimize
  <2>2. QED
    BY <1>2, <1>4, <2>1 DEF Start, device
<1>5. CASE InitialLevel \/ SplitCurrentLevel \/ CannotSplit \/ DisableAndStartAgain \/ NextSubRange
           \/ MinimizationPassComplete \/ NoErrorOccurred \/ ErrorOccurred
  <2>1. call' \notin {"device", "NoErrorOccurred"} /\ UNCHANGED <<fatal, fine>>
    BY <1>5 DEF InitialLevel, SplitCurrentLevel, CannotSplit, DisableAndStartAgain, NextSubRange,
         MinimizationPassComplete, NoErrorOccurred, ErrorOccurred, device
  <2>2. QED
    BY <1>2, <2>1 DEF Running
<1>6. CASE StartAgain
  BY <1>2, <1>6 DEF StartAgain, device
<1>7. CASE MinimizationComplete
  BY <1>2, <1>7 DEF MinimizationComplete, device, Running
<1>8. CASE Stop
  <2>1. UNCHANGED <<fgEvents, fgMask, played, call, fatal, fine>> /\ ~Running'
    BY <1>8 DEF Stop, device, Running
  <2>2. QED
    BY <2>1 DEF Survived
<1>9. CASE RealLoadInitialState \/ Wakes
  BY <1>3, <1>9 DEF RealLoadInitialState, Wakes
<1>10. CASE DeviceFails
  <2>1. /\ Running /\ ~fMinimizeLoadState /\ played \notin fine
        /\ fatal' = fatal \union {played} /\ call' = "device"
        /\ UNCHANGED <<played, fine>>
    BY <1>1, <1>10 DEF DeviceFails, Runs, Free, Running
  <2>2. QED
    BY <2>1 DEF Survived
<1>11. CASE ReportError
  <2>1. UNCHANGED <<fatal, fine, played, fMinimizeLoadState>> /\ call = "device" /\ call' # "NoErrorOccurred"
        /\ (Running' => Running)
    BY <1>11 DEF ReportError, device, Running, minimize
  <2>2. QED
    BY <2>1 DEF Survived
<1>12. CASE ReplayGetEvent
  <2>1. /\ call = "device" /\ ~fMinimizeLoadState
        /\ UNCHANGED <<fgEvents, fgMask, fgIsOn, fMinimizeLoadState, fatal>>
        /\ fgIsOn => played \notin fatal
        /\ fine' = IF fgIsOn THEN fine \union {played} ELSE fine
    BY <1>1, <1>12 DEF ReplayGetEvent, Asks, Runs, Free, minimize, session
  <2>2. fatal' \intersect fine' = {}
    BY <2>1 DEF Survived
  <2>3. CASE ~fgIsOn
    <3>1. ~Running' /\ call' # "NoErrorOccurred"
      BY <1>12, <2>1, <2>3 DEF ReplayGetEvent, Running
    <3>2. QED
      BY <2>2, <3>1 DEF Survived
  <2>4. CASE fgIsOn
    <3>1. Running /\ Shown /\ fPenIsDown = PenIsDown(fgEvents, fgMask, fIndex + 1)
      BY <2>1, <2>4 DEF Playing, Running
    <3>2. \A n \in 0 .. Len(played) : SubSeq(played, 1, n) \in fine'
      <4>1. \A n \in 0 .. Len(played) - 1 : SubSeq(played, 1, n) \in fine
        BY <2>1, <3>1 DEF Survived
      <4>2. SubSeq(played, 1, Len(played)) = played
        <5>1. [number |-> 0, type |-> "key"] \in Events
          BY DEF Events, Types
        <5>2. QED
          BY <1>0, <5>1, Beginnings
      <4>3. \A n \in 0 .. Len(played) : n \in 0 .. Len(played) - 1 \/ n = Len(played)
        BY <1>0
      <4>4. QED
        BY <2>1, <2>4, <4>1, <4>2, <4>3
    <3>3. CASE NextReplayEvent = 0
      <4>1. call' = "NoErrorOccurred" /\ played' = played
        BY <1>12, <2>4, <3>3 DEF ReplayGetEvent
      <4>2. played = Replay(fgEvents, fgMask)
        BY <1>0, <3>1, <3>3, WholeReplay
      <4>3. QED
        BY <2>1, <2>2, <3>2, <4>1, <4>2 DEF Survived, Running
    <3>4. CASE NextReplayEvent # 0
      <4> DEFINE event == fgEvents[NextReplayEvent]
      <4>1. call' = "device" /\ played' = Append(played, event)
        BY <1>1, <1>12, <2>1, <3>4 DEF ReplayGetEvent, Plays
      <4>2. event \in Events
        BY <1>0, <3>4, NextReplayed
      <4> HIDE DEF event
      <4>3. /\ Len(played') - 1 = Len(played)
            /\ \A n \in 0 .. Len(played) : SubSeq(played', 1, n) = SubSeq(played, 1, n)
        BY <1>0, <4>1, <4>2, Beginnings
      <4>4. \A n \in 0 .. Len(played') - 1 : SubSeq(played', 1, n) \in fine'
        BY <3>2, <4>3
      <4>5. QED
        BY <2>2, <4>1, <4>4 DEF Survived
    <3>5. QED
      BY <3>3, <3>4
  <2>5. QED
    BY <2>3, <2>4
<1>13. CASE ReplayGetPen
  BY <1>1, <1>13 DEF ReplayGetPen
<1>14. CASE Sleeps
  BY <1>1, <1>14 DEF Sleeps
<1>15. CASE Reset
  BY <1>1, <1>15 DEF Reset
<1>16. CASE UNCHANGED vars
  <2>1. UNCHANGED <<fgEvents, fgMask, played, call, fgIsOn, fMinimizeLoadState, fatal, fine>>
    BY <1>16 DEF vars, playback, minimize, session, device
  <2>2. QED
    BY <2>1 DEF Survived, Running
<1>17. QED
  BY <1>4, <1>5, <1>6, <1>7, <1>8, <1>9, <1>10, <1>11, <1>12, <1>13, <1>14, <1>15, <1>16
     DEF Next, Minimization, Device

-----------------------------------------------------------------------------
(* What a pass has decided. *)

Last == fgPassNumber = kLastPass

\* The search is on, or a function of it is still to return after Stop.
Active == call \notin {"idle", "device"} \/ Running

\* A replay is about to begin, under way or just over.
Tests == call \in {"StartAgain", "ErrorOccurred", "NoErrorOccurred"} \/ Running

\* Without this event the device was seen not to fail.
Needed(i) ==
  fgEvents[i].type # "up" =>
    Replay(fgEvents, SetEvents(AllEnabled(fgEvents), i - 1, i, FALSE)) \in fine

\* The first events are all needed; one of them is discarded.
Whole(m) == \A i \in 1 .. m : fgMask[i] /\ Needed(i)
Less(m)  == \E i \in 1 .. m : ~fgMask[i] /\ fgEvents[i].type # "up"

\* The pass has decided about the events up to here.
Bound ==
  IF call = "InitialLevel" THEN 0
  ELSE IF fLevels = <<>> THEN Len(fgMask)
  ELSE IF call = "NextSubRange" THEN Top.fEnd ELSE Top.fBegin

\* The last pass replays everything; another one masks out a range, a single pen up excepted.
Masked ==
  Tests /\ Len(fgEvents) # 0 =>
    IF Last THEN \A i \in 1 .. Len(fgMask) : fgMask[i]
    ELSE /\ \A i \in Top.fBegin + 1 .. Top.fEnd : ~fgMask[i]
         /\ Size(Top) = 1 => fgEvents[Top.fEnd].type # "up"

\* The last pass tests one range, and ends because the device fails.  Nothing goes on after
\* the events are saved.
Ending ==
  /\ Last => /\ call \notin {"SplitAndStartAgain", "DisableAndStartAgain", "NoErrorOccurred"}
             /\ Len(fLevels) <= 1
             /\ call \in {"NextSubRange", "MinimizationPassComplete", "MinimizationComplete"} =>
                  fgDiscardedNumberOfEvents = fgInitialNumberOfEvents - Len(fgEvents)
  /\ call = "MinimizationComplete" => Last /\ \A i \in 1 .. Len(fgMask) : fgMask[i]
  /\ saved => call = "device" /\ ~fgIsOn
  /\ call \notin {"wakeMinimizing", "wakeReplaying"}

\* A single event that is checked is on top: it was just tested.
Unchecked == \A i \in 1 .. Len(fLevels) - 1 : Size(fLevels[i]) = 1 => ~fLevels[i].fChecked

\* The events that this pass has decided about are all needed, or one is discarded and
\* another pass follows; before the last pass, all were needed.
Decided ==
  Active =>
    /\ Clean(fgEvents)
    /\ Len(fgEvents) >= 2 =>
         IF Last THEN \A i \in 1 .. Len(fgEvents) : Needed(i)
         ELSE /\ Less(Bound) \/ Whole(Bound)
              /\ call = "SplitAndStartAgain" /\ Size(Top) <= 1 => Less(Bound) \/ Needed(Top.fEnd)

\* No range reaches beyond the events.
LEMMA TopWithin ==
  ASSUME TypedEvents, TypedLevels, LevelsTile, fLevels # <<>>
  PROVE  /\ Top \in Levels /\ Top.fBegin \in Nat /\ Top.fEnd \in Nat
         /\ Len(fgMask) \in Nat /\ Len(fLevels) \in Nat \ {0}
         /\ Len(fgMask) # 0 => Top.fBegin < Top.fEnd /\ Top.fEnd <= Len(fgMask)
<1> DEFINE n      == Len(fLevels)
           N      == Len(fgMask)
           beyond == {i \in 1 .. n : fLevels[i].fEnd > N}
<1>1. /\ n \in Nat \ {0} /\ N \in Nat /\ Top = fLevels[n]
      /\ \A i \in 1 .. n : fLevels[i] \in Levels
      /\ \A i \in 1 .. n : Size(fLevels[i]) >= 1 \/ N = 0
  <2>1. fgMask = <<>> => N = 0
    BY EmptySeq
  <2>2. n \in Nat \ {0} /\ N \in Nat /\ Top = fLevels[n]
    BY Popped, LenProperties DEF TypedEvents, TypedLevels, Top
  <2>3. \A i \in 1 .. n : fLevels[i] \in Levels
    BY ElementOfSeq DEF TypedLevels
  <2>4. \A i \in 1 .. n : Size(fLevels[i]) >= 1 \/ N = 0
    <3> HIDE DEF N
    <3>1. QED
      BY <2>1 DEF TypedLevels
  <2>5. QED
    BY <2>2, <2>3, <2>4
<1>2. /\ fLevels[1].fEnd = N
      /\ \A i \in 1 .. n - 1 : fLevels[i].fBegin = fLevels[i + 1].fEnd
  BY DEF LevelsTile
<1> HIDE DEF n, N
<1>3. \A i \in 1 .. n : /\ fLevels[i].fBegin \in Nat /\ fLevels[i].fEnd \in Nat
                        /\ N # 0 => fLevels[i].fBegin < fLevels[i].fEnd
  <2> SUFFICES ASSUME NEW i \in 1 .. n
               PROVE  /\ fLevels[i].fBegin \in Nat /\ fLevels[i].fEnd \in Nat
                      /\ N # 0 => fLevels[i].fBegin < fLevels[i].fEnd
    OBVIOUS
  <2>1. fLevels[i].fBegin \in Nat /\ fLevels[i].fEnd \in Nat
    BY <1>1 DEF Levels
  <2>2. fLevels[i].fEnd - fLevels[i].fBegin >= 1 \/ N = 0
    BY <1>1 DEF Size
  <2>3. QED
    BY <2>1, <2>2
<1>4. N # 0 => beyond = {}
  <2> SUFFICES ASSUME N # 0, beyond # {} PROVE FALSE
    OBVIOUS
  <2>1. beyond \in SUBSET Nat
    BY <1>1
  <2>2. PICK i \in beyond : \A j \in beyond : i <= j
    BY <2>1, Least
  <2>3. i \in 1 .. n /\ fLevels[i].fEnd > N /\ i # 1
    BY <1>1, <1>2, <2>2
  <2>4. i - 1 \in 1 .. n - 1 /\ i - 1 \in 1 .. n /\ i - 1 + 1 = i /\ ~(i <= i - 1)
    BY <1>1, <2>3
  <2>5. fLevels[i - 1].fBegin = fLevels[i].fEnd
    BY <1>2, <2>4
  <2>6. fLevels[i - 1].fBegin < fLevels[i - 1].fEnd
    BY <1>3, <2>4
  <2>7. i - 1 \in beyond
    BY <1>1, <1>3, <2>3, <2>4, <2>5, <2>6
  <2>8. QED
    BY <2>2, <2>4, <2>7
<1>5. N # 0 => fLevels[n].fEnd <= N
  <2>1. n \in 1 .. n
    BY <1>1
  <2>2. QED
    BY <1>1, <1>3, <1>4, <2>1
<1>6. QED
  BY <1>1, <1>3, <1>5 DEF n, N, Levels

\* A range whose events are all masked out has one that is not a pen up.
LEMMA Dropped ==
  ASSUME TypedEvents, TypedLevels, LevelsTile, fLevels # <<>>, Len(fgEvents) # 0,
         Clean(fgEvents), \A i \in Top.fBegin + 1 .. Top.fEnd : ~fgMask[i],
         Size(Top) = 1 => fgEvents[Top.fEnd].type # "up"
  PROVE  Less(Top.fEnd)
<1>1. /\ Top.fBegin \in Nat /\ Top.fEnd \in Nat /\ Len(fgEvents) \in Nat
      /\ Top.fBegin < Top.fEnd /\ Top.fEnd <= Len(fgEvents)
  BY TopWithin DEF TypedEvents
<1>2. CASE fgEvents[Top.fEnd].type # "up"
  <2>1. Top.fEnd \in Top.fBegin + 1 .. Top.fEnd /\ Top.fEnd \in 1 .. Top.fEnd
    BY <1>1
  <2>2. QED
    BY <1>2, <2>1 DEF Less
<1>3. CASE fgEvents[Top.fEnd].type = "up"
  <2>1. Top.fEnd - Top.fBegin # 1
    BY <1>3 DEF Size
  <2>2. /\ Top.fEnd \in 1 .. Len(fgEvents)
        /\ Top.fEnd - 1 \in Top.fBegin + 1 .. Top.fEnd /\ Top.fEnd - 1 \in 1 .. Top.fEnd
    BY <1>1, <2>1
  <2>3. fgEvents[Top.fEnd - 1].type = "down"
    BY <1>3, <2>2 DEF Clean
  <2>4. QED
    BY <2>2, <2>3 DEF Less
<1>4. QED
  BY <1>2, <1>3

\* CullEvents either leaves fewer events, or every one, and then nothing was masked out but
\* pen ups.
LEMMA CulledLess ==
  ASSUME TypedEvents, Clean(fgEvents), CullEvents(fgMask)
  PROVE  /\ Clean(fgEvents)' /\ Len(fgEvents') \in 0 .. Len(fgEvents) /\ Len(fgMask') = Len(fgEvents')
         /\ \A i \in 1 .. Len(fgMask') : fgMask'[i]
         /\ Len(fgEvents') = Len(fgEvents) =>
              fgEvents' = fgEvents /\ ~Less(Len(fgEvents))
<1> DEFINE E == Enabled(fgEvents, fgMask)
           t == Replay(fgEvents, fgMask)
           n == Len(fgEvents)
<1>1. /\ fgEvents \in Seq(Events) /\ n \in Nat /\ E \in SUBSET (1 .. n)
      /\ fgEvents' = t
  BY LenProperties DEF TypedEvents, Enabled, CullEvents
<1>2. t \in Seq(Events) /\ Len(t) = Cardinality(E) /\ Len(t) \in 0 .. n
  BY <1>1, ReplayTyped DEF CountEnabledEvents
<1>3. Clean(fgEvents)'
  <2>1. Clean(t)
    BY <1>1, ReplayClean
  <2>2. QED
    BY <1>1, <2>1 DEF Clean
<1>4. Len(fgMask') = Len(fgEvents') /\ \A i \in 1 .. Len(fgMask') : fgMask'[i]
  BY <1>1, Culled
<1>5. ASSUME Len(t) = n
      PROVE  t = fgEvents /\ ~Less(n)
  <2>1. E = 1 .. n
    <3> HIDE DEF E, n, t
    <3>1. 1 \in Int /\ n \in Int /\ (IF 1 > n THEN 0 ELSE n - 1 + 1) = n
      BY <1>1
    <3>2. IsFiniteSet(1 .. n) /\ Cardinality(1 .. n) = n
      BY <3>1, FS_Interval
    <3>3. QED
      BY <1>1, <1>2, <1>5, <3>2, FS_Subset
  <2>2. t = fgEvents
    <3>1. Lists(t, fgEvents, 1 .. n) /\ Lists(fgEvents, fgEvents, 1 .. n)
      <4>1. Lists(t, fgEvents, 1 .. n)
        BY <1>1, <2>1, ReplayLists
      <4>2. /\ Enabled(fgEvents, AllEnabled(fgEvents)) = 1 .. n
            /\ Replay(fgEvents, AllEnabled(fgEvents)) = fgEvents
        BY <1>1, CleanKept
      <4>3. Lists(fgEvents, fgEvents, 1 .. n)
        <5>1. Lists(Replay(fgEvents, AllEnabled(fgEvents)), fgEvents,
                    Enabled(fgEvents, AllEnabled(fgEvents)))
          BY <1>1, ReplayLists
        <5>2. QED
          BY <4>2, <5>1
      <4>4. QED
        BY <4>1, <4>3
    <3>2. \A i \in 1 .. n : Rank(1 .. n, i) \in 1 .. n /\ t[Rank(1 .. n, i)] = fgEvents[Rank(1 .. n, i)]
      <4>1. \A i \in 1 .. n : t[Rank(1 .. n, i)] = fgEvents[i] /\ fgEvents[Rank(1 .. n, i)] = fgEvents[i]
        BY <3>1 DEF Lists
      <4>2. \A i \in 1 .. n : Rank(1 .. n, i) \in 1 .. Cardinality(1 .. n)
        <5> HIDE DEF n
        <5>1. QED
          BY <1>1, Ranks
      <4>3. Cardinality(1 .. n) = n
        BY <1>2, <1>5, <2>1
      <4>4. QED
        BY <4>1, <4>2, <4>3
    <3>3. \A m \in 1 .. n : \E i \in 1 .. n : Rank(1 .. n, i) = m
      <4>1. Cardinality(1 .. n) = n
        BY <1>2, <1>5, <2>1
      <4>2. \A m \in 1 .. Cardinality(1 .. n) : \E i \in 1 .. n : Rank(1 .. n, i) = m
        <5> HIDE DEF n
        <5>1. QED
          BY <1>1, Ranks
      <4>3. QED
        BY <4>1, <4>2
    <3>4. \A m \in 1 .. n : t[m] = fgEvents[m]
      BY <3>2, <3>3
    <3> HIDE DEF t
    <3>5. QED
      BY <1>1, <1>2, <1>5, <3>4, SeqEqual
  <2>3. \A i \in 1 .. n : fgEvents[i].type # "up" => fgMask[i]
    BY <2>1 DEF Enabled, Returned
  <2>4. QED
    BY <2>2, <2>3 DEF Less
<1>6. QED
  BY <1>1, <1>2, <1>3, <1>4, <1>5

\* Splitting a range leaves no single event that is checked below the top.
LEMMA UncheckedKept ==
  ASSUME TypeOK, Stack, Unchecked, [Next]_vars
  PROVE  Unchecked'
<1> DEFINE n == Len(fLevels)
<1>0. TypedLevels /\ fLevels \in Seq(Levels) /\ n \in Nat
  BY TypeParts, LenProperties DEF TypedLevels
<1>1. CASE fLevels' = <<>>
  <2>1. Len(fLevels') - 1 < 1
    BY <1>1
  <2>2. QED
    BY <2>1 DEF Unchecked
<1>2. CASE InitialLevel
  <2>1. 1 .. Len(fLevels') - 1 = {}
    BY <1>2 DEF InitialLevel
  <2>2. QED
    BY <2>1 DEF Unchecked
<1>3. CASE SplitCurrentLevel
  <2>1. fLevels # <<>> /\ Size(Top) > 1 /\ fLevels' = Split
    BY <1>3 DEF SplitCurrentLevel, Stack
  <2> DEFINE mid == (Top.fBegin + Top.fEnd) \div 2
  <2>2. /\ Len(Split) = n + 1 /\ \A i \in 1 .. n - 1 : Split[i] = fLevels[i]
        /\ Split[n].fBegin = mid /\ Split[n].fEnd = Top.fEnd
        /\ Split[n].fChecked => Top.fEnd - mid > 1
    BY <1>0, <2>1, Halved
  <2> HIDE DEF mid
  <2>3. Split[n].fChecked => Size(Split[n]) # 1
    BY <2>2 DEF Size
  <2>4. Len(Split) - 1 = n /\ \A i \in 1 .. n : i \in 1 .. n - 1 \/ i = n
    BY <1>0, <2>2
  <2>5. QED
    BY <2>1, <2>2, <2>3, <2>4 DEF Unchecked
<1>4. CASE CannotSplit
  <2>1. fLevels' = [i \in DOMAIN fLevels |-> [fLevels[i] EXCEPT !.fChecked = FALSE]]
    BY <1>4 DEF CannotSplit
  <2>2. DOMAIN fLevels = 1 .. n /\ \A i \in 1 .. n : fLevels[i] \in Levels
    BY <1>0, LenProperties, ElementOfSeq
  <2>3. \A l \in Levels : ~[l EXCEPT !.fChecked = FALSE].fChecked
    BY DEF Levels
  <2>4. Len(fLevels') = n /\ \A i \in 1 .. n : ~fLevels'[i].fChecked
    <3> HIDE DEF n
    <3>1. fLevels' = [i \in 1 .. n |-> [fLevels[i] EXCEPT !.fChecked = FALSE]]
      BY <2>1, <2>2, Zenon
    <3>2. Len(fLevels') = n
      BY <1>0, <3>1
    <3>3. \A i \in 1 .. n : fLevels'[i] = [fLevels[i] EXCEPT !.fChecked = FALSE]
      BY <3>1, Zenon
    <3>4. QED
      BY <2>2, <2>3, <3>2, <3>3
  <2>5. \A i \in 1 .. n - 1 : i \in 1 .. n
    BY <1>0
  <2>6. QED
    BY <2>4, <2>5 DEF Unchecked
<1>5. CASE NextSubRange
  <2>1. fLevels # <<>> /\ fLevels' = Pop
    BY <1>5 DEF NextSubRange, Stack
  <2>2. Len(Pop) = n - 1 /\ \A i \in 1 .. n - 1 : Pop[i] = fLevels[i]
    BY <1>0, <2>1, Popped
  <2>3. \A i \in 1 .. Len(fLevels') - 1 : i \in 1 .. n - 1
    BY <1>0, <2>1, <2>2
  <2>4. QED
    BY <2>1, <2>2, <2>3 DEF Unchecked
<1>6. CASE NoErrorOccurred /\ fLevels' # <<>>
  <2>1. fLevels # <<>> /\ fLevels' = [fLevels EXCEPT ![n].fChecked = TRUE]
    BY <1>6 DEF NoErrorOccurred, Stack
  <2>2. DOMAIN fLevels = 1 .. n
    BY <1>0, LenProperties
  <2>3. Len(fLevels') = n /\ \A i \in 1 .. n - 1 : fLevels'[i] = fLevels[i]
    BY <1>0, <2>1, <2>2
  <2>4. QED
    BY <2>3 DEF Unchecked
<1>7. CASE UNCHANGED fLevels
  BY <1>7 DEF Unchecked
<1>8. CASE MinimizationPassComplete
  BY <1>7, <1>8 DEF MinimizationPassComplete
<1>9. CASE ErrorOccurred
  BY <1>1, <1>7, <1>9 DEF ErrorOccurred
<1>10. CASE Start
  BY <1>1, <1>7, <1>10 DEF Start, minimize
<1>11. CASE DisableAndStartAgain
  BY <1>7, <1>11 DEF DisableAndStartAgain, minimize
<1>12. QED
  BY <1>1, <1>2, <1>3, <1>4, <1>5, <1>6, <1>7, <1>8, <1>9, <1>10, <1>11
     DEF Next, Minimization, Device, Stop, Reset, StartAgain, MinimizationComplete,
         RealLoadInitialState, DeviceFails, ReportError, ReplayGetEvent, ReplayGetPen,
         Sleeps, Wakes, vars, minimize

\* Each pass of the search is set up so that its replays tell something.
LEMMA MaskedKept ==
  ASSUME TypeOK, Stack, LevelsTile, quirks = {}, Masked, Ending, [Next]_vars
  PROVE  Masked'
<1>0. TypedEvents /\ fLevels \in Seq(Levels)
  BY TypeParts DEF TypedLevels
<1>1. "resets" \notin quirks /\ "sleeps" \notin quirks /\ "polls" \notin quirks
  OBVIOUS
<1>2. ASSUME UNCHANGED <<fgEvents, fgMask, fLevels, fgPassNumber>>, Tests' => Tests
      PROVE  Masked'
  BY <1>2 DEF Masked, Last, Top, Size
<1>3. CASE ~Tests'
  BY <1>3 DEF Masked
<1>4. CASE Start
  <2>1. call' \in {"device", "InitialLevel"} /\ ~Running'
    BY <1>4 DEF Start, Stack, Running, minimize
  <2>2. QED
    BY <1>3, <2>1 DEF Tests
<1>5. CASE SplitCurrentLevel \/ CannotSplit \/ NextSubRange \/ MinimizationPassComplete
           \/ NoErrorOccurred \/ ErrorOccurred
  <2>1. call' \notin {"device", "StartAgain", "ErrorOccurred", "NoErrorOccurred"}
    BY <1>5 DEF SplitCurrentLevel, CannotSplit, NextSubRange, MinimizationPassComplete,
         NoErrorOccurred, ErrorOccurred
  <2>2. QED
    BY <1>3, <2>1 DEF Tests, Running
<1>6. CASE MinimizationComplete
  BY <1>3, <1>6 DEF MinimizationComplete, Tests, Running
<1>7. CASE InitialLevel
  <2>1. CASE Last
    <3>1. UNCHANGED <<fgMask, fgPassNumber>> /\ \A i \in 1 .. Len(fgMask) : fgMask[i]
      BY <1>7 DEF InitialLevel, Stack, playback
    <3>2. QED
      BY <2>1, <3>1 DEF Masked, Last
  <2>2. CASE ~Last
    BY <1>3, <1>7, <2>2 DEF InitialLevel, Last, Tests, Running
  <2>3. QED
    BY <2>1, <2>2
<1>8. CASE DisableAndStartAgain
  <2>1. /\ call = "DisableAndStartAgain" /\ ~Last /\ fLevels # <<>>
        /\ UNCHANGED <<fgEvents, fLevels, fgPassNumber>>
    BY <1>8 DEF DisableAndStartAgain, Stack, Ending, minimize
  <2>2. CASE call' = "NextSubRange"
    BY <1>3, <2>2 DEF Tests, Running
  <2>3. CASE call' # "NextSubRange"
    <3>1. /\ Size(Top) = 1 => fgEvents[Top.fEnd].type # "up"
          /\ fgMask' = SetEvents(fgMask, Top.fBegin, Top.fEnd, FALSE)
      BY <1>8, <2>3 DEF DisableAndStartAgain
    <3>2. Top.fBegin \in Nat /\ Top.fEnd \in Nat /\ Len(fgMask) \in Nat
      BY <1>0, <2>1, Popped, LenProperties DEF Levels, TypedEvents
    <3>3. ASSUME Len(fgEvents) # 0
          PROVE  \A i \in Top.fBegin + 1 .. Top.fEnd : ~fgMask'[i]
      <4>1. Top.fEnd <= Len(fgMask)
        BY <1>0, <2>1, <3>3, TopWithin, TypeParts DEF TypedEvents
      <4>2. FALSE \in BOOLEAN /\ fgMask \in Seq(BOOLEAN)
        BY <1>0 DEF TypedEvents
      <4>3. \A i \in 1 .. Len(fgMask) :
              fgMask'[i] = IF Top.fBegin < i /\ i <= Top.fEnd THEN FALSE ELSE fgMask[i]
        BY <3>1, <3>2, <4>2, SetEventsTyped
      <4>4. \A i \in Top.fBegin + 1 .. Top.fEnd :
              i \in 1 .. Len(fgMask) /\ Top.fBegin < i /\ i <= Top.fEnd
        BY <3>2, <4>1
      <4>5. QED
        BY <4>3, <4>4
    <3>4. QED
      BY <2>1, <3>1, <3>3 DEF Masked, Last, Top, Size
  <2>4. QED
    BY <2>2, <2>3
<1>9. CASE StartAgain
  BY <1>2, <1>9 DEF StartAgain, Tests
<1>10. CASE Stop
  <2>1. UNCHANGED <<fgEvents, fgMask, fLevels, fgPassNumber, call>> /\ ~fgIsOn'
    BY <1>10 DEF Stop
  <2>2. QED
    BY <1>2, <2>1 DEF Tests, Running
<1>11. CASE Device \/ UNCHANGED vars
  <2>1. UNCHANGED <<fgEvents, fgMask, fLevels, fgPassNumber>>
    BY <1>11
       DEF Device, RealLoadInitialState, DeviceFails, ReportError, ReplayGetEvent, ReplayGetPen,
           Sleeps, Wakes, vars, minimize, playback
  <2>2. ~Wakes /\ ~Sleeps /\ ~ReplayGetPen
    BY DEF Wakes, Ending, Sleeps, Asleep, ReplayGetPen, TracksPen
  <2>3. Tests' => Tests
    BY <1>11, <2>2
       DEF Device, RealLoadInitialState, DeviceFails, ReportError, ReplayGetEvent, Asks, Runs,
           Free, vars, minimize, playback, Tests, Running
  <2>4. QED
    BY <1>2, <2>1, <2>3
<1>12. CASE Reset
  BY <1>12 DEF Reset
<1>13. QED
  BY <1>4, <1>5, <1>6, <1>7, <1>8, <1>9, <1>10, <1>11, <1>12 DEF Next, Minimization

\* If everything is replayed, the device fails: the last pass ends with an error.
LEMMA LastFails ==
  ASSUME TypedEvents, fLevels \in Seq(Levels), Failing, call = "device", fatal' = fatal,
         UNCHANGED <<fgEvents, fgMask>>, Survived', call' = "NoErrorOccurred",
         \A i \in 1 .. Len(fgMask) : fgMask[i]
  PROVE  FALSE
<1> DEFINE t == Replay(fgEvents, fgMask)
<1>1. \A i \in 1 .. Len(fgEvents) : Kept[i] = fgMask[i]
  <2>1. \A i \in 1 .. Len(fgEvents) : Kept[i] = KeptAt(i)
    BY KeptIs
  <2>2. \A i \in 1 .. Len(fgEvents) : fgMask[i] \in BOOLEAN /\ fgMask[i]
    BY ElementOfSeq DEF TypedEvents
  <2>3. QED
    BY <2>1, <2>2 DEF KeptAt
<1>2. Replay(fgEvents, Kept) = t
  BY <1>1, SameReplay DEF TypedEvents
<1>3. PICK n \in 0 .. Len(t) : SubSeq(t, 1, n) \in fatal
  BY <1>2 DEF Failing, FailsOn
<1>4. played' = t
  BY DEF Survived
<1> HIDE DEF t
<1>5. SubSeq(t, 1, n) \in fine'
  BY <1>4 DEF Survived
<1>6. QED
  BY <1>3, <1>5 DEF Survived

\* As long as nothing is masked out, all events count.
LEMMA CountAll ==
  ASSUME TypedEvents, Clean(fgEvents), \A i \in 1 .. Len(fgMask) : fgMask[i]
  PROVE  CountEnabledEvents(fgEvents, fgMask) = Len(fgEvents)
<1>1. \A i \in 1 .. Len(fgEvents) : fgMask[i] = AllEnabled(fgEvents)[i]
  <2>1. \A i \in 1 .. Len(fgEvents) :
          /\ fgMask[i] \in BOOLEAN /\ fgMask[i]
          /\ AllEnabled(fgEvents)[i] \in BOOLEAN /\ AllEnabled(fgEvents)[i]
    BY AllEnabledTyped, ElementOfSeq DEF TypedEvents
  <2>2. QED
    BY <2>1
<1>2. Replay(fgEvents, fgMask) = Replay(fgEvents, AllEnabled(fgEvents))
  BY <1>1, SameReplay DEF TypedEvents
<1>3. QED
  BY <1>2, CleanKept, ReplayTyped DEF TypedEvents

\* The last pass ends as it should, with the right count, and nothing comes after the end.
LEMMA EndingKept ==
  ASSUME TypeOK, TypeOK', Stack, LevelsTile, quirks = {}, Failing, Survived', Masked, Ending, Decided,
         [Next]_vars
  PROVE  Ending'
<1>0. /\ TypedEvents /\ fLevels \in Seq(Levels) /\ Len(fLevels) \in Nat
      /\ fgPassNumber \in Nat
  BY TypeParts, LenProperties DEF TypedLevels, Scalars
<1>1. "resets" \notin quirks /\ "sleeps" \notin quirks /\ "polls" \notin quirks
  OBVIOUS
<1>2. ~Wakes /\ ~Sleeps /\ ~ReplayGetPen /\ ~Reset
  BY DEF Wakes, Ending, Sleeps, Asleep, ReplayGetPen, TracksPen, Reset
<1>3. CASE Start
  <2>1. /\ call = "idle" /\ call' \in {"device", "InitialLevel"} /\ fLevels' = <<>>
        /\ ~saved /\ UNCHANGED saved
    BY <1>3 DEF Start, Ending, Stack, minimize, ui
  <2>2. Len(fLevels') <= 1
    BY <2>1
  <2>3. QED
    BY <2>1, <2>2 DEF Ending
<1>4. CASE InitialLevel
  <2>1. /\ call' = IF Last THEN "StartAgain" ELSE "SplitAndStartAgain"
        /\ Len(fLevels') = 1 /\ ~saved /\ UNCHANGED <<saved, fgPassNumber>>
    BY <1>4 DEF InitialLevel, Last, Ending, ui
  <2>2. QED
    BY <2>1 DEF Ending, Last
<1>5. CASE SplitCurrentLevel \/ CannotSplit \/ DisableAndStartAgain \/ NoErrorOccurred
  <2>1. /\ call \in {"SplitAndStartAgain", "DisableAndStartAgain", "NoErrorOccurred"}
        /\ UNCHANGED <<saved, fgPassNumber>>
    BY <1>5 DEF SplitCurrentLevel, CannotSplit, DisableAndStartAgain, NoErrorOccurred, ui, minimize
  <2>2. ~Last /\ ~saved
    BY <2>1 DEF Ending
  <2>3. call' \notin {"MinimizationComplete", "wakeMinimizing", "wakeReplaying"}
    BY <1>5 DEF SplitCurrentLevel, CannotSplit, DisableAndStartAgain, NoErrorOccurred
  <2>4. QED
    BY <2>1, <2>2, <2>3 DEF Ending, Last
<1>6. CASE StartAgain
  <2>1. ~saved /\ call' = "device" /\ UNCHANGED <<saved, fgPassNumber, fLevels>>
    BY <1>6 DEF StartAgain, Ending
  <2>2. QED
    BY <2>1 DEF Ending, Last
<1>7. CASE NextSubRange
  <2>1. /\ ~saved /\ fLevels # <<>> /\ fLevels' = Pop
        /\ call' = IF Pop = <<>> THEN "MinimizationPassComplete"
                   ELSE IF Pop[Len(Pop)].fChecked \/ Size(Pop[Len(Pop)]) > kMaxRange
                   THEN "SplitAndStartAgain" ELSE "DisableAndStartAgain"
        /\ UNCHANGED <<saved, fgPassNumber, fgEvents, counts>>
    BY <1>7 DEF NextSubRange, Ending, Stack, ui, playback
  <2>2. CASE Last
    <3>1. Len(fLevels) <= 1 /\ fgDiscardedNumberOfEvents = fgInitialNumberOfEvents - Len(fgEvents)
      BY <1>7, <2>2 DEF NextSubRange, Ending
    <3>2. Len(Pop) = 0 /\ Pop = <<>>
      BY <1>0, <2>1, <3>1, Popped, EmptySeq
    <3>3. QED
      BY <2>1, <3>1, <3>2 DEF Ending, Last, counts
  <2>3. CASE ~Last
    BY <2>1, <2>3 DEF Ending, Last
  <2>4. QED
    BY <2>2, <2>3
<1>8. CASE MinimizationPassComplete
  <2>1. /\ call = "MinimizationPassComplete" /\ Active /\ ~saved /\ fLevels = <<>>
        /\ CullEvents(fgMask) /\ UNCHANGED <<saved, fLevels, counts>>
    BY <1>8 DEF MinimizationPassComplete, Ending, Stack, ui, Active
  <2>2. /\ Len(fgEvents') \in 0 .. Len(fgEvents) /\ Len(fgMask') = Len(fgEvents')
        /\ \A i \in 1 .. Len(fgMask') : fgMask'[i]
        /\ Len(fgEvents) \in Nat /\ Len(fgMask) = Len(fgEvents)
    <3>1. Clean(fgEvents)
      BY <2>1 DEF Decided
    <3>2. QED
      BY <1>0, <2>1, <3>1, CulledLess, LenProperties DEF TypedEvents
  <2>3. CASE MakeAnotherPass(Len(fgMask), Len(fgMask'))
    <3>1. fgPassNumber' = fgPassNumber + 1 /\ call' = "InitialLevel"
      BY <1>8, <2>3 DEF MinimizationPassComplete
    <3>2. ~Last'
      BY <1>0, <3>1 DEF Last, kLastPass
    <3>3. QED
      BY <2>1, <3>1, <3>2 DEF Ending
  <2>4. CASE ~MakeAnotherPass(Len(fgMask), Len(fgMask')) /\ ~Last
    <3>1. call' = "InitialLevel"
      BY <1>8, <2>4 DEF MinimizationPassComplete, Last
    <3>2. Len(fLevels') <= 1
      BY <2>1
    <3>3. QED
      BY <2>1, <3>1, <3>2 DEF Ending
  <2>5. CASE ~MakeAnotherPass(Len(fgMask), Len(fgMask')) /\ Last
    <3>1. call' = "MinimizationComplete" /\ UNCHANGED fgPassNumber
      BY <1>8, <2>5 DEF MinimizationPassComplete, Last
    <3>2. Len(fgEvents') = Len(fgEvents)
      BY <2>2, <2>5 DEF MakeAnotherPass
    <3>3. fgDiscardedNumberOfEvents = fgInitialNumberOfEvents - Len(fgEvents)
      BY <2>1, <2>5 DEF Ending
    <3>4. Len(fLevels') <= 1
      BY <2>1
    <3>5. QED
      BY <2>1, <2>2, <2>5, <3>1, <3>2, <3>3, <3>4 DEF Ending, Last, counts
  <2>6. QED
    BY <2>3, <2>4, <2>5
<1>9. CASE MinimizationComplete
  <2>1. /\ call' = "device" /\ fgIsOn' = FALSE /\ fLevels' = <<>> /\ UNCHANGED fgPassNumber
    BY <1>9 DEF MinimizationComplete, Stack
  <2>2. Len(fLevels') <= 1
    BY <2>1
  <2>3. QED
    BY <2>1, <2>2 DEF Ending
<1>10. CASE ErrorOccurred
  <2>1. /\ Tests /\ Active /\ ~saved
        /\ fgDiscardedNumberOfEvents' = fgInitialNumberOfEvents - CountEnabledEvents(fgEvents, fgMask)
        /\ call' \in {"MinimizationPassComplete", "NextSubRange"}
        /\ fLevels' = <<>> \/ fLevels' = fLevels
        /\ UNCHANGED <<saved, fgPassNumber, fgInitialNumberOfEvents, fgEvents>>
    BY <1>10 DEF ErrorOccurred, Ending, ui, Tests, Active
  <2>2. CASE Last
    <3>1. Clean(fgEvents)
      BY <2>1 DEF Decided
    <3>2. \A i \in 1 .. Len(fgMask) : fgMask[i]
      <4>1. Len(fgMask) = Len(fgEvents) /\ Len(fgMask) \in Nat
        BY <1>0, LenProperties DEF TypedEvents
      <4>2. CASE Len(fgMask) = 0
        BY <4>2
      <4>3. CASE Len(fgMask) # 0
        BY <2>1, <2>2, <4>1, <4>3 DEF Masked
      <4>4. QED
        BY <4>2, <4>3
    <3>3. CountEnabledEvents(fgEvents, fgMask) = Len(fgEvents)
      BY <1>0, <3>1, <3>2, CountAll
    <3>4. Len(fLevels') <= 1
      <4>1. Len(fLevels) <= 1
        BY <2>2 DEF Ending
      <4>2. QED
        BY <2>1, <4>1
    <3>5. QED
      BY <2>1, <3>3, <3>4 DEF Ending, Last
  <2>3. CASE ~Last
    BY <2>1, <2>3 DEF Ending, Last
  <2>4. QED
    BY <2>2, <2>3
<1>11. CASE ReplayGetEvent
  <2>1. /\ call = "device" /\ UNCHANGED <<saved, fgPassNumber, fLevels, fgIsOn, fgEvents, fgMask, fatal>>
        /\ call' \in {"device", "NoErrorOccurred"} /\ (call' = "NoErrorOccurred" => fgIsOn)
    BY <1>11 DEF ReplayGetEvent, Asks, Runs, Free, minimize, ui
  <2>2. call' = "NoErrorOccurred" => ~Last
    <3> SUFFICES ASSUME call' = "NoErrorOccurred", Last PROVE FALSE
      OBVIOUS
    <3>1. Tests
      BY <2>1 DEF Tests, Running
    <3>2. \A i \in 1 .. Len(fgMask) : fgMask[i]
      <4>1. Len(fgMask) = Len(fgEvents) /\ Len(fgMask) \in Nat
        BY <1>0, LenProperties DEF TypedEvents
      <4>2. CASE Len(fgMask) = 0
        BY <4>2
      <4>3. CASE Len(fgMask) # 0
        BY <3>1, <4>1, <4>3 DEF Masked
      <4>4. QED
        BY <4>2, <4>3
    <3>3. QED
      BY <1>0, <2>1, <3>2, LastFails
  <2>3. Last' <=> Last
    BY <2>1 DEF Last
  <2>4. QED
    BY <2>1, <2>2, <2>3 DEF Ending
<1>12. CASE ReportError
  <2>1. /\ call = "device" /\ UNCHANGED <<saved, fgPassNumber, fLevels, fgIsOn>>
        /\ call' = IF fgIsOn THEN "ErrorOccurred" ELSE "device"
    BY <1>12 DEF ReportError, minimize, ui
  <2>2. QED
    BY <2>1 DEF Ending, Last
<1>13. CASE RealLoadInitialState \/ DeviceFails \/ Stop \/ UNCHANGED vars
  <2>1. /\ UNCHANGED <<call, saved, fgPassNumber, fLevels, fgEvents, fgMask, counts>>
        /\ fgIsOn' = FALSE \/ fgIsOn' = fgIsOn
    BY <1>13 DEF RealLoadInitialState, DeviceFails, Stop, vars, playback, minimize, ui
  <2>2. QED
    BY <2>1 DEF Ending, Last, counts
<1>14. QED
  BY <1>2, <1>3, <1>4, <1>5, <1>6, <1>7, <1>8, <1>9, <1>10, <1>11, <1>12, <1>13
     DEF Next, Minimization, Device

\* What was seen once stays seen, of the same events.
LEMMA StayNeeded ==
  ASSUME fgEvents' = fgEvents, \A x \in fine : x \in fine', NEW i, Needed(i)
  PROVE  Needed(i)'
BY DEF Needed

LEMMA StayDecided ==
  ASSUME fgEvents' = fgEvents, \A x \in fine : x \in fine', NEW m \in Nat,
         \A i \in 1 .. m : fgMask'[i] = fgMask[i]
  PROVE  /\ \A i \in 1 .. m : Needed(i) => Needed(i)'
         /\ Whole(m) => Whole(m)'
         /\ Less(m) => Less(m)'
<1>1. \A i \in 1 .. m : Needed(i) => Needed(i)'
  BY StayNeeded
<1>2. QED
  BY <1>1 DEF Whole, Less

\* One event more.
LEMMA Further ==
  ASSUME NEW m \in Nat, NEW n \in Nat, m <= n
  PROVE  /\ Less(m) => Less(n)
         /\ Whole(m) /\ (\A i \in m + 1 .. n : fgMask[i] /\ Needed(i)) => Whole(n)
<1>1. \A i \in 1 .. m : i \in 1 .. n
  OBVIOUS
<1>2. \A i \in 1 .. n : i \in 1 .. m \/ i \in m + 1 .. n
  OBVIOUS
<1>3. QED
  BY <1>1, <1>2 DEF Less, Whole

\* A list of which one event is masked out.
LEMMA AllButOne ==
  ASSUME NEW events \in Seq(Events), NEW k, k \in 1 .. Len(events)
  PROVE  \A i \in 1 .. Len(events) :
           /\ SetEvents(AllEnabled(events), k - 1, k, FALSE)[i] \in BOOLEAN
           /\ SetEvents(AllEnabled(events), k - 1, k, FALSE)[i] <=> i # k
<1> DEFINE all  == AllEnabled(events)
           n    == Len(events)
           b    == k - 1
           mask == SetEvents(all, b, k, FALSE)
<1>1. /\ all \in Seq(BOOLEAN) /\ Len(all) = n /\ n \in Nat /\ FALSE \in BOOLEAN
      /\ b \in Nat /\ k \in Nat
  BY AllEnabledTyped, LenProperties
<1>2. \A i \in 1 .. n : all[i] \in BOOLEAN /\ all[i]
  BY <1>1, AllEnabledTyped, ElementOfSeq
<1>3. \A i \in 1 .. Len(all) : mask[i] = IF b < i /\ i <= k THEN FALSE ELSE all[i]
  <2> HIDE DEF all, n, b
  <2>1. QED
    BY <1>1, SetEventsTyped
<1>4. \A i \in 1 .. n : (b < i /\ i <= k) <=> i = k
  BY <1>1
<1> HIDE DEF all, n, b, mask
<1>5. \A i \in 1 .. n : mask[i] \in BOOLEAN /\ (mask[i] <=> i # k)
  BY <1>1, <1>2, <1>3, <1>4
<1>6. QED
  BY <1>5 DEF all, n, b, mask

\* A single event was tested, and the device did not fail without it.
LEMMA TestedAlone ==
  ASSUME TypedEvents, TypedLevels, LevelsTile, fLevels # <<>>, Survived, Masked, ~Last,
         call = "NoErrorOccurred", Size(Top) <= 1, Len(fgEvents) # 0, Whole(Top.fBegin)
  PROVE  Needed(Top.fEnd)
<1> DEFINE k == Top.fEnd
           N == Len(fgEvents)
           d == AllEnabled(fgEvents)
<1>1. /\ Top.fBegin \in Nat /\ k \in Nat /\ N \in Nat /\ Top.fBegin = k - 1
      /\ k \in 1 .. N /\ k - 1 \in Nat
  BY TopWithin DEF TypedEvents, Size
<1>2. \A i \in 1 .. N : /\ SetEvents(d, k - 1, k, FALSE)[i] \in BOOLEAN
                        /\ SetEvents(d, k - 1, k, FALSE)[i] <=> i # k
  <2>1. fgEvents \in Seq(Events)
    BY DEF TypedEvents
  <2> HIDE DEF k
  <2>2. QED
    BY <1>1, <2>1, AllButOne
<1>4. \A i \in 1 .. N : fgMask[i] \in BOOLEAN /\ (fgMask[i] <=> i # k)
  <2> SUFFICES ASSUME NEW i \in 1 .. N PROVE fgMask[i] \in BOOLEAN /\ (fgMask[i] <=> i # k)
    OBVIOUS
  <2>1. fgMask[i] \in BOOLEAN /\ Len(fgMask) = N
    BY ElementOfSeq DEF TypedEvents
  <2>2. ~fgMask[k]
    <3>1. k \in Top.fBegin + 1 .. Top.fEnd
      BY <1>1
    <3>2. QED
      BY <3>1 DEF Masked, Tests
  <2>3. i > k => fgMask[i]
    BY <2>1 DEF LevelsTile, Testing
  <2>4. i < k => fgMask[i]
    <3>1. i < k => i \in 1 .. Top.fBegin
      BY <1>1
    <3>2. QED
      BY <3>1 DEF Whole
  <2>5. QED
    BY <1>1, <2>1, <2>2, <2>3, <2>4
<1>5. \A i \in 1 .. N : SetEvents(d, k - 1, k, FALSE)[i] = fgMask[i]
  <2> HIDE DEF d, k, N
  <2>1. QED
    BY <1>2, <1>4
<1>6. Replay(fgEvents, SetEvents(d, k - 1, k, FALSE)) = Replay(fgEvents, fgMask)
  BY <1>5, SameReplay DEF TypedEvents
<1>7. Replay(fgEvents, fgMask) \in fine
  <2>1. played = Replay(fgEvents, fgMask) /\ SubSeq(played, 1, Len(played)) \in fine /\ played \in Seq(Events)
    <3>1. played = Replay(fgEvents, fgMask) /\ played \in Seq(Events)
      BY ReplayTyped DEF Survived, TypedEvents
    <3>2. Len(played) \in 0 .. Len(played)
      BY <3>1, LenProperties
    <3>3. QED
      BY <3>1, <3>2 DEF Survived
  <2>2. [number |-> 0, type |-> "key"] \in Events
    BY DEF Events, Types
  <2>3. SubSeq(played, 1, Len(played)) = played
    BY <2>1, <2>2, Beginnings
  <2>4. QED
    BY <2>1, <2>3
<1>8. QED
  BY <1>6, <1>7 DEF Needed

\* Decided, of a state that is not of the last pass and in which no single range is about to
\* be split.
LEMMA DecidedSo ==
  ASSUME Active => Clean(fgEvents) /\ (Len(fgEvents) >= 2 => Less(Bound) \/ Whole(Bound)), ~Last,
         call = "SplitAndStartAgain" /\ Len(fgEvents) >= 2 => ~(Size(Top) <= 1)
  PROVE  Decided
BY DEF Decided

\* A pass that goes on: of the events it has decided about one is discarded, and stays so.
LEMMA LessStays ==
  ASSUME fgEvents' = fgEvents, Clean(fgEvents), ~Last', NEW m \in Nat, NEW n \in Nat, m <= n,
         Bound' = n, Less(m), \A i \in 1 .. m : ~fgMask[i] => ~fgMask'[i]
  PROVE  Decided'
<1>1. PICK i \in 1 .. m : ~fgMask[i] /\ fgEvents[i].type # "up"
  BY DEF Less
<1>2. i \in 1 .. Bound' /\ ~fgMask'[i] /\ fgEvents'[i].type # "up"
  BY <1>1
<1>3. Clean(fgEvents)'
  BY DEF Clean
<1>4. QED
  BY <1>2, <1>3 DEF Decided, Less

\* A pass that goes on: all of them were needed, and so are those that it decides about now.
LEMMA WholeStays ==
  ASSUME fgEvents' = fgEvents, \A x \in fine : x \in fine', Clean(fgEvents), ~Last',
         NEW m \in Nat, NEW n \in Nat, Bound' = n, Whole(m),
         \A i \in 1 .. m : fgMask'[i] = fgMask[i], \A i \in m + 1 .. n : fgMask'[i] /\ Needed(i),
         call' = "SplitAndStartAgain" /\ Size(Top)' <= 1 => Needed(Top.fEnd)'
  PROVE  Decided'
<1>1. \A i \in 1 .. n : fgMask'[i] /\ Needed(i)
  <2>1. \A i \in 1 .. n : i \in 1 .. m \/ i \in m + 1 .. n
    OBVIOUS
  <2>2. QED
    BY <2>1 DEF Whole
<1>2. \A i \in 1 .. Bound' : fgMask'[i] /\ Needed(i)'
  BY <1>1 DEF Needed
<1>3. Clean(fgEvents)'
  BY DEF Clean
<1>4. QED
  BY <1>2, <1>3 DEF Decided, Whole

\* The last pass decides nothing, and what it finds is not changed.
LEMMA LastStays ==
  ASSUME fgEvents' = fgEvents, \A x \in fine : x \in fine', Clean(fgEvents), Last', Last,
         Active, Decided
  PROVE  Decided'
<1>1. Clean(fgEvents)'
  BY DEF Clean
<1>2. Len(fgEvents') >= 2 => \A i \in 1 .. Len(fgEvents') : Needed(i)'
  BY DEF Decided, Needed
<1>3. QED
  BY <1>1, <1>2 DEF Decided

\* A function between two replays, in a pass that is not the last.
Deciding ==
  /\ TypedEvents /\ TypedLevels /\ LevelsTile
  /\ Clean(fgEvents) /\ Len(fgEvents) >= 2 /\ ~Last
  /\ Less(Bound) \/ Whole(Bound)

\* What such a function finds.
LEMMA OfDeciding ==
  ASSUME Deciding
  PROVE  /\ Bound \in Nat /\ Len(fgMask) \in Nat /\ Len(fgMask) = Len(fgEvents)
         /\ fgMask \in Seq(BOOLEAN) /\ fLevels \in Seq(Levels) /\ Clean(fgEvents)
         /\ fLevels # <<>> =>
              /\ Len(fLevels) \in Nat \ {0}
              /\ Top.fBegin \in Nat /\ Top.fEnd \in Nat
              /\ Top.fBegin < Top.fEnd /\ Top.fEnd <= Len(fgMask)
<1>1. /\ fgMask \in Seq(BOOLEAN) /\ Len(fgMask) = Len(fgEvents) /\ Len(fgMask) \in Nat
      /\ fLevels \in Seq(Levels) /\ Clean(fgEvents)
  BY LenProperties DEF Deciding, TypedEvents, TypedLevels
<1>2. fLevels # <<>> =>
        /\ Len(fLevels) \in Nat \ {0}
        /\ Top.fBegin \in Nat /\ Top.fEnd \in Nat
        /\ Top.fBegin < Top.fEnd /\ Top.fEnd <= Len(fgMask)
  <2>1. Len(fgMask) # 0
    BY <1>1 DEF Deciding
  <2>2. QED
    BY <2>1, TopWithin DEF Deciding
<1>3. Bound \in Nat
  BY <1>1, <1>2 DEF Bound
<1>4. QED
  BY <1>1, <1>2, <1>3

\* A step that decides nothing, and leaves alone what is decided.
LEMMA BoundStays ==
  ASSUME Deciding, fgEvents' = fgEvents, \A x \in fine : x \in fine', ~Last', Bound' = Bound,
         \A i \in 1 .. Bound : fgMask'[i] = fgMask[i],
         call' = "SplitAndStartAgain" /\ Size(Top)' <= 1 => Less(Bound) \/ Needed(Top.fEnd)'
  PROVE  Decided'
<1>1. Bound \in Nat /\ Clean(fgEvents) /\ Bound <= Bound
  BY OfDeciding
<1>2. CASE Less(Bound)
  BY <1>1, <1>2, LessStays
<1>3. CASE ~Less(Bound)
  <2>1. Whole(Bound)
    BY <1>3 DEF Deciding
  <2>2. \A i \in Bound + 1 .. Bound : fgMask'[i] /\ Needed(i)
    BY <1>1
  <2>3. QED
    BY <1>1, <1>3, <2>1, <2>2, WholeStays
<1>4. QED
  BY <1>2, <1>3

\* A single event that is not tested counts as one that is needed.
LEMMA NextNeeded ==
  ASSUME Deciding, fLevels # <<>>, Bound = Top.fBegin, Size(Top) <= 1, ~Testing,
         fgEvents' = fgEvents, fgMask' = fgMask, \A x \in fine : x \in fine', ~Last',
         call' # "SplitAndStartAgain", Bound' = Top.fEnd, Less(Bound) \/ Needed(Top.fEnd)
  PROVE  Decided'
<1>1. /\ Top.fBegin \in Nat /\ Top.fEnd \in Nat /\ Top.fEnd = Top.fBegin + 1
      /\ Top.fEnd <= Len(fgMask) /\ Len(fgMask) \in Nat /\ Clean(fgEvents)
  BY OfDeciding DEF Size
<1>2. CASE Less(Bound)
  <2>1. Less(Top.fBegin) /\ Top.fBegin <= Top.fEnd /\ \A i \in 1 .. Top.fBegin : ~fgMask[i] => ~fgMask'[i]
    BY <1>1, <1>2
  <2>2. QED
    BY <1>1, <2>1, LessStays
<1>3. CASE ~Less(Bound)
  <2>1. Whole(Top.fBegin) /\ Needed(Top.fEnd)
    BY <1>3 DEF Deciding
  <2>2. fgMask[Top.fEnd]
    BY <1>1 DEF Deciding, LevelsTile
  <2>3. \A i \in Top.fBegin + 1 .. Top.fEnd : i = Top.fEnd
    BY <1>1
  <2>4. \A i \in Top.fBegin + 1 .. Top.fEnd : fgMask'[i] /\ Needed(i)
    BY <2>1, <2>2, <2>3
  <2>5. \A i \in 1 .. Top.fBegin : fgMask'[i] = fgMask[i]
    OBVIOUS
  <2>6. QED
    BY <1>1, <2>1, <2>4, <2>5, WholeStays
<1>4. QED
  BY <1>2, <1>3

\* InitialLevel: nothing is decided yet.
LEMMA DecidedInitially ==
  ASSUME Deciding, InitialLevel
  PROVE  Decided'
<1>1. /\ UNCHANGED <<fgEvents, fgMask, fine, fgPassNumber>> /\ ~Last'
      /\ fLevels' = << Level(0, Len(fgMask), FALSE) >> /\ call' = "SplitAndStartAgain"
      /\ Clean(fgEvents) /\ Len(fgMask) >= 2
  BY OfDeciding DEF InitialLevel, Deciding, Last, playback, device
<1>2. Top' = Level(0, Len(fgMask), FALSE) /\ fLevels' # <<>>
  BY <1>1 DEF Top
<1>3. Bound' = 0 /\ Size(Top)' = Len(fgMask) - 0
  BY <1>1, <1>2 DEF Bound, Level, Size
<1>4. ~(Size(Top)' <= 1)
  BY <1>1, <1>3, OfDeciding
<1>5. Whole(0)
  BY DEF Whole
<1>6. QED
  BY <1>1, <1>3, <1>4, <1>5, WholeStays

\* SplitCurrentLevel: the left half begins where the range did.
LEMMA DecidedSplitting ==
  ASSUME Deciding, Stack, SplitCurrentLevel
  PROVE  Decided'
<1>1. /\ UNCHANGED <<fgEvents, fgMask, fine, fgPassNumber>> /\ ~Last' /\ Clean(fgEvents)
      /\ fLevels # <<>> /\ fLevels \in Seq(Levels) /\ Size(Top) > 1 /\ fLevels' = Split
      /\ call = "SplitAndStartAgain" /\ call' \in {"DisableAndStartAgain", "SplitAndStartAgain"}
      /\ call' = "SplitAndStartAgain" => ~(Size(Split[Len(Split)]) <= kMaxRange)
  BY OfDeciding DEF SplitCurrentLevel, Stack, Deciding, Last, playback, device
<1>2. Len(fLevels) \in Nat \ {0} /\ Top.fBegin \in Nat /\ Top.fEnd \in Nat
  BY <1>1, OfDeciding
<1> DEFINE mid == (Top.fBegin + Top.fEnd) \div 2
<1>3. /\ Split \in Seq(Levels) /\ Len(Split) = Len(fLevels) + 1
      /\ Split[Len(fLevels) + 1].fBegin = Top.fBegin
      /\ Split[Len(fLevels) + 1].fEnd = mid /\ mid \in Nat
  BY <1>1, Halved
<1> HIDE DEF mid
<1>4. Top' = Split[Len(fLevels) + 1] /\ fLevels' # <<>>
  <2>1. Split # <<>>
    BY <1>2, <1>3, EmptySeq
  <2>2. QED
    BY <1>1, <1>3, <2>1 DEF Top
<1>5. Bound' = Top.fBegin /\ Bound = Top.fBegin
  BY <1>1, <1>3, <1>4 DEF Bound
<1>6. call' = "SplitAndStartAgain" => ~(Size(Top)' <= 1)
  <2>1. Size(Top)' = mid - Top.fBegin /\ Size(Split[Len(Split)]) = mid - Top.fBegin
    BY <1>3, <1>4 DEF Size
  <2>2. kMaxRange \in Nat \ {0}
    BY RangeAssumption
  <2>3. QED
    BY <1>1, <1>2, <1>3, <2>1, <2>2
<1>7. QED
  BY <1>1, <1>5, <1>6, BoundStays

\* SplitAndStartAgain of a single event, which is needed.
LEMMA DecidedSingle ==
  ASSUME Deciding, Stack, CannotSplit, Less(Bound) \/ Needed(Top.fEnd)
  PROVE  Decided'
<1>1. /\ UNCHANGED <<fgEvents, fgMask, fine, fgPassNumber>> /\ ~Last'
      /\ fLevels # <<>> /\ fLevels \in Seq(Levels) /\ Size(Top) <= 1
      /\ fLevels' = [i \in DOMAIN fLevels |-> [fLevels[i] EXCEPT !.fChecked = FALSE]]
      /\ call = "SplitAndStartAgain" /\ call' = "NextSubRange" /\ ~Testing
  BY OfDeciding DEF CannotSplit, Stack, Deciding, Last, playback, device, Testing
<1> DEFINE n == Len(fLevels)
<1>2. n \in Nat \ {0} /\ n \in 1 .. n
  BY <1>1, OfDeciding
<1>3. DOMAIN fLevels = 1 .. n /\ fLevels[n] \in Levels
  BY <1>1, <1>2, LenProperties, ElementOfSeq
<1>4. Len(fLevels') = n /\ fLevels'[n].fEnd = fLevels[n].fEnd /\ fLevels' # <<>>
  <2> HIDE DEF n
  <2>1. fLevels' = [i \in 1 .. n |-> [fLevels[i] EXCEPT !.fChecked = FALSE]]
    BY <1>1, <1>3, Zenon
  <2>2. Len(fLevels') = n
    BY <1>2, <2>1
  <2>3. fLevels'[n] = [fLevels[n] EXCEPT !.fChecked = FALSE]
    BY <1>2, <2>1, Zenon
  <2>4. fLevels'[n].fEnd = fLevels[n].fEnd
    BY <1>3, <2>3 DEF Levels
  <2>5. n \in DOMAIN fLevels'
    BY <1>2, <2>1
  <2>6. fLevels' # <<>>
    BY <2>5
  <2>7. QED
    BY <2>2, <2>4, <2>6
<1>5. Top'.fEnd = Top.fEnd
  BY <1>4 DEF Top
<1>6. Bound = Top.fBegin /\ Bound' = Top.fEnd
  BY <1>1, <1>4, <1>5 DEF Bound
<1>7. QED
  BY <1>1, <1>6, NextNeeded

\* DisableAndStartAgain: a single pen up is not tested, another range is about to be.
LEMMA DecidedDisabling ==
  ASSUME Deciding, Stack, DisableAndStartAgain
  PROVE  Decided'
<1>1. /\ UNCHANGED <<fgEvents, fLevels, fine, fgPassNumber>> /\ ~Last' /\ Clean(fgEvents)
      /\ fLevels # <<>> /\ call = "DisableAndStartAgain" /\ ~Testing /\ Bound = Top.fBegin
      /\ fgMask \in Seq(BOOLEAN) /\ Len(fgMask) \in Nat
      /\ Top.fBegin \in Nat /\ Top.fEnd \in Nat /\ Top.fBegin < Top.fEnd
      /\ Top.fEnd <= Len(fgMask)
  BY OfDeciding DEF DisableAndStartAgain, Stack, Deciding, Last, minimize, device, Testing, Bound
<1>2. CASE Size(Top) = 1 /\ fgEvents[Top.fEnd].type = "up"
  <2>1. call' = "NextSubRange" /\ UNCHANGED fgMask
    BY <1>2 DEF DisableAndStartAgain
  <2>2. Needed(Top.fEnd) /\ Size(Top) <= 1
    BY <1>2 DEF Needed
  <2>3. Bound' = Top.fEnd
    BY <1>1, <2>1 DEF Bound, Top
  <2>4. QED
    BY <1>1, <2>1, <2>2, <2>3, NextNeeded
<1>3. CASE ~(Size(Top) = 1 /\ fgEvents[Top.fEnd].type = "up")
  <2>1. call' = "StartAgain" /\ fgMask' = SetEvents(fgMask, Top.fBegin, Top.fEnd, FALSE)
    BY <1>3 DEF DisableAndStartAgain
  <2>2. Bound' = Top.fBegin
    BY <1>1, <2>1 DEF Bound, Top
  <2>3. \A i \in 1 .. Len(fgMask) :
          fgMask'[i] = IF Top.fBegin < i /\ i <= Top.fEnd THEN FALSE ELSE fgMask[i]
    <3>1. Top.fBegin \in Nat /\ Top.fEnd \in Nat
      BY <1>1
    <3>2. FALSE \in BOOLEAN /\ fgMask \in Seq(BOOLEAN)
      BY <1>1
    <3>3. QED
      BY <2>1, <3>1, <3>2, SetEventsTyped
  <2>4. \A i \in 1 .. Top.fBegin : i \in 1 .. Len(fgMask) /\ ~(Top.fBegin < i)
    BY <1>1
  <2>5. \A i \in 1 .. Top.fBegin : fgMask'[i] = fgMask[i]
    BY <2>3, <2>4
  <2>6. QED
    BY <1>1, <2>1, <2>2, <2>5, BoundStays
<1>4. QED
  BY <1>2, <1>3

\* NextSubRange: the range below begins where this one ends, and is split only if it has
\* more than one event.
LEMMA DecidedPopping ==
  ASSUME Deciding, Stack, Unchecked, NextSubRange
  PROVE  Decided'
<1> DEFINE n == Len(fLevels)
<1>1. /\ UNCHANGED <<fgEvents, fgMask, fine, fgPassNumber>> /\ ~Last'
      /\ fLevels # <<>> /\ fLevels \in Seq(Levels) /\ fLevels' = Pop
      /\ Bound = Top.fEnd
      /\ call' = IF Pop = <<>> THEN "MinimizationPassComplete"
                 ELSE IF Pop[Len(Pop)].fChecked \/ Size(Pop[Len(Pop)]) > kMaxRange
                 THEN "SplitAndStartAgain" ELSE "DisableAndStartAgain"
  BY OfDeciding DEF NextSubRange, Stack, Deciding, Last, playback, device, Bound
<1>2. n \in Nat \ {0} /\ Len(Pop) = n - 1 /\ \A i \in 1 .. n - 1 : Pop[i] = fLevels[i]
  BY <1>1, Popped
<1>3. /\ fLevels[1].fEnd = Len(fgMask)
      /\ \A i \in 1 .. n - 1 : fLevels[i].fBegin = fLevels[i + 1].fEnd
  BY <1>1 DEF Deciding, LevelsTile
<1>4. CASE Pop = <<>>
  <2>1. n = 1
    BY <1>2, <1>4
  <2>2. Top = fLevels[1]
    BY <2>1 DEF Top
  <2>3. Bound' = Bound /\ call' = "MinimizationPassComplete"
    BY <1>1, <1>3, <1>4, <2>2 DEF Bound
  <2>4. QED
    BY <1>1, <2>3, BoundStays
<1>5. CASE Pop # <<>>
  <2>0. Pop \in Seq(Levels)
    BY <1>1, Popped
  <2>1. n - 1 \in 1 .. n - 1 /\ n - 1 \in 1 .. n /\ n - 1 + 1 = n
    <3>1. Len(Pop) \in Nat \ {0}
      BY <1>5, <2>0, LenProperties, EmptySeq
    <3>2. QED
      BY <1>2, <3>1
  <2>2. Top' = fLevels[n - 1] /\ Pop[Len(Pop)] = fLevels[n - 1]
    <3>1. Top' = Pop[Len(Pop)]
      BY <1>1 DEF Top
    <3>2. QED
      BY <1>2, <2>1, <3>1
  <2>3. fLevels[n - 1].fBegin = Top.fEnd
    BY <1>3, <2>1 DEF Top
  <2>4. Bound' = Bound
    <3>1. call' \in {"SplitAndStartAgain", "DisableAndStartAgain"} /\ fLevels' # <<>>
      BY <1>1, <1>5
    <3>2. QED
      BY <1>1, <2>2, <2>3, <3>1 DEF Bound
  <2>5. Size(fLevels[n - 1]) \in Int /\ Size(fLevels[n - 1]) >= 1
    <3>1. fLevels[n - 1] \in Levels
      BY <1>1, <2>1, ElementOfSeq
    <3>2. fgMask # <<>>
      BY OfDeciding, EmptySeq DEF Deciding
    <3>3. Size(fLevels[n - 1]) >= 1
      <4> HIDE DEF n
      <4>1. n - 1 \in 1 .. Len(fLevels)
        BY <2>1 DEF n
      <4>2. QED
        BY <3>2, <4>1 DEF Deciding, TypedLevels
    <3>4. Size(fLevels[n - 1]) \in Int
      <4> HIDE DEF n
      <4>1. QED
        BY <3>1 DEF Levels, Size
    <3>5. QED
      BY <3>3, <3>4
  <2>6. call' = "SplitAndStartAgain" => ~(Size(fLevels[n - 1]) <= 1)
    <3> SUFFICES ASSUME call' = "SplitAndStartAgain", Size(fLevels[n - 1]) <= 1 PROVE FALSE
      OBVIOUS
    <3>1. kMaxRange \in Nat \ {0}
      BY RangeAssumption
    <3>2. Size(fLevels[n - 1]) = 1 /\ ~(Size(fLevels[n - 1]) > kMaxRange)
      BY <2>5, <3>1
    <3>3. fLevels[n - 1].fChecked
      BY <1>1, <1>5, <2>2, <3>2
    <3>4. QED
      BY <2>1, <3>2, <3>3 DEF Unchecked
  <2>7. Size(Top)' = Size(fLevels[n - 1])
    BY <2>2 DEF Size
  <2>8. call' = "SplitAndStartAgain" => ~(Size(Top)' <= 1)
    BY <2>6, <2>7
  <2>9. QED
    BY <1>1, <2>4, <2>8, BoundStays
<1>6. QED
  BY <1>4, <1>5

\* NoErrorOccurred: the range matters, and if it is a single event, that event is needed.
LEMMA DecidedFine ==
  ASSUME Deciding, Stack, Survived, Masked, NoErrorOccurred
  PROVE  Decided'
<1> DEFINE n == Len(fLevels)
<1>1. /\ UNCHANGED <<fgEvents, fine, fgPassNumber>> /\ ~Last /\ ~Last'
      /\ fLevels # <<>> /\ fLevels \in Seq(Levels)
      /\ fLevels' = [fLevels EXCEPT ![n].fChecked = TRUE]
      /\ fgMask' = SetEvents(fgMask, Top.fBegin, Top.fEnd, TRUE)
      /\ call = "NoErrorOccurred" /\ call' = "SplitAndStartAgain" /\ Bound = Top.fBegin
  BY OfDeciding
     DEF NoErrorOccurred, Stack, Deciding, Last, minimize, device, Bound, CurrentRange
<1>2. /\ n \in Nat \ {0} /\ n \in 1 .. n /\ fgMask \in Seq(BOOLEAN) /\ Len(fgMask) \in Nat
      /\ Top.fBegin \in Nat /\ Top.fEnd \in Nat /\ Top.fBegin < Top.fEnd
      /\ Top.fEnd <= Len(fgMask)
  BY <1>1, OfDeciding
<1>3. DOMAIN fLevels = 1 .. n /\ fLevels[n] \in Levels
  BY <1>1, <1>2, LenProperties, ElementOfSeq
<1>4. Top' = [Top EXCEPT !.fChecked = TRUE] /\ fLevels' # <<>>
  <2>1. Len(fLevels') = n /\ fLevels'[n] = [fLevels[n] EXCEPT !.fChecked = TRUE]
    <3> HIDE DEF n
    <3>1. QED
      BY <1>1, <1>2, <1>3
  <2>2. fLevels' # <<>>
    BY <1>2, <2>1
  <2>3. QED
    BY <2>1, <2>2 DEF Top
<1>5. Top'.fBegin = Top.fBegin /\ Top'.fEnd = Top.fEnd
  BY <1>3, <1>4 DEF Top, Levels
<1>6. Bound' = Bound
  BY <1>1, <1>4, <1>5 DEF Bound
<1>7. \A i \in 1 .. Bound : fgMask'[i] = fgMask[i]
  <2>1. Top.fBegin \in Nat /\ Top.fEnd \in Nat
    BY <1>2
  <2>2. TRUE \in BOOLEAN /\ fgMask \in Seq(BOOLEAN)
    BY <1>2
  <2>3. \A i \in 1 .. Len(fgMask) :
          fgMask'[i] = IF Top.fBegin < i /\ i <= Top.fEnd THEN TRUE ELSE fgMask[i]
    BY <1>1, <2>1, <2>2, SetEventsTyped
  <2>4. \A i \in 1 .. Top.fBegin : i \in 1 .. Len(fgMask) /\ ~(Top.fBegin < i)
    BY <1>2
  <2>5. QED
    BY <1>1, <2>3, <2>4
<1>8. Size(Top)' = Size(Top)
  BY <1>5 DEF Size
<1>9. Size(Top) <= 1 => Less(Bound) \/ Needed(Top.fEnd)
  <2> SUFFICES ASSUME Size(Top) <= 1, ~Less(Bound) PROVE Needed(Top.fEnd)
    OBVIOUS
  <2>1. Whole(Top.fBegin)
    BY <1>1 DEF Deciding
  <2>2. Len(fgEvents) # 0
    BY OfDeciding DEF Deciding
  <2>3. QED
    BY <1>1, <2>1, <2>2, TestedAlone DEF Deciding
<1>10. Needed(Top.fEnd) => Needed(Top.fEnd)'
  BY <1>1, <1>5 DEF Needed
<1>11. Size(Top)' <= 1 => Less(Bound) \/ Needed(Top.fEnd)'
  BY <1>8, <1>9, <1>10
<1>12. QED
  BY <1>1, <1>6, <1>7, <1>11, BoundStays

\* ErrorOccurred: the range is discarded, and one of its events is not a pen up.
LEMMA DecidedFailing ==
  ASSUME Deciding, Stack, Masked, fIndex \in Nat, ErrorOccurred
  PROVE  Decided'
<1>1. /\ UNCHANGED <<fgEvents, fine, fgPassNumber>> /\ ~Last /\ ~Last' /\ Tests
      /\ fLevels # <<>> /\ Clean(fgEvents) /\ Len(fgEvents) # 0
      /\ Top.fBegin \in Nat /\ Top.fEnd \in Nat /\ Top.fEnd <= Len(fgMask)
      /\ Len(fgMask) \in Nat /\ fgMask \in Seq(BOOLEAN)
  BY OfDeciding DEF ErrorOccurred, Stack, Deciding, Last, device, Tests
<1>2. Less(Top.fEnd)
  BY <1>1, Dropped DEF Deciding, Masked
<1>3. CASE fIndex < Len(fgMask)
  <2>1. /\ fgMask' = SetEvents(fgMask, fIndex, Len(fgMask), FALSE)
        /\ fLevels' = <<>> /\ call' = "MinimizationPassComplete"
    BY <1>3 DEF ErrorOccurred
  <2>2. FALSE \in BOOLEAN
    OBVIOUS
  <2>3. /\ Len(fgMask') = Len(fgMask)
        /\ \A i \in 1 .. Len(fgMask) :
             fgMask'[i] = IF fIndex < i /\ i <= Len(fgMask) THEN FALSE ELSE fgMask[i]
    <3> DEFINE N == Len(fgMask)
    <3>1. /\ N \in Nat /\ fIndex \in Nat /\ fgMask \in Seq(BOOLEAN)
          /\ fgMask' = SetEvents(fgMask, fIndex, N, FALSE)
      BY <1>1, <2>1
    <3> HIDE DEF N
    <3>2. /\ Len(fgMask') = Len(fgMask)
          /\ \A i \in 1 .. Len(fgMask) :
               fgMask'[i] = IF fIndex < i /\ i <= N THEN FALSE ELSE fgMask[i]
      BY <2>2, <3>1, SetEventsTyped
    <3>3. QED
      BY <3>2 DEF N
  <2>4. Bound' = Len(fgMask)
    BY <2>1, <2>3 DEF Bound
  <2>5. \A i \in 1 .. Top.fEnd : ~fgMask[i] => ~fgMask'[i]
    <3>1. \A i \in 1 .. Top.fEnd : i \in 1 .. Len(fgMask)
      BY <1>1
    <3>2. QED
      BY <2>3, <3>1
  <2>6. QED
    BY <1>1, <1>2, <2>4, <2>5, LessStays
<1>4. CASE ~(fIndex < Len(fgMask))
  <2>1. call' = "NextSubRange" /\ UNCHANGED <<fgMask, fLevels>>
    BY <1>4 DEF ErrorOccurred
  <2>2. Bound' = Top.fEnd /\ Top.fEnd <= Top.fEnd
    BY <1>1, <2>1 DEF Bound, Top
  <2>3. \A i \in 1 .. Top.fEnd : ~fgMask[i] => ~fgMask'[i]
    BY <2>1
  <2>4. QED
    BY <1>1, <1>2, <2>2, <2>3, LessStays
<1>5. QED
  BY <1>3, <1>4

\* A pass begins, and has decided nothing.
LEMMA PassBegins ==
  ASSUME Clean(fgEvents)', ~Last', call' = "InitialLevel"
  PROVE  Decided'
<1>1. Bound' = 0
  BY DEF Bound
<1>2. \A i \in 1 .. Bound' : fgMask'[i] /\ Needed(i)'
  BY <1>1
<1>3. QED
  BY <1>2 DEF Decided, Whole

\* MinimizationPassComplete: the last pass comes after one that discarded nothing and
\* decided about all events.
LEMMA DecidedPass ==
  ASSUME TypedEvents, fgPassNumber \in Nat, Stack, Decided, MinimizationPassComplete
  PROVE  Decided'
<1>1. /\ call = "MinimizationPassComplete" /\ Active /\ fLevels = <<>>
      /\ CullEvents(fgMask) /\ UNCHANGED fine /\ Clean(fgEvents)
  BY DEF MinimizationPassComplete, Stack, device, Active, Decided
<1>2. /\ Clean(fgEvents)' /\ Len(fgEvents') \in 0 .. Len(fgEvents) /\ Len(fgMask') = Len(fgEvents')
      /\ Len(fgEvents') = Len(fgEvents) => fgEvents' = fgEvents /\ ~Less(Len(fgEvents))
      /\ Len(fgEvents) \in Nat /\ Len(fgMask) = Len(fgEvents)
  BY <1>1, CulledLess, LenProperties DEF TypedEvents
<1>3. CASE MakeAnotherPass(Len(fgMask), Len(fgMask'))
  <2>1. fgPassNumber' = fgPassNumber + 1 /\ call' = "InitialLevel"
    BY <1>3 DEF MinimizationPassComplete
  <2>2. ~Last'
    BY <2>1 DEF Last, kLastPass
  <2>3. QED
    BY <1>2, <2>1, <2>2, PassBegins
<1>4. CASE ~MakeAnotherPass(Len(fgMask), Len(fgMask'))
  <2>1. Last'
    BY <1>4 DEF MinimizationPassComplete, Last
  <2>2. fgEvents' = fgEvents /\ ~Less(Len(fgEvents))
    BY <1>2, <1>4 DEF MakeAnotherPass
  <2>3. ASSUME Len(fgEvents) >= 2
        PROVE  \A i \in 1 .. Len(fgEvents) : Needed(i)
    <3>1. CASE Last
      BY <1>1, <2>3, <3>1 DEF Decided
    <3>2. CASE ~Last
      <4>1. Bound = Len(fgEvents)
        BY <1>1, <1>2 DEF Bound
      <4>2. Whole(Len(fgEvents))
        BY <1>1, <2>2, <2>3, <3>2, <4>1 DEF Decided
      <4>3. QED
        BY <4>2 DEF Whole
    <3>3. QED
      BY <3>1, <3>2
  <2>4. Len(fgEvents') >= 2 => \A i \in 1 .. Len(fgEvents') : Needed(i)'
    BY <1>1, <2>2, <2>3 DEF Needed
  <2>5. QED
    BY <1>2, <2>1, <2>4 DEF Decided
<1>5. QED
  BY <1>3, <1>4

\* Start: the list that is left is one that the device can be given.
LEMMA DecidedStarting ==
  ASSUME TypedEvents, Stack, Start
  PROVE  Decided'
<1>1. CASE UNCHANGED minimize /\ call' = "device"
  <2>1. ~Active'
    BY <1>1 DEF Start, Stack, minimize, Active, Running
  <2>2. QED
    BY <2>1 DEF Decided
<1>2. CASE /\ \E mask : CullEvents(mask)
           /\ call' = "InitialLevel" /\ fgPassNumber' = 1
  <2>1. PICK mask : CullEvents(mask)
    BY <1>2
  <2>2. fgEvents' = Replay(fgEvents, mask) /\ Clean(Replay(fgEvents, mask))
    BY <2>1, ReplayClean DEF CullEvents, TypedEvents
  <2>3. Clean(fgEvents)'
    BY <2>2 DEF Clean
  <2>4. ~Last'
    BY <1>2 DEF Last, kLastPass
  <2>5. QED
    BY <1>2, <2>3, <2>4, PassBegins
<1>3. QED
  BY <1>1, <1>2 DEF Start

\* The device runs, the search stops, or nothing happens.
LEMMA Quiet ==
  ASSUME Stack, Ending, quirks = {}, StartAgain \/ Device \/ Stop \/ UNCHANGED vars
  PROVE  /\ UNCHANGED <<fgEvents, fgMask, fLevels, fgPassNumber>>
         /\ \A x \in fine : x \in fine'
         /\ Active' => Active
         /\ Bound' = Bound
         /\ call' = "SplitAndStartAgain" => call = "SplitAndStartAgain"
<1>1. ~Wakes /\ ~Sleeps /\ ~ReplayGetPen
  <2>1. "sleeps" \notin quirks /\ "polls" \notin quirks
    OBVIOUS
  <2>2. QED
    BY <2>1 DEF Wakes, Ending, Sleeps, Asleep, ReplayGetPen, TracksPen
<1>2. UNCHANGED <<fgEvents, fgMask, fLevels, fgPassNumber>>
  BY <1>1 DEF StartAgain, Stop, Device, RealLoadInitialState, DeviceFails, ReportError,
              ReplayGetEvent, vars, minimize, playback
<1>3. \A x \in fine : x \in fine'
  BY <1>1 DEF StartAgain, Stop, Device, RealLoadInitialState, DeviceFails, ReportError,
              ReplayGetEvent, Asks, vars, device
<1>4. CASE StartAgain
  <2>1. Active /\ call = "StartAgain" /\ call' = "device"
    BY <1>4 DEF StartAgain, Active
  <2>2. QED
    BY <1>2, <1>3, <2>1 DEF Bound, Top
<1>5. CASE Device
  <2>1. /\ call = "device" /\ call' \in {"device", "ErrorOccurred", "NoErrorOccurred"}
        /\ UNCHANGED fgIsOn
        /\ call' \in {"ErrorOccurred", "NoErrorOccurred"} => fgIsOn
    BY <1>1, <1>5 DEF Device, RealLoadInitialState, DeviceFails, ReportError, ReplayGetEvent,
                      Asks, Runs, Free, minimize
  <2>2. Active' => Active
    BY <2>1 DEF Active, Running
  <2>3. QED
    BY <1>2, <1>3, <2>1, <2>2 DEF Bound, Top
<1>6. CASE Stop \/ UNCHANGED vars
  <2>1. call' = call /\ (fgIsOn' => fgIsOn)
    BY <1>6 DEF Stop, vars, minimize
  <2>2. Active' => Active
    BY <2>1 DEF Active, Running
  <2>3. QED
    BY <1>2, <1>3, <2>1, <2>2 DEF Bound, Top
<1>7. QED
  BY <1>4, <1>5, <1>6

\* Each step keeps the account of what the pass has decided.
LEMMA DecidedKept ==
  ASSUME TypeOK, Stack, LevelsTile, quirks = {}, Survived, Masked, Ending, Unchecked, Decided,
         [Next]_vars
  PROVE  Decided'
<1>1. TypedEvents /\ TypedLevels /\ fIndex \in Nat /\ fgPassNumber \in Nat
  BY TypeParts DEF Scalars
<1> DEFINE Searches == \/ InitialLevel \/ SplitCurrentLevel \/ CannotSplit \/ DisableAndStartAgain
                       \/ NextSubRange \/ NoErrorOccurred \/ ErrorOccurred
           Quietly  == StartAgain \/ Device \/ Stop \/ UNCHANGED vars
<1>2. CASE Start
  BY <1>1, <1>2, DecidedStarting
<1>3. CASE MinimizationPassComplete
  BY <1>1, <1>3, DecidedPass
<1>4. CASE MinimizationComplete
  <2>1. ~Active'
    BY <1>4 DEF MinimizationComplete, Active, Running
  <2>2. QED
    BY <2>1 DEF Decided
<1>5. CASE Reset
  BY <1>5 DEF Reset
<1>6. CASE Searches \/ Quietly
  <2> SUFFICES ASSUME Active' PROVE Decided'
    BY DEF Decided
  <2>1. /\ Active /\ UNCHANGED <<fgEvents, fgPassNumber>> /\ \A x \in fine : x \in fine'
    <3>1. CASE Searches
      BY <3>1 DEF InitialLevel, SplitCurrentLevel, CannotSplit, DisableAndStartAgain, NextSubRange,
                  NoErrorOccurred, ErrorOccurred, playback, minimize, device, Active
    <3>2. CASE Quietly
      BY <3>2, Quiet
    <3>3. QED
      BY <1>6, <3>1, <3>2
  <2>2. Clean(fgEvents) /\ (Last' <=> Last)
    BY <2>1 DEF Decided, Last
  <2>3. CASE Last
    BY <2>1, <2>2, <2>3, LastStays
  <2>4. CASE ~Last /\ ~(Len(fgEvents) >= 2)
    <3>1. Clean(fgEvents)'
      BY <2>1, <2>2 DEF Clean
    <3>2. QED
      BY <2>1, <2>4, <3>1 DEF Decided
  <2>5. CASE ~Last /\ Len(fgEvents) >= 2
    <3>1. Deciding
      BY <1>1, <2>1, <2>2, <2>5 DEF Deciding, Decided
    <3>2. call = "SplitAndStartAgain" /\ Size(Top) <= 1 => Less(Bound) \/ Needed(Top.fEnd)
      BY <2>1, <2>5 DEF Decided
    <3>3. CASE CannotSplit
      <4>1. Less(Bound) \/ Needed(Top.fEnd)
        BY <3>2, <3>3 DEF CannotSplit
      <4>2. QED
        BY <3>1, <3>3, <4>1, DecidedSingle
    <3>4. CASE Quietly
      <4>1. /\ UNCHANGED <<fgMask, fLevels>> /\ Bound' = Bound
            /\ call' = "SplitAndStartAgain" => call = "SplitAndStartAgain"
        BY <3>4, Quiet
      <4>2. Size(Top)' = Size(Top) /\ (Needed(Top.fEnd) => Needed(Top.fEnd)')
        BY <2>1, <4>1 DEF Size, Top, Needed
      <4>3. QED
        BY <2>1, <2>2, <2>5, <3>1, <3>2, <4>1, <4>2, BoundStays
    <3>5. QED
      BY <1>1, <1>6, <3>1, <3>3, <3>4, DecidedInitially, DecidedSplitting, DecidedDisabling,
         DecidedPopping, DecidedFine, DecidedFailing
  <2>6. QED
    BY <2>3, <2>4, <2>5
<1>7. QED
  BY <1>2, <1>3, <1>4, <1>5, <1>6 DEF Next, Minimization

-----------------------------------------------------------------------------
(* The list that is saved. *)

\* MinimizationComplete enables the error event that it adds: of the events before it, the
\* list without one of them replays as it did while it was searched for.
LEMMA SavedWithout ==
  ASSUME TypedEvents, \A i \in 1 .. Len(fgMask) : fgMask[i], NEW k, k \in 1 .. Len(fgEvents)
  PROVE  Replay(fgEvents, SetEvents(Append(fgMask, TRUE), k - 1, k, FALSE))
           = Replay(fgEvents, SetEvents(AllEnabled(fgEvents), k - 1, k, FALSE))
<1> DEFINE mask == Append(fgMask, TRUE)
           b    == k - 1
           N    == Len(fgEvents)
           d    == AllEnabled(fgEvents)
<1>1. /\ mask \in Seq(BOOLEAN) /\ Len(mask) = N + 1 /\ N \in Nat
      /\ \A i \in 1 .. N : mask[i] = fgMask[i]
  <2>1. fgMask \in Seq(BOOLEAN) /\ TRUE \in BOOLEAN /\ Len(fgMask) = N /\ N \in Nat
    BY LenProperties DEF TypedEvents
  <2> HIDE DEF N
  <2>2. QED
    BY <2>1, AppendProperties
<1>2. \A i \in 1 .. N : mask[i] \in BOOLEAN /\ mask[i]
  <2>1. \A i \in 1 .. N : fgMask[i] \in BOOLEAN /\ fgMask[i]
    BY ElementOfSeq DEF TypedEvents
  <2>2. QED
    BY <1>1, <2>1
<1>3. b \in Nat /\ k \in Nat /\ FALSE \in BOOLEAN /\ \A i \in 1 .. N : (b < i /\ i <= k) <=> i = k
  BY <1>1
<1>4. \A i \in 1 .. Len(mask) : SetEvents(mask, b, k, FALSE)[i] = IF b < i /\ i <= k THEN FALSE ELSE mask[i]
  <2> HIDE DEF mask, b
  <2>1. QED
    BY <1>1, <1>3, SetEventsTyped
<1>5. \A i \in 1 .. N : SetEvents(d, b, k, FALSE)[i] \in BOOLEAN /\ (SetEvents(d, b, k, FALSE)[i] <=> i # k)
  BY AllButOne DEF TypedEvents
<1> HIDE DEF mask, b, N, d
<1>6. \A i \in 1 .. N : i \in 1 .. Len(mask)
  BY <1>1
<1>7. \A i \in 1 .. N : SetEvents(mask, b, k, FALSE)[i] = SetEvents(d, b, k, FALSE)[i]
  BY <1>2, <1>3, <1>4, <1>5, <1>6
<1>8. Replay(fgEvents, SetEvents(mask, b, k, FALSE)) = Replay(fgEvents, SetEvents(d, b, k, FALSE))
  BY <1>7, SameReplay DEF TypedEvents, N
<1>9. QED
  BY <1>8 DEF mask, b, d

\* MinimizationComplete saves what the last pass replayed whole.
LEMMA SavedMinimal ==
  ASSUME TypedEvents, Ending, Decided, MinimizationComplete
  PROVE  Minimal'
<1> DEFINE N    == Len(fgEvents)
           last == [number |-> 0, type |-> "error"]
<1>1. /\ Last /\ Active /\ \A i \in 1 .. Len(fgMask) : fgMask[i]
      /\ fgDiscardedNumberOfEvents = fgInitialNumberOfEvents - N
      /\ fgEvents' = Append(fgEvents, last) /\ fgMask' = Append(fgMask, TRUE)
      /\ UNCHANGED <<fine, fgDiscardedNumberOfEvents, fgInitialNumberOfEvents>>
  BY DEF MinimizationComplete, Ending, Active, counts, device
<1>2. last \in Events
  BY DEF Events, Types
<1>3. /\ Len(fgEvents') - 1 = N /\ N \in Nat /\ SubSeq(fgEvents', 1, N) = fgEvents
      /\ \A i \in 1 .. N : fgEvents'[i] = fgEvents[i]
      /\ Len(fgEvents') = N + 1
  <2>1. /\ Len(Append(fgEvents, last)) - 1 = N /\ N \in Nat
        /\ SubSeq(Append(fgEvents, last), 1, N) = SubSeq(fgEvents, 1, N)
        /\ SubSeq(fgEvents, 1, N) = fgEvents
    <3>1. N \in Nat /\ N \in 0 .. N
      BY LenProperties DEF TypedEvents
    <3> HIDE DEF last
    <3>2. QED
      BY <1>2, <3>1, Beginnings DEF TypedEvents
  <2>2. /\ \A i \in 1 .. N : Append(fgEvents, last)[i] = fgEvents[i]
        /\ Len(Append(fgEvents, last)) = N + 1
    BY <1>2, AppendProperties DEF TypedEvents
  <2>3. QED
    BY <1>1, <2>1, <2>2
<1> HIDE DEF N, last
<1>4. ASSUME Len(fgEvents') > 2, NEW i \in 1 .. N, fgEvents'[i].type # "up"
      PROVE  Replay(SubSeq(fgEvents', 1, N), SetEvents(fgMask', i - 1, i, FALSE)) \in fine'
  <2>1. Len(fgEvents) >= 2
    BY <1>3, <1>4 DEF N
  <2>2. Needed(i)
    BY <1>1, <2>1 DEF Decided, N
  <2>3. Replay(fgEvents, SetEvents(AllEnabled(fgEvents), i - 1, i, FALSE)) \in fine
    BY <1>3, <1>4, <2>2 DEF Needed
  <2>4. Replay(fgEvents, SetEvents(Append(fgMask, TRUE), i - 1, i, FALSE)) \in fine
    BY <1>1, <2>3, SavedWithout DEF N
  <2>5. QED
    BY <1>1, <1>3, <2>4
<1>5. fgDiscardedNumberOfEvents' = fgInitialNumberOfEvents' - (Len(fgEvents') - 1)
  BY <1>1, <1>3
<1>6. QED
  BY <1>3, <1>4, <1>5 DEF Minimal

\* Nothing touches the list once it is saved.
LEMMA MinimalKept ==
  ASSUME TypedEvents, quirks = {}, Ending, Decided, Minimal, [Next]_vars
  PROVE  Minimal'
<1>1. CASE MinimizationComplete
  BY <1>1, SavedMinimal
<1>2. CASE ~MinimizationComplete
  <2>1. UNCHANGED saved
    BY <1>2 DEF Next, Minimization, Device, Start, Stop, Reset, InitialLevel, SplitCurrentLevel,
         CannotSplit, DisableAndStartAgain, StartAgain, NextSubRange, MinimizationPassComplete,
         NoErrorOccurred, ErrorOccurred, RealLoadInitialState, DeviceFails, ReportError,
         ReplayGetEvent, ReplayGetPen, Sleeps, Wakes, vars, ui
  <2> SUFFICES ASSUME saved PROVE Minimal'
    BY <2>1 DEF Minimal
  <2>2. call = "device" /\ ~fgIsOn
    BY DEF Ending
  <2>3. UNCHANGED <<fgEvents, fgMask, counts>> /\ \A x \in fine : x \in fine'
    BY <1>2, <2>2
       DEF Next, Minimization, Device, Start, Stop, Reset, InitialLevel, SplitCurrentLevel,
         CannotSplit, DisableAndStartAgain, StartAgain, NextSubRange, MinimizationPassComplete,
         NoErrorOccurred, ErrorOccurred, RealLoadInitialState, DeviceFails, ReportError, Asks,
         ReplayGetEvent, ReplayGetPen, Sleeps, Wakes, vars, playback, minimize, device
  <2>4. QED
    BY <2>3 DEF Minimal, counts
<1>3. QED
  BY <1>1, <1>2

\* What the recording did to the device is a list of events.
LEMMA RecordedTyped ==
  ASSUME NEW events \in Seq(Events)
  PROVE  Recorded(events) \in Seq(Events)
<1> DEFINE errors == {i \in 1 .. Len(events) : events[i].type = "error"}
           first  == CHOOSE i \in errors : \A j \in errors : i <= j
<1>1. CASE errors = {}
  BY <1>1, EmptySeq DEF Recorded
<1>2. CASE errors # {}
  <2>1. Len(events) \in Nat /\ errors \in SUBSET Nat /\ errors \in SUBSET (1 .. Len(events))
    BY LenProperties
  <2>2. first \in errors
    <3>1. \E i \in errors : \A j \in errors : i <= j
      <4> HIDE DEF errors
      <4>1. QED
        BY <1>2, <2>1, Least
    <3> HIDE DEF errors
    <3>2. QED
      BY <3>1
  <2> DEFINE head == SubSeq(events, 1, first - 1)
  <2>3. Recorded(events) = Replay(head, AllEnabled(events))
    BY <1>2 DEF Recorded
  <2> HIDE DEF first, errors
  <2>4. first - 1 \in Int /\ \A i \in 1 .. first - 1 : i \in 1 .. Len(events)
    BY <2>1, <2>2
  <2>5. \A i \in 1 .. first - 1 : events[i] \in Events
    BY <2>4, ElementOfSeq
  <2>6. head \in Seq(Events)
    BY <2>4, <2>5, SubSeqProperties
  <2> HIDE DEF head
  <2>7. QED
    BY <2>3, <2>6, ReplayTyped
<1>3. QED
  BY <1>1, <1>2

\* At first the device is known to fail on the recording only, and not on less of it.
LEMMA SurvivedFirst ==
  ASSUME Init, quirks = {}
  PROVE  Survived
<1> DEFINE t == Recorded(fgEvents)
<1>1. /\ call = "idle" /\ fatal = {t} /\ fine = {SubSeq(t, 1, n) : n \in 0 .. Len(t) - 1}
  BY DEF Init
<1>2. t \in Seq(Events) /\ Len(t) \in Nat
  <2>1. fgEvents \in Seq(Events)
    BY Started, TypeParts DEF TypedEvents
  <2>2. t \in Seq(Events)
    BY <2>1, RecordedTyped
  <2>3. QED
    BY <2>2, LenProperties
<1> HIDE DEF t
<1>3. ASSUME NEW n \in 0 .. Len(t) - 1
      PROVE  SubSeq(t, 1, n) # t
  <2>1. n \in Int /\ 1 \in Int /\ \A i \in 1 .. n : i \in 1 .. Len(t)
    BY <1>2
  <2>2. \A i \in 1 .. n : t[i] \in Events
    BY <1>2, <2>1, ElementOfSeq
  <2>3. Len(SubSeq(t, 1, n)) = IF 1 <= n THEN n - 1 + 1 ELSE 0
    BY <2>1, <2>2, SubSeqProperties
  <2>4. Len(SubSeq(t, 1, n)) # Len(t)
    BY <1>2, <2>3
  <2>5. QED
    BY <2>4
<1>4. fatal \intersect fine = {}
  BY <1>1, <1>3
<1>5. QED
  BY <1>1, <1>4 DEF Survived, Running

\* To a device without quirks, the list that MinimizationComplete saves has no event, pen
\* ups excepted, that the device did not need to fail: each was masked out alone, and the
\* device came to the end of the replay.  NoErrorOccurred decides that event by event while
\* ErrorOccurred cuts the list short and begins anew, and none is forgotten between the
\* ranges and the passes; and the user is told how many events were discarded.
THEOREM Minimized == Spec => []Minimal
<1> DEFINE Account == quirks = {} => /\ Playing /\ Failing /\ Survived /\ Masked /\ Ending
                                     /\ Unchecked /\ Decided /\ Minimal
           IInv    == TypeOK /\ Stack /\ LevelsTile /\ Account
<1>1. Init => IInv
  <2> SUFFICES ASSUME Init, quirks = {}
               PROVE  Playing /\ Failing /\ Survived /\ Masked /\ Ending /\ Unchecked /\ Decided
                      /\ Minimal
    BY Started DEF Init, LevelsTile
  <2>1. /\ call = "idle" /\ fDeferredErrs = 0 /\ fgMask = AllEnabled(fgEvents)
        /\ fatal = {Recorded(fgEvents)} /\ fLevels = <<>> /\ ~saved
    BY DEF Init
  <2>2. Playing /\ Failing
    BY <2>1 DEF Playing, Failing, Running
  <2>3. Survived
    BY SurvivedFirst
  <2>4. Len(fLevels) <= 1 /\ 1 .. Len(fLevels) - 1 = {}
    BY <2>1
  <2>5. ~Tests /\ ~Active
    BY <2>1 DEF Tests, Active, Running
  <2>6. Masked /\ Unchecked /\ Decided /\ Minimal
    BY <2>1, <2>4, <2>5 DEF Masked, Unchecked, Decided, Minimal
  <2>7. Ending
    BY <2>1, <2>4 DEF Ending
  <2>8. QED
    BY <2>2, <2>3, <2>6, <2>7
<1>2. IInv /\ [Next]_vars => IInv'
  <2> SUFFICES ASSUME IInv, [Next]_vars PROVE IInv'
    OBVIOUS
  <2>1. TypeOK' /\ Stack' /\ LevelsTile'
    BY TypesKept, StackKept, TilesKept
  <2>2. ASSUME quirks' = {}
        PROVE  (Playing /\ Failing /\ Survived /\ Masked /\ Ending /\ Unchecked /\ Decided
                  /\ Minimal)'
    <3>1. quirks = {} /\ Playing /\ Failing /\ Survived /\ Masked /\ Ending /\ Unchecked
          /\ Decided /\ Minimal
      BY <2>2, QuirksStay
    <3>2. Playing' /\ Failing' /\ Survived'
      BY <2>1, <3>1, PlayingKept, FailingKept, SurvivedKept
    <3>3. Masked' /\ Unchecked' /\ Decided'
      BY <3>1, MaskedKept, UncheckedKept, DecidedKept
    <3>4. Ending'
      BY <2>1, <3>1, <3>2, EndingKept
    <3>5. Minimal'
      BY <3>1, MinimalKept, TypeParts
    <3>6. QED
      BY <3>2, <3>3, <3>4, <3>5
  <2>3. QED
    BY <2>1, <2>2
<1>3. IInv => Minimal
  BY DEF Minimal
<1>4. QED
  BY <1>1, <1>2, <1>3, PTL DEF Spec
=============================================================================
