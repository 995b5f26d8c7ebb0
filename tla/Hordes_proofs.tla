---------------------------- MODULE Hordes_proofs ----------------------------
(***************************************************************************)
(* Theorems about Hordes, for every number of Gremlins and every horde.     *)
(*                                                                          *)
(* The argument for the search is that Position holds from the selection of *)
(* a Gremlin through the loading of its state and its run to the selection  *)
(* of the next: every other Gremlin that has not halted is suspended where  *)
(* the breadth-first order has left it.                                     *)
(***************************************************************************)
EXTENDS Hordes, SequenceTheorems, WellFoundedInduction, TLAPS

Size == gGremlinStopNumber - gGremlinStartNumber + 1

-----------------------------------------------------------------------------
(* The order of the Gremlins. *)

\* What the k-th proposal is: further on in the range, or round it once.
LEMMA Around ==
  ASSUME TypeOK, NEW k \in 1..Size
  PROVE  /\ Proposed(k).number \in InRange
         /\ Proposed(k).depth \in Int
         /\ gCurrentGremlin + k <= gGremlinStopNumber =>
              Proposed(k).number = gCurrentGremlin + k /\ Proposed(k).depth = gCurrentDepth
         /\ gCurrentGremlin + k > gGremlinStopNumber =>
              /\ Proposed(k).number = gCurrentGremlin + k - Size
              /\ Proposed(k).depth = IF gCurrentDepth >= 0 THEN gCurrentDepth + 1
                                                           ELSE gCurrentDepth
<1> DEFINE i == gCurrentGremlin - gGremlinStartNumber + k
<1>1. /\ gGremlinStartNumber \in Int /\ gGremlinStopNumber \in Int
      /\ gCurrentGremlin \in Int /\ gCurrentDepth \in Int
      /\ gGremlinStartNumber <= gCurrentGremlin /\ gCurrentGremlin <= gGremlinStopNumber
  BY DEF TypeOK, Numbers
<1>2. Size \in Nat \ {0} /\ k \in Nat /\ i \in Nat /\ i < Size + Size
  BY <1>1 DEF Size
<1>3. \A a, b \in Nat : b > 0 /\ a < b => a % b = a /\ a \div b = 0
  OBVIOUS
<1>4. \A a, b \in Nat : b > 0 /\ b <= a /\ a < b + b => a % b = a - b /\ a \div b = 1
  OBVIOUS
<1>5. Proposed(k).number = gGremlinStartNumber + (i % Size)
  BY DEF Proposed, Size
<1>6. Proposed(k).depth = IF gCurrentDepth >= 0 THEN gCurrentDepth + (i \div Size)
                                                ELSE gCurrentDepth
  BY DEF Proposed, Size
<1>7. CASE gCurrentGremlin + k <= gGremlinStopNumber
  <2>1. i < Size
    BY <1>1, <1>2, <1>7 DEF Size
  <2>2. i % Size = i /\ i \div Size = 0
    BY <2>1, <1>2, <1>3
  <2>3. Proposed(k).number = gCurrentGremlin + k /\ Proposed(k).depth = gCurrentDepth
    BY <2>2, <1>1, <1>2, <1>5, <1>6
  <2>4. QED
    BY <2>3, <1>1, <1>2, <1>7 DEF InRange
<1>8. CASE gCurrentGremlin + k > gGremlinStopNumber
  <2>1. Size <= i
    BY <1>1, <1>2, <1>8 DEF Size
  <2>2. i % Size = i - Size /\ i \div Size = 1
    BY <2>1, <1>2, <1>4
  <2>3. Proposed(k).number = gCurrentGremlin + k - Size
    BY <2>2, <1>1, <1>2, <1>5
  <2>4. Proposed(k).depth = IF gCurrentDepth >= 0 THEN gCurrentDepth + 1 ELSE gCurrentDepth
    BY <2>2, <1>6
  <2>5. QED
    BY <2>3, <2>4, <1>1, <1>2, <1>8 DEF InRange, Size
<1>9. QED
  BY <1>1, <1>2, <1>7, <1>8

LEMMA RangeTyped == TypeOK => InRange \subseteq Numbers
BY ConstantsAssumption DEF TypeOK, InRange, Numbers, ConstantsAssumption

\* What NextGremlin does: the first proposal that has not halted, or the end.
LEMMA Chosen ==
  ASSUME TypeOK, NEW haltedNow, NextGremlin(haltedNow)
  PROVE  /\ gIsOn' = FALSE
         /\ \/ /\ \A k \in 1..Size : Proposed(k).number \in haltedNow
               /\ UNCHANGED <<gCurrentGremlin, gCurrentDepth>>
               /\ hung' = (gCurrentDepth < 0)
               /\ IF hung' THEN UNCHANGED <<ended, fgEvents, pending>> ELSE EndHordes
            \/ \E k \in 1..Size :
                 /\ Proposed(k).number \notin haltedNow
                 /\ \A j \in 1..Size : j < k => Proposed(j).number \in haltedNow
                 /\ gCurrentGremlin' = Proposed(k).number
                 /\ gCurrentDepth' = Proposed(k).depth
                 /\ hung' = hung
                 /\ IF PastMaxDepth(Proposed(k).depth) THEN EndHordes
                    ELSE /\ pending' = {IF Proposed(k).depth = 0 THEN "nextFromRootState"
                                                            ELSE "nextFromSuspendState"}
                         /\ UNCHANGED <<ended, fgEvents>>
<1> DEFINE Able == {k \in 1..Size : Proposed(k).number \notin haltedNow}
           k    == CHOOSE k \in Able : \A j \in Able : k <= j
<1>1. Size \in Nat
  BY DEF TypeOK, Numbers, Size
<1>2. CASE Able = {}
  BY <1>2 DEF NextGremlin, Size
<1>3. CASE Able # {}
  <2>1. \E x \in Able : \A j \in Able : x <= j
    <3>1. Able \subseteq Nat
      BY <1>1
    <3> HIDE DEF Able
    <3>2. PICK x \in Able : \A j \in Able : ~(<<j, x>> \in OpToRel(<, Nat))
      BY <3>1, <1>3, WFMin, NatLessThanWellFounded
    <3>3. \A j \in Able : ~(j < x)
      BY <3>1, <3>2 DEF OpToRel
    <3>4. QED
      BY <3>1, <3>3
  <2>2. k \in Able /\ \A j \in Able : k <= j
    BY <2>1
  <2>3. /\ gIsOn' = FALSE
        /\ gCurrentGremlin' = Proposed(k).number /\ gCurrentDepth' = Proposed(k).depth
        /\ hung' = hung
        /\ IF PastMaxDepth(Proposed(k).depth) THEN EndHordes
           ELSE /\ pending' = {IF Proposed(k).depth = 0 THEN "nextFromRootState"
                                                   ELSE "nextFromSuspendState"}
                /\ UNCHANGED <<ended, fgEvents>>
    BY <1>3 DEF NextGremlin, Size
  <2>4. k \in 1..Size /\ Proposed(k).number \notin haltedNow
    BY <2>2
  <2>5. \A j \in 1..Size : j < k => Proposed(j).number \in haltedNow
    <3> SUFFICES ASSUME NEW j \in 1..Size, j < k, j \in Able
                 PROVE  FALSE
      OBVIOUS
    <3>1. k <= j
      BY <2>2
    <3> HIDE DEF k
    <3>2. QED
      BY <3>1, <2>4, <1>1
  <2> HIDE DEF k
  <2>6. QED
    BY <2>3, <2>4, <2>5
<1>4. QED
  BY <1>2, <1>3

-----------------------------------------------------------------------------
(* Types. *)

LEMMA Numbered == Numbers \subseteq Int /\ \A n \in Numbers : n >= 0
BY DEF Numbers

\* What New makes of a Gremlin, and Load of a saved one.
LEMMA GremlinsTyped ==
  /\ \A n \in Numbers, switch \in Int, max \in Int : NewGremlin(n, switch, max) \in Gremlins
  /\ \A session \in Sessions : /\ session.device \in Seq(Event) /\ session.on \in BOOLEAN
                               /\ session.gremlin \in Gremlins
                               /\ Loaded(session) \in Gremlins
  /\ \A g \in Gremlins, u \in Int : [g EXCEPT !.until = u] \in Gremlins
  /\ \A g \in Gremlins, c \in Nat : [g EXCEPT !.counter = c] \in Gremlins
  /\ \A g \in Gremlins : [g EXCEPT !.inited = FALSE] \in Gremlins
<1>1. \A n \in Numbers, switch \in Int, max \in Int : NewGremlin(n, switch, max) \in Gremlins
  <2> SUFFICES ASSUME NEW n \in Numbers, NEW switch \in Int, NEW max \in Int
               PROVE  NewGremlin(n, switch, max) \in Gremlins
    OBVIOUS
  <2> DEFINE u == IF max = -1 THEN switch ELSE Smaller(switch, max)
  <2>1. u \in Int
    BY DEF Smaller
  <2>2. NewGremlin(n, switch, max) =
          [number |-> n, counter |-> 0, finalUntil |-> max, inited |-> TRUE, until |-> u]
    BY DEF NewGremlin
  <2> HIDE DEF u
  <2>3. QED
    BY <2>1, <2>2 DEF Gremlins
<1>2. \A g \in Gremlins, u \in Int : [g EXCEPT !.until = u] \in Gremlins
  BY DEF Gremlins
<1>3. \A session \in Sessions : /\ session.device \in Seq(Event) /\ session.on \in BOOLEAN
                                /\ session.gremlin \in Gremlins
  BY DEF Sessions
<1>4. \A g \in Gremlins : g.finalUntil \in Int
  BY DEF Gremlins
<1>5. \A session \in Sessions : Loaded(session) \in Gremlins
  BY <1>2, <1>3, <1>4 DEF Loaded
<1>6. \A g \in Gremlins, c \in Nat : [g EXCEPT !.counter = c] \in Gremlins
  BY DEF Gremlins
<1>7. \A g \in Gremlins : [g EXCEPT !.inited = FALSE] \in Gremlins
  BY DEF Gremlins
<1>8. QED
  BY <1>1, <1>2, <1>3, <1>5, <1>6, <1>7

\* What NextGremlin leaves in the variables that it changes.
LEMMA SearchTyped ==
  ASSUME TypeOK, NEW haltedNow, NextGremlin(haltedNow)
  PROVE  /\ gCurrentGremlin' \in InRange /\ gCurrentDepth' \in Int
         /\ {gIsOn, ended, hung}' \subseteq BOOLEAN
         /\ fgEvents' \in Seq(Event) /\ pending' \subseteq Flags
<1>1. EndHordes => ended' \in BOOLEAN /\ fgEvents' \in Seq(Event) /\ pending' \subseteq Flags
  BY DEF EndHordes, Flags
<1>2. \A k \in 1..Size : Proposed(k).number \in InRange /\ Proposed(k).depth \in Int
  BY Around
<1>3. gCurrentGremlin \in InRange /\ gCurrentDepth \in Int
  BY DEF TypeOK, InRange
<1>4. UNCHANGED <<ended, fgEvents>> => ended' \in BOOLEAN /\ fgEvents' \in Seq(Event)
  BY DEF TypeOK
<1>5. UNCHANGED pending => pending' \subseteq Flags
  BY DEF TypeOK
<1>6. hung' = hung => hung' \in BOOLEAN
  BY DEF TypeOK
<1>7. hung' = (gCurrentDepth < 0) => hung' \in BOOLEAN
  BY <1>3
<1>8. {"nextFromRootState"} \subseteq Flags /\ {"nextFromSuspendState"} \subseteq Flags
  BY DEF Flags
<1>9. gIsOn' = FALSE
  BY Chosen
<1>10. CASE /\ UNCHANGED <<gCurrentGremlin, gCurrentDepth>>
            /\ hung' = (gCurrentDepth < 0)
            /\ IF hung' THEN UNCHANGED <<ended, fgEvents, pending>> ELSE EndHordes
  BY <1>1, <1>3, <1>4, <1>5, <1>7, <1>9, <1>10
<1>11. ASSUME NEW k \in 1..Size,
              gCurrentGremlin' = Proposed(k).number, gCurrentDepth' = Proposed(k).depth,
              hung' = hung,
              IF PastMaxDepth(Proposed(k).depth) THEN EndHordes
              ELSE /\ pending' = {IF Proposed(k).depth = 0 THEN "nextFromRootState"
                                                      ELSE "nextFromSuspendState"}
                   /\ UNCHANGED <<ended, fgEvents>>
       PROVE  /\ gCurrentGremlin' \in InRange /\ gCurrentDepth' \in Int
              /\ {gIsOn, ended, hung}' \subseteq BOOLEAN
              /\ fgEvents' \in Seq(Event) /\ pending' \subseteq Flags
  <2>1. gCurrentGremlin' \in InRange /\ gCurrentDepth' \in Int
    BY <1>2, <1>11
  <2>2. ended' \in BOOLEAN /\ fgEvents' \in Seq(Event) /\ pending' \subseteq Flags
    BY <1>1, <1>4, <1>8, <1>11
  <2>3. QED
    BY <2>1, <2>2, <1>6, <1>9, <1>11
<1>12. QED
  BY Chosen, <1>10, <1>11

LEMMA EventTyped ==
  ASSUME TypeOK
  PROVE  /\ <<gTheGremlin.number, gTheGremlin.counter>> \in Event
         /\ gTheGremlin.counter + 1 \in Nat
         /\ gTheGremlin.until \in Int /\ gTheGremlin.finalUntil \in Int
         /\ gTheGremlin \in Gremlins
         /\ gCurrentGremlin \in Numbers
<1>1. gTheGremlin \in Gremlins
  BY DEF TypeOK
<1>2. gCurrentGremlin \in Numbers
  BY ConstantsAssumption DEF TypeOK, Numbers, ConstantsAssumption
<1>3. QED
  BY <1>1, <1>2 DEF Gremlins, Event

LEMMA SavedTyped ==
  ASSUME TypeOK
  PROVE  /\ SaveEvents => eventFile' \in [Numbers -> Seq(Event)]
         /\ \A on \in BOOLEAN : Session(on) \in Sessions
BY EventTyped DEF TypeOK, SaveEvents, Session, Sessions

LEMMA NewTyped ==
  ASSUME TypeOK, NEW info \in Infos, New(info)
  PROVE  TypeOK'
<1> DEFINE start  == Smaller(info.fStartNumber, info.fStopNumber)
           stop   == Larger(info.fStartNumber, info.fStopNumber)
           max    == Forever(info.fMaxDepth)
           switch == IF info.fSwitchDepth = -1 \/ start = stop
                     THEN max ELSE Forever(info.fSwitchDepth)
           first  == NewGremlin(start, switch, max)
<1>1. /\ info.fStartNumber \in Numbers /\ info.fStopNumber \in Numbers
      /\ info.fSwitchDepth \in Int /\ info.fMaxDepth \in Int
  BY ConstantsAssumption DEF ConstantsAssumption
<1>2. start \in Numbers /\ stop \in Numbers /\ start \in start..stop
  <2>1. \A a, b \in Numbers : /\ Smaller(a, b) \in {a, b} /\ Larger(a, b) \in {a, b}
                             /\ Smaller(a, b) <= Larger(a, b)
    BY Numbered DEF Smaller, Larger
  <2>2. start \in Numbers /\ stop \in Numbers /\ start <= stop
    BY <1>1, <2>1
  <2> HIDE DEF start, stop
  <2>3. QED
    BY <2>2, Numbered
<1>3. max \in Int
  BY <1>1 DEF Forever
<1>4. switch \in Int
  BY <1>1, <1>3 DEF Forever
<1>5. first \in Gremlins
  BY <1>2, <1>3, <1>4, GremlinsTyped
<1>6. /\ gGremlinStartNumber' = start /\ gGremlinStopNumber' = stop
      /\ gSwitchDepth' = switch /\ gMaxDepth' = max
      /\ gCurrentGremlin' = start /\ gCurrentDepth' = 0 /\ halted' = {}
      /\ gTheGremlin' = first /\ gIsOn' = TRUE
      /\ fgEvents' = <<>> /\ device' = <<>>
      /\ root' = [device |-> <<>>, gremlin |-> first, on |-> FALSE]
      /\ suspended' = [n \in Numbers |-> NoFile] /\ eventFile' = [n \in Numbers |-> <<>>]
      /\ news' = news + 1 /\ ended' = FALSE /\ steered' = FALSE
      /\ UNCHANGED <<pending, hung, commands>>
  BY DEF New
<1> HIDE DEF start, stop, max, switch, first
<1>7. root' \in Sessions
  BY <1>5, <1>6 DEF Sessions
<1>8. suspended' \in [Numbers -> Sessions \cup {NoFile}]
  BY <1>6
<1>9. /\ pending' \subseteq Flags /\ {gIsOn, ended, steered, hung}' \subseteq BOOLEAN
      /\ news' \in Nat /\ commands' \in Nat
  <2>1. hung' \in BOOLEAN /\ pending' \subseteq Flags
    BY <1>6 DEF TypeOK
  <2>2. gIsOn' \in BOOLEAN /\ ended' \in BOOLEAN /\ steered' \in BOOLEAN
    BY <1>6
  <2>3. news' \in Nat /\ commands' \in Nat
    BY <1>6 DEF TypeOK
  <2>4. QED
    BY <2>1, <2>2, <2>3
<1>10. eventFile' \in [Numbers -> Seq(Event)]
  <2>1. <<>> \in Seq(Event)
    OBVIOUS
  <2>2. QED
    BY <1>6, <2>1
<1>11. QED
  BY <1>2, <1>3, <1>4, <1>5, <1>6, <1>7, <1>8, <1>9, <1>10 DEF TypeOK

LEMMA RunTyped ==
  ASSUME TypeOK,
         StopEventReached \/ PostFakeEvent \/ PostFakePenEvent \/ ErrorEncountered
         \/ EnterDebugger
  PROVE  TypeOK'
<1> USE DEF range, depths, search, gremlin, files, user
<1>1. CASE StopEventReached
  <2>1. eventFile' \in [Numbers -> Seq(Event)]
    BY <1>1, SavedTyped DEF StopEventReached
  <2>2. NextGremlin(halted)
    BY <1>1 DEF StopEventReached
  <2>3. QED
    BY <1>1, <2>1, <2>2, SearchTyped DEF StopEventReached, TypeOK, InRange
<1>2. ASSUME PostEvent PROVE TypeOK'
  <2>1. fgEvents' \in Seq(Event) /\ device' \in Seq(Event)
    BY <1>2, EventTyped DEF PostEvent, TypeOK
  <2>2. gTheGremlin' \in Gremlins
    BY <1>2, EventTyped, GremlinsTyped DEF PostEvent
  <2>3. pending' \subseteq Flags
    BY <1>2 DEF PostEvent, Flags
  <2>4. QED
    BY <1>2, <2>1, <2>2, <2>3 DEF PostEvent, TypeOK
<1>3. CASE PostFakeEvent
  <2>1. CASE PostEvent
    BY <1>2, <2>1
  <2>2. CASE /\ gTheGremlin' = [gTheGremlin EXCEPT !.counter = @ + 1]
             /\ UNCHANGED <<range, depths, search, gIsOn, fgEvents, device, pending, files,
                            ended, hung, user>>
    <3>1. gTheGremlin' \in Gremlins
      BY <2>2, EventTyped, GremlinsTyped
    <3>2. QED
      BY <2>2, <3>1 DEF TypeOK
  <2>3. QED
    BY <1>3, <2>1, <2>2 DEF PostFakeEvent
<1>4. CASE PostFakePenEvent
  BY <1>2, <1>4 DEF PostFakePenEvent
<1>5. CASE ErrorEncountered
  <2>1. eventFile' \in [Numbers -> Seq(Event)]
    BY <1>5, SavedTyped DEF ErrorEncountered
  <2>2. NextGremlin(halted')
    BY <1>5 DEF ErrorEncountered
  <2>3. halted' \subseteq Numbers
    BY <1>5, EventTyped DEF ErrorEncountered, TypeOK
  <2>4. QED
    BY <1>5, <2>1, <2>2, <2>3, SearchTyped DEF ErrorEncountered, TypeOK, InRange
<1>6. CASE EnterDebugger
  <2>1. eventFile' \in [Numbers -> Seq(Event)]
    BY <1>6, SavedTyped DEF EnterDebugger
  <2>2. QED
    BY <1>6, <2>1 DEF EnterDebugger, TypeOK
<1>7. QED
  BY <1>1, <1>3, <1>4, <1>5, <1>6

LEMMA SpecialTyped ==
  ASSUME TypeOK, ExecuteSpecial
  PROVE  TypeOK'
<1> USE DEF range, depths, search, gremlin, files, user
<1>0. /\ root # NoFile => root \in Sessions
      /\ suspended[gCurrentGremlin] # NoFile => suspended[gCurrentGremlin] \in Sessions
  BY EventTyped DEF TypeOK
<1>1. CASE SaveSuspendedState
  <2>1. eventFile' \in [Numbers -> Seq(Event)]
    BY <1>1, SavedTyped DEF SaveSuspendedState
  <2>2. suspended' \in [Numbers -> Sessions \cup {NoFile}]
    <3>1. Session(gIsOn) \in Sessions
      BY SavedTyped DEF TypeOK
    <3>2. QED
      BY <1>1, <3>1 DEF SaveSuspendedState, TypeOK
  <2>3. QED
    BY <1>1, <2>1, <2>2 DEF SaveSuspendedState, TypeOK
<1>2. CASE LoadRootState
  <2>1. /\ gTheGremlin' \in Gremlins /\ device' \in Seq(Event) /\ gIsOn' \in BOOLEAN
        /\ fgEvents' \in Seq(Event)
    BY <1>2, <1>0, GremlinsTyped DEF LoadRootState
  <2>2. QED
    BY <1>2, <2>1 DEF LoadRootState, TypeOK
<1>3. CASE LoadStateFails
  BY <1>3 DEF LoadStateFails, LoadFails, TypeOK
<1>4. CASE NextGremlinFromRootState
  <2>1. gTheGremlin' \in Gremlins
    BY <1>4, EventTyped, GremlinsTyped DEF NextGremlinFromRootState, TypeOK
  <2>2. device' \in Seq(Event) /\ fgEvents' \in Seq(Event)
    BY <1>4, <1>0, GremlinsTyped DEF NextGremlinFromRootState
  <2>3. QED
    BY <1>4, <2>1, <2>2 DEF NextGremlinFromRootState, TypeOK
<1>5. CASE NextGremlinFromSuspendState
  <2> DEFINE until == gSwitchDepth * (gCurrentDepth + 1)
             limit == IF gMaxDepth = -1 THEN until ELSE Smaller(until, gMaxDepth)
  <2>1. limit \in Int
    BY DEF TypeOK, Smaller
  <2>2. suspended[gCurrentGremlin] \in Sessions
    BY <1>5, <1>0 DEF NextGremlinFromSuspendState
  <2>3. gTheGremlin' = [Loaded(suspended[gCurrentGremlin]) EXCEPT !.until = limit]
    BY <1>5 DEF NextGremlinFromSuspendState
  <2> HIDE DEF limit
  <2>4. gTheGremlin' \in Gremlins
    BY <2>1, <2>2, <2>3, GremlinsTyped
  <2>5. device' \in Seq(Event) /\ fgEvents' \in Seq(Event)
    BY <1>5, <2>2, GremlinsTyped, EventTyped DEF NextGremlinFromSuspendState, TypeOK
  <2>6. QED
    BY <1>5, <2>4, <2>5 DEF NextGremlinFromSuspendState, TypeOK
<1>6. QED
  BY <1>1, <1>2, <1>3, <1>4, <1>5 DEF ExecuteSpecial

LEMMA UserTyped ==
  ASSUME TypeOK, Stop \/ Resume \/ Step \/ Reset
  PROVE  TypeOK'
<1> USE DEF range, depths, search, gremlin, files, user, Command
<1>1. CASE Stop
  <2>1. gIsOn' \in BOOLEAN
    BY <1>1 DEF Stop
  <2>2. commands' \in Nat
    BY <1>1 DEF Stop, TypeOK
  <2>3. QED
    BY <1>1, <2>1, <2>2 DEF Stop, TypeOK
<1>2. CASE Resume
  <2>1. gTheGremlin' \in Gremlins
    BY <1>2, EventTyped, GremlinsTyped DEF Resume
  <2>2. QED
    BY <1>2, <2>1 DEF Resume, TypeOK
<1>3. CASE Step
  <2>1. gTheGremlin' \in Gremlins
    BY <1>3, EventTyped, GremlinsTyped DEF Step
  <2>2. gCurrentGremlin \in Numbers /\ gCurrentGremlin \in gCurrentGremlin..gCurrentGremlin
    BY EventTyped, Numbered
  <2>3. gIsOn' \in BOOLEAN /\ steered' \in BOOLEAN
    BY <1>3 DEF Step
  <2>4. /\ {gGremlinStartNumber, gGremlinStopNumber}' \subseteq Numbers
        /\ gCurrentGremlin' \in (gGremlinStartNumber..gGremlinStopNumber)'
        /\ gCurrentDepth' \in Int
    BY <1>3, <2>2 DEF Step, TypeOK
  <2>5. commands' \in Nat /\ news' \in Nat
    BY <1>3 DEF Step, TypeOK
  <2>6. QED
    BY <1>3, <2>1, <2>3, <2>4, <2>5 DEF Step, TypeOK
<1>4. CASE Reset
  <2>1. gTheGremlin' \in Gremlins
    BY <1>4, EventTyped, GremlinsTyped DEF Reset
  <2>2. eventFile' \in [Numbers -> Seq(Event)]
    BY <1>4, SavedTyped DEF Reset, TypeOK
  <2>3. device' \in Seq(Event)
    BY <1>4 DEF Reset
  <2>4. gIsOn' \in BOOLEAN /\ UNCHANGED <<range, depths, search, fgEvents, pending, root,
                                         suspended, ended, hung, steered, news>>
    BY <1>4 DEF Reset
  <2>5. commands' \in Nat
    BY <1>4 DEF Reset, TypeOK
  <2>6. QED
    BY <2>1, <2>2, <2>3, <2>4, <2>5 DEF TypeOK
<1>5. QED
  BY <1>1, <1>2, <1>3, <1>4

LEMMA TypesStart == Init => TypeOK
<1> SUFFICES ASSUME Init PROVE TypeOK
  OBVIOUS
<1>1. 0 \in Numbers
  BY ConstantsAssumption DEF ConstantsAssumption, Numbers
<1>2. gTheGremlin \in Gremlins
  BY <1>1 DEF Init, Gremlins
<1>3. eventFile \in [Numbers -> Seq(Event)] /\ fgEvents \in Seq(Event) /\ device \in Seq(Event)
  <2>1. <<>> \in Seq(Event)
    OBVIOUS
  <2>2. QED
    BY <2>1 DEF Init
<1>4. suspended \in [Numbers -> Sessions \cup {NoFile}] /\ root \in Sessions \cup {NoFile}
  BY DEF Init
<1>5. gIsOn \in BOOLEAN /\ ended \in BOOLEAN /\ steered \in BOOLEAN /\ hung \in BOOLEAN
  BY DEF Init
<1>6. QED
  BY <1>1, <1>2, <1>3, <1>4, <1>5 DEF Init, TypeOK

LEMMA TypesKept ==
  ASSUME TypeOK, [Next]_vars
  PROVE  TypeOK'
<1>1. CASE UNCHANGED vars
  BY <1>1 DEF vars, range, depths, search, gremlin, files, user, TypeOK
<1>2. CASE Next
  BY <1>2, NewTyped, RunTyped, SpecialTyped, UserTyped DEF Next
<1>3. QED
  BY <1>1, <1>2

\* The variables of Hordes.cpp and Gremlins.cpp have their types: NextGremlin proposes
\* only Gremlins of the range, and ends its search where it finds one.
THEOREM Typing == Spec => []TypeOK
BY TypesStart, TypesKept, PTL DEF Spec

-----------------------------------------------------------------------------
(* What may be pending when. *)

\* Before the first horde the Gremlin is off and nothing is pending.  The root state
\* has a fresh device and no Gremlin on it.  One step is pending at a time, and only
\* that of saving leaves the Gremlin on.  A horde that has ended is not resumed.
Modes ==
  /\ root # NoFile => root.device = <<>> /\ root.on = FALSE
  /\ \/ ~gIsOn /\ pending = {} /\ ~gTheGremlin.inited /\ ~ended
     \/ /\ gSwitchDepth = -1 \/ gSwitchDepth >= 1
        /\ gMaxDepth = -1 \/ gMaxDepth >= 1
  /\ "saveSuspendState" \in pending => gIsOn
  /\ gIsOn => pending \subseteq {"saveSuspendState"}
  /\ \A f, g \in pending : f = g
  /\ ~steered => gCurrentDepth >= 0
  /\ ended /\ ~steered => ~gIsOn /\ pending \subseteq {"loadRootState"}

LEMMA ModesKept ==
  ASSUME TypeOK, Modes, [Next]_vars
  PROVE  Modes'
<1> USE DEF range, depths, search, gremlin, files, user
<1>0. gIsOn \in BOOLEAN /\ ended \in BOOLEAN /\ steered \in BOOLEAN
  BY DEF TypeOK
<1>1. ASSUME NEW info \in Infos, New(info) PROVE Modes'
  <2>1. \A depth \in Nat \cup {-1} : Forever(depth) = -1 \/ Forever(depth) >= 1
    BY DEF Forever
  <2>2. /\ gSwitchDepth' = -1 \/ gSwitchDepth' >= 1
        /\ gMaxDepth' = -1 \/ gMaxDepth' >= 1
    BY <1>1, <2>1, ConstantsAssumption DEF New, ConstantsAssumption
  <2>3. root'.device = <<>> /\ root'.on = FALSE
    BY <1>1 DEF New
  <2>4. pending' = {} /\ ended' = FALSE /\ gCurrentDepth' = 0
    BY <1>1 DEF New
  <2>5. QED
    BY <2>2, <2>3, <2>4 DEF Modes
\* A Gremlin ends its turn.
<1>2. ASSUME NEW haltedNow, NextGremlin(haltedNow), Running, UNCHANGED <<depths, root, steered>>
      PROVE  Modes'
  <2>1. pending = {} /\ gIsOn /\ gIsOn' = FALSE
    BY <1>2 DEF Running, NextGremlin
  <2>2. /\ gSwitchDepth' = -1 \/ gSwitchDepth' >= 1
        /\ gMaxDepth' = -1 \/ gMaxDepth' >= 1
    BY <1>2, <2>1 DEF Modes
  <2>3. EndHordes => pending' \subseteq {"loadRootState"}
    BY DEF EndHordes
  <2>4. "saveSuspendState" \notin pending' /\ \A f, g \in pending' : f = g
    <3>1. pending' = {} \/ pending' = {"loadRootState"} \/ pending' = {"nextFromRootState"}
          \/ pending' = {"nextFromSuspendState"}
      BY <1>2, <2>1, Chosen DEF EndHordes
    <3>2. QED
      BY <3>1
  <2>5. ended' /\ ~steered' => pending' \subseteq {"loadRootState"}
    BY <1>0, <1>2, <2>1, <2>3, Chosen DEF Modes
  <2>6. gCurrentDepth >= 0 => gCurrentDepth' >= 0
    <3>1. \A k \in 1..Size : gCurrentDepth >= 0 => Proposed(k).depth >= 0
      <4> SUFFICES ASSUME NEW k \in 1..Size, gCurrentDepth >= 0
                   PROVE  Proposed(k).depth >= 0
        OBVIOUS
      <4>1. gCurrentDepth \in Int /\ k \in Int /\ gCurrentGremlin \in Int
            /\ gGremlinStopNumber \in Int
        BY DEF TypeOK, Size, Numbers
      <4>2. Proposed(k).depth = gCurrentDepth \/ Proposed(k).depth = gCurrentDepth + 1
        BY <4>1, Around
      <4>3. QED
        BY <4>1, <4>2
    <3>2. QED
      BY <1>2, <3>1, Chosen
  <2>7. QED
    BY <1>2, <2>1, <2>2, <2>4, <2>5, <2>6 DEF Modes
<1>3. CASE StopEventReached
  BY <1>2, <1>3 DEF StopEventReached
<1>4. CASE ErrorEncountered
  BY <1>2, <1>4 DEF ErrorEncountered
<1>5. ASSUME PostEvent, Running PROVE Modes'
  <2>1. pending' \subseteq {"saveSuspendState"} /\ gIsOn' /\ ended' = ended
    BY <1>5 DEF PostEvent, Running
  <2>2. UNCHANGED <<range, depths, search, root, steered>>
    BY <1>5 DEF PostEvent
  <2>3. ~(ended' /\ ~steered')
    BY <1>5, <2>1, <2>2 DEF Modes, Running
  <2>4. QED
    BY <1>5, <2>1, <2>2, <2>3 DEF Modes, Running
<1>6. CASE PostFakePenEvent
  BY <1>5, <1>6 DEF PostFakePenEvent
<1>7. CASE PostFakeEvent
  <2>1. CASE PostEvent
    BY <1>5, <1>7, <2>1 DEF PostFakeEvent
  <2>2. CASE /\ gTheGremlin' = [gTheGremlin EXCEPT !.counter = @ + 1]
             /\ UNCHANGED <<range, depths, search, gIsOn, fgEvents, device, pending, files,
                            ended, hung, user>>
    BY <1>7, <2>2 DEF PostFakeEvent, Running, Modes
  <2>3. QED
    BY <1>7, <2>1, <2>2 DEF PostFakeEvent
<1>8. CASE EnterDebugger
  BY <1>8 DEF EnterDebugger, Running, Modes
<1>9. CASE SaveSuspendedState
  BY <1>9 DEF SaveSuspendedState, Modes
<1>10. CASE LoadRootState
  <2>1. pending' = {} /\ gIsOn' = FALSE
    BY <1>10 DEF LoadRootState, Modes
  <2>2. QED
    BY <1>10, <2>1 DEF LoadRootState, Modes
<1>11. ASSUME NEW flag \in Flags, NEW file, LoadFails(flag, file), flag # "saveSuspendState"
       PROVE  Modes'
  <2>1. pending # {} /\ pending' = {} /\ gIsOn' = FALSE
    BY <1>11 DEF LoadFails, Modes
  <2>2. QED
    BY <1>11, <2>1 DEF LoadFails, Modes
<1>12. CASE LoadStateFails
  BY <1>11, <1>12 DEF LoadStateFails, Flags
<1>13. CASE NextGremlinFromRootState
  BY <1>13 DEF NextGremlinFromRootState, Modes
<1>14. CASE NextGremlinFromSuspendState
  <2>1. pending # {} /\ pending' = {} /\ gIsOn' = TRUE /\ ~(ended /\ ~steered)
    BY <1>14 DEF NextGremlinFromSuspendState, Modes
  <2>2. UNCHANGED <<range, depths, search, files, ended, hung, user>>
    BY <1>14 DEF NextGremlinFromSuspendState
  <2>3. QED
    BY <2>1, <2>2 DEF Modes
<1>15. CASE Stop
  BY <1>15 DEF Stop, Command, Modes
<1>16. CASE Resume
  BY <1>16 DEF Resume, Command, CanGoOn, Modes
<1>17. CASE Step
  BY <1>17 DEF Step, Command, CanGoOn, Modes
<1>18. CASE Reset
  <2>1. pending' = {} /\ gIsOn' = FALSE /\ gTheGremlin'.inited = FALSE
    BY <1>18, EventTyped DEF Reset, Command, Gremlins
  <2>2. UNCHANGED <<range, depths, search, root, ended, steered>>
    BY <1>18 DEF Reset
  <2>3. QED
    BY <2>1, <2>2 DEF Modes
<1>19. CASE UNCHANGED vars
  BY <1>19 DEF vars, Modes
<1>20. QED
  BY <1>1, <1>3, <1>4, <1>6, <1>7, <1>8, <1>9, <1>10, <1>12, <1>13, <1>14, <1>15, <1>16,
     <1>17, <1>18, <1>19 DEF Next, ExecuteSpecial

-----------------------------------------------------------------------------
(* Which device a Gremlin runs on. *)

LEMMA OneMoreEvent ==
  ASSUME NEW n \in Numbers, NEW c \in Nat
  PROVE  /\ EventsOf(n, 0) = <<>>
         /\ Append(EventsOf(n, c), <<n, c>>) = EventsOf(n, c + 1)
<1> DEFINE e(i) == <<n, i - 1>>
<1>1. EventsOf(n, 0) = <<>>
  BY DEF EventsOf
<1>2. \A m \in Nat : /\ EventsOf(n, m) \in Seq(Event) /\ Len(EventsOf(n, m)) = m
                     /\ \A i \in 1..m : EventsOf(n, m)[i] = e(i)
  <2> SUFFICES ASSUME NEW m \in Nat
               PROVE  /\ EventsOf(n, m) \in Seq(Event) /\ Len(EventsOf(n, m)) = m
                      /\ \A i \in 1..m : EventsOf(n, m)[i] = e(i)
    OBVIOUS
  <2>1. \A i \in 1..m : e(i) \in Event
    BY DEF Event
  <2>2. EventsOf(n, m) = [i \in 1..m |-> e(i)]
    BY DEF EventsOf
  <2> HIDE DEF e
  <2>3. EventsOf(n, m) \in Seq(Event)
    BY <2>1, <2>2, IsASeq
  <2>4. Len(EventsOf(n, m)) = m
    BY <2>2
  <2>5. QED
    BY <2>2, <2>3, <2>4
<1>3. e(c + 1) = <<n, c>> /\ <<n, c>> \in Event
  BY DEF Event
<1> HIDE DEF e
<1>4. /\ EventsOf(n, c) \in Seq(Event) /\ Len(EventsOf(n, c)) = c
      /\ EventsOf(n, c + 1) \in Seq(Event) /\ Len(EventsOf(n, c + 1)) = c + 1
  <2>1. c + 1 \in Nat
    OBVIOUS
  <2> HIDE DEF EventsOf
  <2>2. QED
    BY <1>2, <2>1
<1> DEFINE s == EventsOf(n, c)
           t == Append(s, <<n, c>>)
<1>5. t \in Seq(Event) /\ Len(t) = c + 1
  BY <1>3, <1>4, AppendProperties
<1>6. \A i \in 1..(c + 1) : t[i] = EventsOf(n, c + 1)[i]
  <2> SUFFICES ASSUME NEW i \in 1..(c + 1)
               PROVE  t[i] = EventsOf(n, c + 1)[i]
    OBVIOUS
  <2>1. EventsOf(n, c + 1)[i] = e(i)
    BY <1>2
  <2>2. CASE i = c + 1
    <3>1. t[Len(s) + 1] = <<n, c>>
      BY <1>3, <1>4, AppendProperties
    <3> HIDE DEF s, t
    <3>2. Len(s) + 1 = i
      BY <1>4, <2>2 DEF s
    <3>3. e(i) = <<n, c>>
      BY <1>3, <2>2
    <3>4. QED
      BY <2>1, <3>1, <3>2, <3>3
  <2>3. CASE i \in 1..c
    <3>1. s[i] = e(i)
      BY <1>2, <2>3
    <3>2. t[i] = s[i]
      BY <1>3, <1>4, <2>3, AppendProperties
    <3>3. QED
      BY <2>1, <3>1, <3>2
  <2>4. i = c + 1 \/ i \in 1..c
    OBVIOUS
  <2> HIDE DEF t
  <2>5. QED
    BY <2>2, <2>3, <2>4
<1>7. t = EventsOf(n, c + 1)
  <2> DEFINE u == EventsOf(n, c + 1)
  <2>1. u \in Seq(Event) /\ Len(t) = Len(u) /\ \A i \in 1..Len(t) : t[i] = u[i]
    BY <1>4, <1>5, <1>6
  <2> HIDE DEF t, u
  <2>2. t = u
    BY <1>5, <2>1, SeqEqual
  <2>3. QED
    BY <2>2 DEF u
<1>8. QED
  BY <1>1, <1>7

\* A Gremlin that runs, and every suspended one, has seen its own events; and the one
\* that runs has a limit or none, but not one of zero, with which it would make up events
\* that it does not post.
Own ==
  ~steered =>
    /\ gIsOn => /\ gTheGremlin.number = gCurrentGremlin
                /\ gTheGremlin.until # 0
                /\ device = EventsOf(gCurrentGremlin, gTheGremlin.counter)
    /\ \A n \in Numbers : suspended[n] # NoFile =>
         /\ suspended[n].gremlin.number = n
         /\ suspended[n].device = EventsOf(n, suspended[n].gremlin.counter)

\* The limits that a Gremlin of a horde is given are not zero.
LEMMA NoZeroLimit ==
  ASSUME NEW switch \in Int, NEW max \in Int, switch # 0, max # 0, NEW depth \in Nat
  PROVE  /\ NewGremlin(gCurrentGremlin, switch, max).until # 0
         /\ switch * (depth + 1) # 0
         /\ Smaller(switch * (depth + 1), max) # 0
<1>1. \A a, b \in Int : a # 0 /\ b # 0 => Smaller(a, b) # 0
  BY DEF Smaller
<1>2. NewGremlin(gCurrentGremlin, switch, max).until =
        IF max = -1 THEN switch ELSE Smaller(switch, max)
  BY DEF NewGremlin
<1>3. switch * (depth + 1) \in Int /\ switch * (depth + 1) # 0
  <2>1. depth + 1 \in Int /\ depth + 1 # 0
    OBVIOUS
  <2>2. \A a, b \in Int : a # 0 /\ b # 0 => a * b \in Int /\ a * b # 0
    OBVIOUS
  <2>3. QED
    BY <2>1, <2>2
<1>4. QED
  BY <1>1, <1>2, <1>3

LEMMA OwnKept ==
  ASSUME TypeOK, Modes, Own, [Next]_vars
  PROVE  Own'
<1> USE DEF range, depths, search, gremlin, files, user
<1>0. /\ gIsOn \in BOOLEAN /\ steered \in BOOLEAN
      /\ gCurrentGremlin \in Numbers /\ gTheGremlin \in Gremlins
      /\ gTheGremlin.number \in Numbers /\ gTheGremlin.counter \in Nat
  BY EventTyped DEF TypeOK, Gremlins
\* The Gremlin is off afterwards, and no state was saved.
<1>1. ASSUME gIsOn' = FALSE, UNCHANGED <<suspended, steered>> PROVE Own'
  BY <1>1 DEF Own
\* The user goes on.
<1>2. ASSUME steered' = TRUE PROVE Own'
  BY <1>2 DEF Own
<1>3. ASSUME NEW info \in Infos, New(info) PROVE Own'
  <2> DEFINE start  == Smaller(info.fStartNumber, info.fStopNumber)
             max    == Forever(info.fMaxDepth)
             switch == IF info.fSwitchDepth = -1
                            \/ start = Larger(info.fStartNumber, info.fStopNumber)
                       THEN max ELSE Forever(info.fSwitchDepth)
  <2>1. gCurrentGremlin' = start /\ gTheGremlin' = NewGremlin(start, switch, max)
    BY <1>3 DEF New
  <2>2. device' = <<>> /\ suspended' = [n \in Numbers |-> NoFile]
    BY <1>3 DEF New
  <2>3. /\ info.fStartNumber \in Numbers /\ info.fStopNumber \in Numbers
        /\ info.fSwitchDepth \in Nat \cup {-1} /\ info.fMaxDepth \in Nat \cup {-1}
    BY ConstantsAssumption DEF ConstantsAssumption
  <2>4. start \in Numbers
    BY <2>3, Numbered DEF Smaller
  <2>5. max \in Int \ {0} /\ switch \in Int \ {0}
    BY <2>3 DEF Forever
  <2> HIDE DEF start, max, switch
  <2>6. \A n : NewGremlin(n, switch, max).until = NewGremlin(gCurrentGremlin, switch, max).until
    BY DEF NewGremlin
  <2>7. gTheGremlin'.until # 0
    BY <2>1, <2>5, <2>6, NoZeroLimit
  <2>8. gTheGremlin'.number = start /\ gTheGremlin'.counter = 0
    BY <2>1 DEF NewGremlin
  <2>9. device' = EventsOf(start, 0)
    BY <2>2, <2>4, OneMoreEvent
  <2>10. QED
    BY <2>1, <2>2, <2>7, <2>8, <2>9 DEF Own
<1>4. CASE StopEventReached
  BY <1>1, <1>4 DEF StopEventReached, NextGremlin
<1>5. CASE ErrorEncountered
  BY <1>1, <1>5 DEF ErrorEncountered, NextGremlin
<1>6. CASE EnterDebugger
  BY <1>1, <1>6 DEF EnterDebugger
<1>7. ASSUME PostEvent, Running PROVE Own'
  <2> SUFFICES ASSUME ~steered PROVE Own'
    BY <1>7 DEF Own, PostEvent
  <2>1. /\ gTheGremlin.number = gCurrentGremlin /\ gTheGremlin.until # 0
        /\ device = EventsOf(gCurrentGremlin, gTheGremlin.counter)
    BY <1>7 DEF Own, Running
  <2>2. /\ gTheGremlin'.number = gTheGremlin.number
        /\ gTheGremlin'.until = gTheGremlin.until
        /\ gTheGremlin'.counter = gTheGremlin.counter + 1
    BY <1>0, <1>7 DEF PostEvent, Gremlins
  <2>3. device' = Append(device, <<gTheGremlin.number, gTheGremlin.counter>>)
    BY <1>7 DEF PostEvent
  <2>4. device' = EventsOf(gCurrentGremlin, gTheGremlin.counter + 1)
    BY <1>0, <2>1, <2>3, OneMoreEvent
  <2>5. UNCHANGED <<gCurrentGremlin, gIsOn, suspended, steered>>
    BY <1>7 DEF PostEvent
  <2>6. QED
    BY <2>1, <2>2, <2>4, <2>5 DEF Own
<1>8. CASE PostFakePenEvent
  BY <1>7, <1>8 DEF PostFakePenEvent
<1>9. CASE PostFakeEvent
  <2>1. CASE PostEvent
    BY <1>7, <1>9, <2>1 DEF PostFakeEvent
  <2>2. CASE ~PostEvent
    <3>1. gTheGremlin.until = 0 /\ gIsOn /\ UNCHANGED <<suspended, steered>>
      BY <1>9, <2>2 DEF PostFakeEvent, Running
    <3>2. steered
      BY <3>1 DEF Own
    <3>3. QED
      BY <3>1, <3>2 DEF Own
  <2>3. QED
    BY <2>1, <2>2
<1>10. CASE SaveSuspendedState
  <2>1. UNCHANGED <<gCurrentGremlin, gIsOn, gTheGremlin, device, steered>> /\ gIsOn
    BY <1>10 DEF SaveSuspendedState, Modes
  <2>2. suspended' = [suspended EXCEPT ![gCurrentGremlin] = Session(gIsOn)]
    BY <1>10 DEF SaveSuspendedState
  <2>3. Session(gIsOn).device = device /\ Session(gIsOn).gremlin = gTheGremlin
    BY DEF Session
  <2>4. \A n \in Numbers :
          suspended'[n] = IF n = gCurrentGremlin THEN Session(gIsOn) ELSE suspended[n]
    BY <1>0, <2>2 DEF TypeOK
  <2> HIDE DEF Session
  <2>5. QED
    BY <2>1, <2>3, <2>4 DEF Own
<1>11. CASE LoadRootState
  BY <1>1, <1>11 DEF LoadRootState, Modes
<1>12. CASE LoadStateFails
  BY <1>1, <1>12 DEF LoadStateFails, LoadFails
<1>13. CASE NextGremlinFromRootState
  <2>1. gTheGremlin' = NewGremlin(gCurrentGremlin, gSwitchDepth, gMaxDepth)
        /\ device' = <<>> /\ UNCHANGED <<gCurrentGremlin, suspended, steered>>
    BY <1>13 DEF NextGremlinFromRootState, Modes
  <2>2. gTheGremlin'.number = gCurrentGremlin /\ gTheGremlin'.counter = 0
    BY <2>1 DEF NewGremlin
  <2>3. gSwitchDepth \in Int \ {0} /\ gMaxDepth \in Int \ {0}
    BY <1>13 DEF NextGremlinFromRootState, Modes, TypeOK
  <2>4. gTheGremlin'.until # 0
    BY <2>1, <2>3, NoZeroLimit
  <2>5. device' = EventsOf(gCurrentGremlin, 0)
    BY <1>0, <2>1, OneMoreEvent
  <2>6. QED
    BY <2>1, <2>2, <2>4, <2>5 DEF Own
<1>14. CASE NextGremlinFromSuspendState
  <2> DEFINE file  == suspended[gCurrentGremlin]
             until == gSwitchDepth * (gCurrentDepth + 1)
             limit == IF gMaxDepth = -1 THEN until ELSE Smaller(until, gMaxDepth)
  <2>1. /\ file # NoFile /\ device' = file.device
        /\ gTheGremlin' = [Loaded(file) EXCEPT !.until = limit]
        /\ UNCHANGED <<gCurrentGremlin, suspended, steered>>
    BY <1>14 DEF NextGremlinFromSuspendState
  <2>2. gSwitchDepth \in Int \ {0} /\ gMaxDepth \in Int \ {0}
    BY <1>14 DEF NextGremlinFromSuspendState, Modes, TypeOK
  <2>3. ~steered => limit # 0
    <3>1. ~steered => gCurrentDepth \in Nat
      BY DEF Modes, TypeOK
    <3>2. ~steered => until # 0 /\ Smaller(until, gMaxDepth) # 0
      BY <2>2, <3>1, NoZeroLimit
    <3> HIDE DEF until
    <3>3. QED
      BY <3>2
  <2>4. file.gremlin \in Gremlins
    BY <1>0, <2>1, GremlinsTyped DEF TypeOK
  <2> HIDE DEF limit, until
  <2>5. /\ gTheGremlin'.number = file.gremlin.number /\ gTheGremlin'.until = limit
        /\ gTheGremlin'.counter = file.gremlin.counter
    BY <2>1, <2>4 DEF Loaded, Gremlins
  <2>6. QED
    BY <1>0, <2>1, <2>3, <2>5 DEF Own
<1>15. CASE Stop
  BY <1>1, <1>15 DEF Stop
<1>16. CASE Resume \/ Step
  BY <1>2, <1>16 DEF Resume, Step
<1>17. CASE Reset
  BY <1>1, <1>17 DEF Reset
<1>18. CASE UNCHANGED vars
  BY <1>18 DEF vars, Own
<1>19. QED
  BY <1>3, <1>4, <1>5, <1>6, <1>8, <1>9, <1>10, <1>11, <1>12, <1>13, <1>14, <1>15, <1>16,
     <1>17, <1>18 DEF Next, ExecuteSpecial

LEMMA OwnStart == Init => Modes /\ Own
BY DEF Init, Modes, Own

\* A Gremlin of a horde runs on a device that has seen its own events and no others: the
\* state that NextGremlin asks for is loaded before it starts, and the states are saved
\* while their own Gremlin is current.
THEOREM OwnDevices == Spec => []OwnDevice
<1>1. TypeOK /\ Modes /\ Own /\ [Next]_vars => (TypeOK /\ Modes /\ Own)'
  BY TypesKept, ModesKept, OwnKept
<1>2. Own => OwnDevice
  BY DEF Own, OwnDevice
<1>3. QED
  BY <1>1, <1>2, TypesStart, OwnStart, PTL DEF Spec

-----------------------------------------------------------------------------
(* The tapes. *)

EventsIn(tape) == {tape[i] : i \in DOMAIN tape}

LEMMA MoreEvents ==
  ASSUME NEW tape \in Seq(Event), NEW event \in Event
  PROVE  EventsIn(Append(tape, event)) = EventsIn(tape) \cup {event}
<1> DEFINE more == Append(tape, event)
           n    == Len(tape)
<1>1. /\ n \in Nat /\ DOMAIN tape = 1..n
      /\ more \in Seq(Event) /\ Len(more) = n + 1
      /\ \A i \in 1..n : more[i] = tape[i]
      /\ more[n + 1] = event
  BY AppendProperties, LenProperties
<1>2. DOMAIN more = 1..(n + 1)
  BY <1>1, LenProperties
<1> HIDE DEF more, n
<1>3. \A x : x \in EventsIn(more) <=> x \in EventsIn(tape) \cup {event}
  <2>1. ASSUME NEW i \in 1..(n + 1) PROVE more[i] \in EventsIn(tape) \cup {event}
    <3>1. i \in 1..n \/ i = n + 1
      BY <1>1
    <3>2. QED
      BY <1>1, <3>1 DEF EventsIn
  <2>2. \A i \in 1..n : i \in 1..(n + 1)
    BY <1>1
  <2>3. n + 1 \in 1..(n + 1)
    BY <1>1
  <2>4. QED
    BY <1>1, <1>2, <2>1, <2>2, <2>3 DEF EventsIn
<1>4. QED
  BY <1>3 DEF more

\* The tape of each Gremlin holds what its suspended device has seen.  That is so when
\* a Gremlin is resumed because its tape was written last when it was current, and when
\* it is started because it has no suspended state yet.
Taped ==
  ~steered =>
    /\ \A n \in Numbers :
         /\ \A e \in EventsIn(eventFile[n]) : e[1] = n
         /\ suspended[n] # NoFile => EventsIn(suspended[n].device) \subseteq EventsIn(eventFile[n])
    /\ gIsOn =>
         /\ EventsIn(device) \subseteq EventsIn(fgEvents)
         /\ \A e \in EventsIn(fgEvents) : e[1] = gCurrentGremlin
         /\ suspended[gCurrentGremlin] # NoFile =>
              EventsIn(suspended[gCurrentGremlin].device) \subseteq EventsIn(fgEvents)
    /\ gCurrentDepth = 0 => \A n \in Numbers : n > gCurrentGremlin => suspended[n] = NoFile
    /\ "nextFromRootState" \in pending => suspended[gCurrentGremlin] = NoFile

LEMMA TapedKept ==
  ASSUME TypeOK, Modes, Own, Taped, [Next]_vars
  PROVE  Taped'
<1> USE DEF range, depths, search, gremlin, files, user
<1>0. /\ gIsOn \in BOOLEAN /\ steered \in BOOLEAN
      /\ gCurrentGremlin \in Numbers /\ gTheGremlin \in Gremlins
      /\ gTheGremlin.number \in Numbers /\ gTheGremlin.counter \in Nat
      /\ gCurrentGremlin \in Int /\ gCurrentDepth \in Int
  BY EventTyped, Numbered DEF TypeOK, Gremlins
<1>1. EventsIn(<<>>) = {}
  BY DEF EventsIn
<1>2. ASSUME steered' = TRUE PROVE Taped'
  BY <1>2 DEF Taped
\* The tape is saved while the Gremlin is on.
<1>3. ASSUME SaveEvents, gIsOn, ~steered
      PROVE  \A n \in Numbers :
               /\ \A e \in EventsIn(eventFile'[n]) : e[1] = n
               /\ suspended[n] # NoFile =>
                    EventsIn(suspended[n].device) \subseteq EventsIn(eventFile'[n])
  <2> SUFFICES ASSUME NEW n \in Numbers
               PROVE  /\ \A e \in EventsIn(eventFile'[n]) : e[1] = n
                      /\ suspended[n] # NoFile =>
                           EventsIn(suspended[n].device) \subseteq EventsIn(eventFile'[n])
    OBVIOUS
  <2>1. eventFile'[n] = IF n = gCurrentGremlin THEN fgEvents ELSE eventFile[n]
    BY <1>3 DEF SaveEvents, TypeOK
  <2>2. CASE n = gCurrentGremlin
    BY <1>3, <2>1, <2>2 DEF Taped
  <2>3. CASE n # gCurrentGremlin
    BY <1>3, <2>1, <2>3 DEF Taped
  <2>4. QED
    BY <2>2, <2>3
\* A Gremlin ends its turn.
<1>4. ASSUME NEW haltedNow, NextGremlin(haltedNow), Running, SaveEvents,
             UNCHANGED <<suspended, steered>>
      PROVE  Taped'
  <2> SUFFICES ASSUME ~steered PROVE Taped'
    BY <1>4 DEF Taped
  <2>1. gIsOn /\ gIsOn' = FALSE /\ gCurrentDepth >= 0
    BY <1>4 DEF Running, NextGremlin, Modes
  <2>2. /\ gCurrentDepth' = 0 => \A n \in Numbers : n > gCurrentGremlin' => suspended[n] = NoFile
        /\ "nextFromRootState" \in pending' => suspended[gCurrentGremlin'] = NoFile
    <3>1. CASE UNCHANGED <<gCurrentGremlin, gCurrentDepth>> /\ "nextFromRootState" \notin pending'
      BY <2>1, <3>1 DEF Taped
    <3>2. ASSUME NEW k \in 1..Size, gCurrentGremlin' = Proposed(k).number,
                 gCurrentDepth' = Proposed(k).depth,
                 "nextFromRootState" \in pending' => Proposed(k).depth = 0
          PROVE  /\ gCurrentDepth' = 0 =>
                      \A n \in Numbers : n > gCurrentGremlin' => suspended[n] = NoFile
                 /\ "nextFromRootState" \in pending' => suspended[gCurrentGremlin'] = NoFile
      <4> SUFFICES ASSUME Proposed(k).depth = 0
                   PROVE  \A n \in Numbers : n >= gCurrentGremlin' => suspended[n] = NoFile
        <5>1. gCurrentGremlin' \in Numbers
          BY <3>2, Around, RangeTyped
        <5>2. QED
          BY <3>2, <5>1, Numbered
      <4>1. /\ k \in Nat /\ k >= 1 /\ gGremlinStopNumber \in Int
        BY DEF TypeOK, Size, Numbers
      <4>2. gCurrentDepth = 0 /\ gCurrentGremlin' = gCurrentGremlin + k
        BY <1>0, <2>1, <3>2, <4>1, Around
      <4>3. \A n \in Numbers : n >= gCurrentGremlin' => n > gCurrentGremlin
        BY <1>0, <4>1, <4>2, Numbered
      <4>4. QED
        BY <2>1, <4>2, <4>3 DEF Taped
    <3>3. EndHordes => "nextFromRootState" \notin pending'
      BY DEF EndHordes
    <3>4. UNCHANGED pending => "nextFromRootState" \notin pending'
      BY <1>4 DEF Running
    <3>5. \/ UNCHANGED <<gCurrentGremlin, gCurrentDepth>> /\ "nextFromRootState" \notin pending'
          \/ \E k \in 1..Size :
               /\ gCurrentGremlin' = Proposed(k).number /\ gCurrentDepth' = Proposed(k).depth
               /\ "nextFromRootState" \in pending' => Proposed(k).depth = 0
      <4>1. \A k \in 1..Size :
              (IF PastMaxDepth(Proposed(k).depth) THEN EndHordes
               ELSE /\ pending' = {IF Proposed(k).depth = 0 THEN "nextFromRootState"
                                                       ELSE "nextFromSuspendState"}
                    /\ UNCHANGED <<ended, fgEvents>>)
              => ("nextFromRootState" \in pending' => Proposed(k).depth = 0)
        BY <3>3
      <4>2. (IF hung' THEN UNCHANGED <<ended, fgEvents, pending>> ELSE EndHordes)
            => "nextFromRootState" \notin pending'
        BY <3>3, <3>4
      <4>3. QED
        BY <1>4, <4>1, <4>2, Chosen
    <3>6. QED
      BY <3>1, <3>2, <3>5
  <2>3. QED
    BY <1>3, <1>4, <2>1, <2>2 DEF Taped
<1>5. ASSUME NEW info \in Infos, New(info) PROVE Taped'
  <2>1. /\ suspended' = [n \in Numbers |-> NoFile] /\ eventFile' = [n \in Numbers |-> <<>>]
        /\ fgEvents' = <<>> /\ device' = <<>> /\ pending' = {}
    BY <1>5 DEF New
  <2>2. gCurrentGremlin' \in Numbers
    <3>1. \A a, b \in Numbers : Smaller(a, b) \in Numbers
      BY DEF Smaller
    <3>2. info.fStartNumber \in Numbers /\ info.fStopNumber \in Numbers
      BY ConstantsAssumption DEF ConstantsAssumption
    <3>3. QED
      BY <1>5, <3>1, <3>2 DEF New
  <2>3. QED
    BY <1>1, <2>1, <2>2 DEF Taped
<1>6. CASE StopEventReached
  BY <1>4, <1>6 DEF StopEventReached
<1>7. CASE ErrorEncountered
  BY <1>4, <1>7 DEF ErrorEncountered
<1>8. CASE EnterDebugger
  <2> SUFFICES ASSUME ~steered PROVE Taped'
    BY <1>8 DEF Taped, EnterDebugger
  <2>1. SaveEvents /\ gIsOn /\ gIsOn' = FALSE
        /\ UNCHANGED <<suspended, steered, gCurrentGremlin, gCurrentDepth, pending>>
    BY <1>8 DEF EnterDebugger, Running
  <2>2. QED
    BY <1>3, <2>1 DEF Taped
<1>9. ASSUME PostEvent, Running PROVE Taped'
  <2> SUFFICES ASSUME ~steered PROVE Taped'
    BY <1>9 DEF Taped, PostEvent
  <2> DEFINE event == <<gTheGremlin.number, gTheGremlin.counter>>
  <2>1. gIsOn /\ event \in Event /\ gTheGremlin.number = gCurrentGremlin
    BY <1>9, EventTyped DEF Running, Own
  <2>2. fgEvents' = Append(fgEvents, event) /\ device' = Append(device, event)
    BY <1>9 DEF PostEvent
  <2>3. /\ EventsIn(fgEvents') = EventsIn(fgEvents) \cup {event}
        /\ EventsIn(device') = EventsIn(device) \cup {event}
    BY <2>1, <2>2, MoreEvents DEF TypeOK
  <2>4. event[1] = gCurrentGremlin
    BY <2>1
  <2>5. /\ "nextFromRootState" \notin pending'
        /\ UNCHANGED <<suspended, eventFile, steered, gCurrentGremlin, gCurrentDepth, gIsOn>>
    BY <1>9 DEF PostEvent
  <2> HIDE DEF event
  <2>6. QED
    BY <2>1, <2>3, <2>4, <2>5 DEF Taped
<1>10. CASE PostFakePenEvent
  BY <1>9, <1>10 DEF PostFakePenEvent
<1>11. CASE PostFakeEvent
  <2>1. CASE PostEvent
    BY <1>9, <1>11, <2>1 DEF PostFakeEvent
  <2>2. CASE ~PostEvent
    <3>1. UNCHANGED <<suspended, eventFile, steered, gCurrentGremlin, gCurrentDepth, gIsOn,
                      fgEvents, device, pending>>
      BY <1>11, <2>2 DEF PostFakeEvent
    <3>2. QED
      BY <3>1 DEF Taped
  <2>3. QED
    BY <2>1, <2>2
<1>12. CASE SaveSuspendedState
  <2> SUFFICES ASSUME ~steered PROVE Taped'
    BY <1>12 DEF Taped, SaveSuspendedState
  <2>1. /\ SaveEvents /\ gIsOn /\ pending' = {}
        /\ UNCHANGED <<gCurrentGremlin, gCurrentDepth, gIsOn, device, fgEvents, steered>>
    BY <1>12 DEF SaveSuspendedState, Modes
  <2>2. \A n \in Numbers :
          suspended'[n] = IF n = gCurrentGremlin THEN Session(gIsOn) ELSE suspended[n]
    BY <1>0, <1>12 DEF SaveSuspendedState, TypeOK
  <2>3. Session(gIsOn).device = device
    BY DEF Session
  <2>4. eventFile'[gCurrentGremlin] = fgEvents
    BY <1>0, <2>1 DEF SaveEvents, TypeOK
  <2>5. \A n \in Numbers : n > gCurrentGremlin => n # gCurrentGremlin
    BY <1>0, Numbered
  <2>6. EventsIn(device) \subseteq EventsIn(fgEvents)
    BY <2>1 DEF Taped
  <2> HIDE DEF Session
  <2>7. \A n \in Numbers :
          /\ \A e \in EventsIn(eventFile'[n]) : e[1] = n
          /\ suspended'[n] # NoFile =>
               EventsIn(suspended'[n].device) \subseteq EventsIn(eventFile'[n])
    BY <1>3, <2>1, <2>2, <2>3, <2>4, <2>6
  <2>8. QED
    BY <1>0, <2>1, <2>2, <2>3, <2>5, <2>6, <2>7 DEF Taped
<1>13. CASE LoadRootState
  <2>1. gIsOn' = FALSE /\ "nextFromRootState" \notin pending'
        /\ UNCHANGED <<suspended, eventFile, steered, gCurrentGremlin, gCurrentDepth>>
    BY <1>13 DEF LoadRootState, Modes
  <2>2. QED
    BY <2>1 DEF Taped
<1>14. ASSUME NEW flag, NEW file, LoadFails(flag, file) PROVE Taped'
  BY <1>14 DEF LoadFails, Taped
<1>15. CASE LoadStateFails
  BY <1>14, <1>15 DEF LoadStateFails
<1>16. CASE NextGremlinFromRootState
  <2>1. /\ "nextFromRootState" \in pending /\ "nextFromRootState" \notin pending'
        /\ device' = <<>> /\ fgEvents' = <<>>
        /\ UNCHANGED <<suspended, eventFile, steered, gCurrentGremlin, gCurrentDepth>>
    BY <1>16 DEF NextGremlinFromRootState, Modes
  <2>2. QED
    BY <1>1, <2>1 DEF Taped
<1>17. CASE NextGremlinFromSuspendState
  <2>1. /\ suspended[gCurrentGremlin] # NoFile
        /\ device' = suspended[gCurrentGremlin].device
        /\ fgEvents' = eventFile[gCurrentGremlin]
        /\ "nextFromRootState" \notin pending'
        /\ UNCHANGED <<suspended, eventFile, steered, gCurrentGremlin, gCurrentDepth>>
    BY <1>17 DEF NextGremlinFromSuspendState, Modes
  <2>2. QED
    BY <1>0, <2>1 DEF Taped
<1>18. CASE Stop
  BY <1>18 DEF Stop, Taped
<1>19. CASE Resume \/ Step
  BY <1>2, <1>19 DEF Resume, Step
<1>20. CASE Reset
  <2> SUFFICES ASSUME ~steered PROVE Taped'
    BY <1>20 DEF Taped, Reset
  <2>1. gIsOn' = FALSE
        /\ UNCHANGED <<suspended, steered, gCurrentGremlin, gCurrentDepth, pending>>
    BY <1>20 DEF Reset
  <2>2. CASE gIsOn
    BY <1>3, <1>20, <2>1, <2>2 DEF Reset, Taped
  <2>3. CASE ~gIsOn
    BY <1>20, <2>1, <2>3 DEF Reset, Taped
  <2>4. QED
    BY <2>2, <2>3
<1>21. CASE UNCHANGED vars
  BY <1>21 DEF vars, Taped
<1>22. QED
  BY <1>5, <1>6, <1>7, <1>8, <1>10, <1>11, <1>12, <1>13, <1>15, <1>16, <1>17, <1>18, <1>19,
     <1>20, <1>21 DEF Next, ExecuteSpecial

LEMMA TapedStart == Init => Taped
<1> SUFFICES ASSUME Init PROVE Taped
  OBVIOUS
<1>1. EventsIn(<<>>) = {}
  BY DEF EventsIn
<1>2. QED
  BY <1>1 DEF Init, Taped

\* The tape that the minimizer is given later holds all that the device has seen of a
\* Gremlin, and nothing of another: LoadEvents finds the tape as the last SaveEvents of
\* the same Gremlin left it.
THEOREM Tapes == Spec => []TapeComplete
<1>1. TypeOK /\ Modes /\ Own /\ Taped /\ [Next]_vars => (TypeOK /\ Modes /\ Own /\ Taped)'
  BY TypesKept, ModesKept, OwnKept, TapedKept
<1>2. Taped => TapeComplete
  BY DEF Taped, TapeComplete, EventsIn
<1>3. QED
  BY <1>1, <1>2, TypesStart, OwnStart, TapedStart, PTL DEF Spec

\* OwnDevices and Tapes together: the Gremlins of a horde, which take turns by saving and
\* loading sessions and event files, leave each other's device and tape alone.
THEOREM Apart == Spec => []GremlinsApart
<1>1. OwnDevice /\ TapeComplete => GremlinsApart
  BY DEF GremlinsApart
<1>2. QED
  BY <1>1, OwnDevices, Tapes, PTL

-----------------------------------------------------------------------------
(* The order of the search. *)

\* The events at which the switch to the depth x takes place.
Lim(x) == IF gMaxDepth = -1 THEN gSwitchDepth * x ELSE Smaller(gSwitchDepth * x, gMaxDepth)

\* The Gremlin n is suspended there, or has not run yet.
AtDepth(n, x) ==
  IF x = 0 THEN suspended[n] = NoFile
           ELSE suspended[n] # NoFile /\ suspended[n].gremlin.counter = Lim(x)

Selected == \E flag \in pending : flag \in {"nextFromRootState", "nextFromSuspendState"}

\* While a Gremlin is on or selected, each of the others that have not halted is where it
\* was left: those before it in the range a depth further than those after it.  A
\* selected Gremlin is at the current depth, below the maximum; one that is on runs to the
\* next depth, and is saved when it gets there.  At the end all are at the maximum.
Position ==
  ~steered =>
    /\ gIsOn \/ Selected => gCurrentGremlin \notin halted
    /\ gSwitchDepth > 0 =>
         /\ gIsOn \/ Selected =>
              /\ \A n \in InRange \ (halted \cup {gCurrentGremlin}) :
                   AtDepth(n, IF n < gCurrentGremlin THEN gCurrentDepth + 1 ELSE gCurrentDepth)
              /\ gMaxDepth # -1 => gSwitchDepth * gCurrentDepth < gMaxDepth
         /\ Selected => AtDepth(gCurrentGremlin, gCurrentDepth)
         /\ "nextFromRootState" \in pending => gCurrentDepth = 0
         /\ "nextFromSuspendState" \in pending => gCurrentDepth # 0
         /\ gIsOn =>
              /\ gTheGremlin.until = Lim(gCurrentDepth + 1)
              /\ gTheGremlin.counter >= gSwitchDepth * gCurrentDepth
              /\ "saveSuspendState" \in pending => gTheGremlin.counter = gTheGremlin.until
              /\ pending = {} /\ gTheGremlin.counter >= gTheGremlin.until =>
                   AtDepth(gCurrentGremlin, gCurrentDepth + 1)
    /\ ended /\ (gSwitchDepth > 0 \/ gMaxDepth = -1) =>
         \A n \in InRange \ halted :
           suspended[n] # NoFile /\ suspended[n].gremlin.counter >= gMaxDepth

\* How the limits of the depths follow each other.
LEMMA Limits ==
  ASSUME NEW x \in Nat, gSwitchDepth \in Int, gSwitchDepth > 0,
         gMaxDepth \in Int, gMaxDepth = -1 \/ gMaxDepth >= 1
  PROVE  /\ gSwitchDepth * x \in Nat /\ x * gSwitchDepth = gSwitchDepth * x
         /\ gSwitchDepth * (x + 1) = gSwitchDepth * x + gSwitchDepth
         /\ Lim(x) \in Int /\ Lim(x + 1) \in Int
         /\ gMaxDepth # -1 /\ gSwitchDepth * x >= gMaxDepth =>
              x # 0 /\ Lim(x) = gMaxDepth /\ Lim(x + 1) = gMaxDepth
         /\ gMaxDepth = -1 \/ gSwitchDepth * x < gMaxDepth =>
              Lim(x) = gSwitchDepth * x /\ Lim(x) < Lim(x + 1)
<1> DEFINE p == gSwitchDepth * x
           q == gSwitchDepth * (x + 1)
<1>1. p \in Nat /\ x * gSwitchDepth = p /\ (x = 0 => p = 0)
  <2>1. \A a, b \in Nat : a * b \in Nat /\ a * b = b * a
    OBVIOUS
  <2>2. \A a \in Nat : a * 0 = 0
    OBVIOUS
  <2>3. QED
    BY <2>1, <2>2
<1>2. q = p + gSwitchDepth
  <2>1. \A a, b \in Nat : a * (b + 1) = a * b + a
    OBVIOUS
  <2>2. QED
    BY <2>1
<1>3. /\ Lim(x) = IF gMaxDepth = -1 THEN p ELSE Smaller(p, gMaxDepth)
      /\ Lim(x + 1) = IF gMaxDepth = -1 THEN q ELSE Smaller(q, gMaxDepth)
  BY DEF Lim
<1> HIDE DEF p, q
<1>4. QED
  BY <1>1, <1>2, <1>3 DEF Smaller, p, q

\* The proposals go through the whole range.
LEMMA WholeRange ==
  ASSUME TypeOK, NEW n \in InRange
  PROVE  /\ n > gCurrentGremlin => /\ n - gCurrentGremlin \in 1..Size
                                   /\ Proposed(n - gCurrentGremlin).number = n
         /\ n <= gCurrentGremlin => /\ n - gCurrentGremlin + Size \in 1..Size
                                    /\ Proposed(n - gCurrentGremlin + Size).number = n
<1> DEFINE c == gCurrentGremlin
<1>1. /\ gGremlinStartNumber \in Int /\ gGremlinStopNumber \in Int /\ c \in Int /\ n \in Int
      /\ gGremlinStartNumber <= n /\ n <= gGremlinStopNumber
      /\ gGremlinStartNumber <= c /\ c <= gGremlinStopNumber
  BY DEF TypeOK, Numbers, InRange
<1>2. ASSUME n > c PROVE n - c \in 1..Size /\ Proposed(n - c).number = n
  <2>1. n - c \in 1..Size /\ c + (n - c) = n
    BY <1>1, <1>2 DEF Size
  <2>2. QED
    BY <1>1, <2>1, Around
<1>3. ASSUME n <= c PROVE n - c + Size \in 1..Size /\ Proposed(n - c + Size).number = n
  <2>1. /\ n - c + Size \in 1..Size
        /\ c + (n - c + Size) > gGremlinStopNumber
        /\ c + (n - c + Size) - Size = n
    BY <1>1, <1>3 DEF Size
  <2>2. QED
    BY <2>1, Around
<1>4. QED
  BY <1>2, <1>3

\* The first proposal that has not halted leaves none behind that has not.
LEMMA Moved ==
  ASSUME TypeOK, gCurrentDepth >= 0, NEW haltedNow,
         NEW k \in 1..Size, \A j \in 1..Size : j < k => Proposed(j).number \in haltedNow,
         NEW n \in InRange \ haltedNow
  PROVE  (IF n < Proposed(k).number THEN Proposed(k).depth + 1 ELSE Proposed(k).depth)
           = IF n <= gCurrentGremlin THEN gCurrentDepth + 1 ELSE gCurrentDepth
<1> DEFINE c == gCurrentGremlin
           d == gCurrentDepth
           m == Proposed(k).number
           x == Proposed(k).depth
<1>1. /\ gGremlinStartNumber \in Int /\ gGremlinStopNumber \in Int /\ c \in Int /\ n \in Int
      /\ d \in Int /\ gGremlinStartNumber <= n /\ n <= gGremlinStopNumber
      /\ gGremlinStartNumber <= c /\ c <= gGremlinStopNumber /\ Size \in Int
      /\ k \in Int /\ 1 <= k /\ k <= Size
  BY DEF TypeOK, Numbers, InRange, Size
<1>2. n > c => ~(n - c < k)
  BY WholeRange
<1>3. n <= c => ~(n - c + Size < k)
  BY WholeRange
<1>4. CASE c + k <= gGremlinStopNumber
  <2>1. m = c + k /\ x = d
    BY <1>4, Around
  <2> HIDE DEF m, x
  <2>2. QED
    BY <1>1, <1>2, <2>1 DEF m, x
<1>5. CASE c + k > gGremlinStopNumber
  <2>1. m = c + k - Size /\ x = d + 1
    BY <1>5, Around
  <2>2. n <= c
    BY <1>1, <1>2, <1>5
  <2>3. ~(n < c + k - Size)
    BY <1>1, <1>3, <2>2
  <2> HIDE DEF m, x
  <2>4. QED
    BY <1>1, <2>1, <2>2, <2>3 DEF m, x
<1>6. QED
  BY <1>1, <1>4, <1>5

\* A Gremlin ends its turn: it is suspended at the next depth or has halted.
LEMMA TurnEnds ==
  ASSUME TypeOK, Modes, Position, Running,
         NEW haltedNow, halted \subseteq haltedNow, halted' = haltedNow,
         NextGremlin(haltedNow), UNCHANGED <<range, depths, suspended, steered>>,
         ~steered /\ gSwitchDepth > 0 /\ gCurrentGremlin \notin haltedNow =>
           AtDepth(gCurrentGremlin, gCurrentDepth + 1)
  PROVE  Position'
<1> USE DEF range, depths
<1> SUFFICES ASSUME ~steered PROVE Position'
  BY DEF Position
<1> DEFINE c == gCurrentGremlin
           d == gCurrentDepth
<1>1. /\ gIsOn /\ pending = {} /\ gIsOn' = FALSE /\ ~ended /\ d \in Nat /\ c \in InRange
      /\ gSwitchDepth \in Int /\ gMaxDepth \in Int /\ (gMaxDepth = -1 \/ gMaxDepth >= 1)
      /\ InRange \subseteq Int
  BY RangeTyped, Numbered DEF Running, NextGremlin, Modes, TypeOK, InRange
\* Each that has not halted is at its depth, the one whose turn it was among them.
<1>2. ASSUME gSwitchDepth > 0, NEW n \in InRange \ haltedNow
      PROVE  AtDepth(n, IF n <= c THEN d + 1 ELSE d)
  <2>1. CASE n = c
    BY <1>1, <1>2, <2>1
  <2>2. CASE n # c
    <3>1. AtDepth(n, IF n < c THEN d + 1 ELSE d)
      BY <1>1, <1>2, <2>2 DEF Position
    <3>2. (n < c) <=> (n <= c)
      BY <1>1, <2>2
    <3>3. QED
      BY <3>1, <3>2
  <2>3. QED
    BY <2>1, <2>2
<1>3. EndHordes => ~Selected'
  BY DEF EndHordes, Selected
\* All have halted.
<1>4. CASE /\ \A k \in 1..Size : Proposed(k).number \in haltedNow
           /\ hung' = (gCurrentDepth < 0)
           /\ IF hung' THEN UNCHANGED <<ended, fgEvents, pending>> ELSE EndHordes
  <2>1. InRange \subseteq haltedNow
    <3> SUFFICES ASSUME NEW n \in InRange PROVE n \in haltedNow
      OBVIOUS
    <3>1. n > c \/ n <= c
      BY <1>1
    <3>2. QED
      BY <1>4, <3>1, WholeRange
  <2>2. EndHordes
    <3>1. ~(gCurrentDepth < 0)
      BY <1>1
    <3>2. ~hung'
      BY <1>4, <3>1, Zenon
    <3>3. QED
      BY <1>4, <3>2
  <2>3. InRange' = InRange
    BY DEF InRange
  <2>4. pending' \in {{}, {"loadRootState"}}
    BY <2>2 DEF EndHordes
  <2>5. QED
    BY <1>1, <1>3, <2>1, <2>2, <2>3, <2>4 DEF Position
\* The next one.
<1>5. ASSUME NEW k \in 1..Size, NEW m, NEW x, m = Proposed(k).number, x = Proposed(k).depth,
             m \notin haltedNow,
             \A j \in 1..Size : j < k => Proposed(j).number \in haltedNow,
             gCurrentGremlin' = m, gCurrentDepth' = x,
             IF PastMaxDepth(x) THEN EndHordes
             ELSE /\ pending' = {IF x = 0 THEN "nextFromRootState"
                                          ELSE "nextFromSuspendState"}
                  /\ UNCHANGED <<ended, fgEvents>>
      PROVE  Position'
  <2>1. m \in InRange /\ m \in Int /\ x \in Nat
    <3>1. c + k <= gGremlinStopNumber \/ c + k > gGremlinStopNumber
      BY <1>1 DEF TypeOK, Numbers, Size
    <3>2. m \in InRange /\ x \in {d, d + 1}
      BY <1>1, <1>5, <3>1, Around
    <3>3. QED
      BY <1>1, <3>2
  <2>2. InRange' = InRange
    BY DEF InRange
  <2>3. ASSUME gSwitchDepth > 0, NEW n \in InRange \ haltedNow
        PROVE  AtDepth(n, IF n < m THEN x + 1 ELSE x)
    BY <1>1, <1>2, <1>5, <2>3, Moved
  <2>4. ASSUME NEW n, NEW y PROVE AtDepth(n, y)' <=> AtDepth(n, y)
    BY DEF AtDepth, Lim
  <2>5. CASE PastMaxDepth(x)
    <3>1. EndHordes
      BY <1>5, <2>5
    <3>2. gMaxDepth # -1
      BY <2>5 DEF PastMaxDepth
    <3>3. ASSUME gSwitchDepth > 0, NEW n \in InRange \ haltedNow
          PROVE  suspended[n] # NoFile /\ suspended[n].gremlin.counter >= gMaxDepth
      <4>1. x * gSwitchDepth >= gMaxDepth
        BY <2>5, <3>3 DEF PastMaxDepth
      <4>2. AtDepth(n, IF n < m THEN x + 1 ELSE x)
        BY <2>3, <3>3
      <4>3. x # 0 /\ Lim(x) = gMaxDepth /\ Lim(x + 1) = gMaxDepth
        BY <1>1, <2>1, <3>2, <3>3, <4>1, Limits
      <4>4. x + 1 # 0
        BY <2>1
      <4>5. QED
        BY <1>1, <4>2, <4>3, <4>4 DEF AtDepth
    <3>4. pending' \in {{}, {"loadRootState"}}
      BY <3>1 DEF EndHordes
    <3>5. QED
      BY <1>1, <1>3, <2>2, <3>1, <3>2, <3>3, <3>4 DEF Position
  <2>6. CASE ~PastMaxDepth(x)
    <3>1. /\ pending' = {IF x = 0 THEN "nextFromRootState" ELSE "nextFromSuspendState"}
          /\ ended' = ended
      BY <1>5, <2>6
    <3>2. ASSUME gSwitchDepth > 0
          PROVE  /\ \A n \in InRange \ (haltedNow \cup {m}) :
                      AtDepth(n, IF n < m THEN x + 1 ELSE x)
                 /\ AtDepth(m, x)
                 /\ gMaxDepth # -1 => gSwitchDepth * x < gMaxDepth
      <4>1. \A n \in InRange \ (haltedNow \cup {m}) : AtDepth(n, IF n < m THEN x + 1 ELSE x)
        BY <2>3, <3>2
      <4>2. AtDepth(m, IF m < m THEN x + 1 ELSE x)
        BY <1>5, <2>1, <2>3, <3>2
      <4>3. gMaxDepth # -1 => ~(x * gSwitchDepth >= gMaxDepth)
        BY <2>6, <3>2 DEF PastMaxDepth
      <4>4. ~(m < m)
        BY <2>1
      <4>5. gSwitchDepth * x \in Nat /\ x * gSwitchDepth = gSwitchDepth * x
        BY <1>1, <2>1, <3>2, Limits
      <4>6. gMaxDepth # -1 => gSwitchDepth * x < gMaxDepth
        BY <1>1, <4>3, <4>5
      <4>7. QED
        BY <4>1, <4>2, <4>4, <4>6
    <3>3. ASSUME gSwitchDepth > 0
          PROVE  /\ \A n \in InRange \ (haltedNow \cup {m}) :
                      AtDepth(n, IF n < m THEN x + 1 ELSE x)'
                 /\ AtDepth(m, x)'
      BY <2>4, <3>2, <3>3
    <3>4. m \notin halted' /\ gCurrentGremlin' = m /\ gCurrentDepth' = x
      BY <1>5
    <3>5. /\ "nextFromRootState" \in pending' => x = 0
          /\ "nextFromSuspendState" \in pending' => x # 0
      BY <3>1
    <3>6. QED
      BY <1>1, <2>2, <3>1, <3>2, <3>3, <3>4, <3>5 DEF Position
  <2>7. QED
    BY <2>5, <2>6
<1>6. QED
  <2>1. CASE \E k \in 1..Size :
               /\ Proposed(k).number \notin haltedNow
               /\ \A j \in 1..Size : j < k => Proposed(j).number \in haltedNow
               /\ gCurrentGremlin' = Proposed(k).number
               /\ gCurrentDepth' = Proposed(k).depth
               /\ IF PastMaxDepth(Proposed(k).depth) THEN EndHordes
                  ELSE /\ pending' = {IF Proposed(k).depth = 0 THEN "nextFromRootState"
                                                          ELSE "nextFromSuspendState"}
                       /\ UNCHANGED <<ended, fgEvents>>
    BY <1>5, <2>1
  <2>2. QED
    BY <1>4, <2>1, Chosen

\* The next depth is further on than this one.
LEMMA NextLimit ==
  ASSUME TypeOK, Modes, Position, ~steered, gSwitchDepth > 0, gIsOn \/ Selected
  PROVE  /\ gSwitchDepth * gCurrentDepth \in Nat
         /\ Lim(gCurrentDepth) \in Int /\ Lim(gCurrentDepth + 1) \in Int
         /\ Lim(gCurrentDepth) = gSwitchDepth * gCurrentDepth
         /\ Lim(gCurrentDepth) < Lim(gCurrentDepth + 1)
<1>1. gMaxDepth = -1 \/ gMaxDepth >= 1
  BY DEF Modes, Selected
<1>2. gSwitchDepth \in Int /\ gMaxDepth \in Int /\ gCurrentDepth \in Nat
  BY DEF TypeOK, Modes
<1>3. gMaxDepth = -1 \/ gSwitchDepth * gCurrentDepth < gMaxDepth
  BY DEF Position
<1>4. QED
  BY <1>1, <1>2, <1>3, Limits

LEMMA PositionKept ==
  ASSUME TypeOK, Modes, Position, [Next]_vars
  PROVE  Position'
<1> USE DEF range, depths, search, gremlin, files, user
<1>0. /\ gIsOn \in BOOLEAN /\ steered \in BOOLEAN
      /\ gCurrentGremlin \in Numbers /\ gTheGremlin \in Gremlins
      /\ gTheGremlin.number \in Numbers /\ gTheGremlin.counter \in Nat
      /\ gTheGremlin.until \in Int
      /\ gSwitchDepth \in Int /\ gMaxDepth \in Int
      /\ ~steered => gCurrentDepth \in Nat
  BY EventTyped DEF TypeOK, Gremlins, Modes
<1>1. ASSUME steered' = TRUE PROVE Position'
  BY <1>1 DEF Position
\* The search is where it was, and no Gremlin is on or selected.
<1>2. ASSUME gIsOn' = FALSE, ~Selected', UNCHANGED <<suspended, steered, ended, range, depths, halted>>
      PROVE  Position'
  <2>1. InRange' = InRange
    BY <1>2 DEF InRange
  <2>2. "nextFromRootState" \notin pending' /\ "nextFromSuspendState" \notin pending'
    BY <1>2 DEF Selected
  <2>3. QED
    BY <1>2, <2>1, <2>2 DEF Position
\* The search is where it was, the Gremlin still or again on, and no state saved.
<1>3. ASSUME ~steered, gIsOn \/ Selected, gIsOn', "nextFromRootState" \notin pending',
             "nextFromSuspendState" \notin pending', ~ended,
             UNCHANGED <<suspended, steered, ended, range, depths, search>>,
             gSwitchDepth > 0 =>
               /\ gTheGremlin'.until = Lim(gCurrentDepth + 1)
               /\ gTheGremlin'.counter >= gSwitchDepth * gCurrentDepth
               /\ "saveSuspendState" \in pending' => gTheGremlin'.counter = gTheGremlin'.until
               /\ pending' = {} /\ gTheGremlin'.counter >= gTheGremlin'.until =>
                    AtDepth(gCurrentGremlin, gCurrentDepth + 1)
      PROVE  Position'
  <2>1. InRange' = InRange /\ ~Selected'
    BY <1>3 DEF InRange, Selected
  <2>2. ASSUME NEW n, NEW y PROVE (AtDepth(n, y)' <=> AtDepth(n, y)) /\ Lim(y)' = Lim(y)
    BY <1>3 DEF AtDepth, Lim
  <2>3. PICK c, d : c = gCurrentGremlin /\ d = gCurrentDepth
    OBVIOUS
  <2>4. gSwitchDepth > 0 =>
          /\ \A n \in InRange \ (halted \cup {c}) : AtDepth(n, IF n < c THEN d + 1 ELSE d)'
          /\ gTheGremlin'.until = Lim(d + 1)'
          /\ pending' = {} /\ gTheGremlin'.counter >= gTheGremlin'.until => AtDepth(c, d + 1)'
    BY <1>3, <2>2, <2>3 DEF Position
  <2>5. c = gCurrentGremlin' /\ d = gCurrentDepth'
    BY <1>3, <2>3
  <2>6. gCurrentGremlin' \notin halted'
    BY <1>3 DEF Position
  <2>7. /\ gSwitchDepth > 0 /\ gMaxDepth # -1 => gSwitchDepth * gCurrentDepth < gMaxDepth
        /\ ~ended'
    BY <1>3 DEF Position
  <2>8. QED
    BY <1>3, <2>1, <2>4, <2>5, <2>6, <2>7 DEF Position
<1>4. ASSUME NEW info \in Infos, New(info) PROVE Position'
  <2>1. /\ \A n \in Numbers : suspended'[n] = NoFile
        /\ gIsOn' = TRUE /\ halted' = {} /\ gCurrentDepth' = 0 /\ pending' = {} /\ ended' = FALSE
    BY <1>4 DEF New
  <2>2. TypeOK' /\ Modes'
    BY <1>4, NewTyped, ModesKept DEF Next
  <2>3. InRange' \subseteq Numbers /\ gCurrentGremlin' \in Numbers
    <3>1. \A a, b \in Numbers : a..b \subseteq Numbers
      BY ConstantsAssumption DEF Numbers, ConstantsAssumption
    <3>2. gGremlinStartNumber' \in Numbers /\ gGremlinStopNumber' \in Numbers
      BY <2>2 DEF TypeOK
    <3>3. gCurrentGremlin' \in InRange'
      BY <2>2 DEF TypeOK, InRange
    <3>4. QED
      BY <3>1, <3>2, <3>3 DEF InRange
  <2>4. /\ gTheGremlin'.counter = 0
        /\ gTheGremlin'.until = IF gMaxDepth' = -1 THEN gSwitchDepth'
                                ELSE Smaller(gSwitchDepth', gMaxDepth')
    BY <1>4 DEF New, NewGremlin
  <2>5. gSwitchDepth' \in Int /\ gMaxDepth' \in Int /\ (gMaxDepth' = -1 \/ gMaxDepth' >= 1)
    BY <2>1, <2>2 DEF TypeOK, Modes
  <2>6. gSwitchDepth' * 0 = 0 /\ gSwitchDepth' * (0 + 1) = gSwitchDepth'
    <3>1. \A a \in Int : a * 0 = 0 /\ a * (0 + 1) = a
      OBVIOUS
    <3>2. QED
      BY <2>5, <3>1
  <2>7. gTheGremlin'.until = Lim(gCurrentDepth + 1)'
    BY <2>1, <2>4, <2>6 DEF Lim
  <2>8. gSwitchDepth' > 0 => gTheGremlin'.until > 0
    BY <2>4, <2>5 DEF Smaller
  <2>9. ~Selected'
    BY <2>1 DEF Selected
  <2>10. \A n \in InRange' : ~(n < gCurrentGremlin') /\ suspended'[n] = NoFile
    <3>1. gCurrentGremlin' = gGremlinStartNumber' /\ gGremlinStartNumber' \in Int
          /\ gGremlinStopNumber' \in Int
      BY <1>4, <2>2, Numbered DEF New, TypeOK
    <3>2. \A n \in InRange' : ~(n < gCurrentGremlin')
      BY <3>1 DEF InRange
    <3>3. QED
      BY <2>1, <2>3, <3>2
  <2>11. gSwitchDepth' > 0 =>
           \A n \in InRange' \ (halted' \cup {gCurrentGremlin'}) :
             AtDepth(n, IF n < gCurrentGremlin THEN gCurrentDepth + 1 ELSE gCurrentDepth)'
    <3> SUFFICES ASSUME NEW n \in InRange'
                 PROVE  AtDepth(n, IF n < gCurrentGremlin THEN gCurrentDepth + 1
                                                          ELSE gCurrentDepth)'
      OBVIOUS
    <3>1. ~(n < gCurrentGremlin') /\ suspended'[n] = NoFile /\ gCurrentDepth' = 0
      BY <2>1, <2>10
    <3>2. QED
      BY <3>1 DEF AtDepth
  <2>12. ~(gTheGremlin'.counter >= gTheGremlin'.until) \/ ~(gSwitchDepth' > 0)
    BY <2>4, <2>5, <2>8 DEF Smaller
  <2>13. /\ gSwitchDepth' > 0 /\ gMaxDepth' # -1 => gSwitchDepth' * gCurrentDepth' < gMaxDepth'
         /\ gTheGremlin'.counter >= gSwitchDepth' * gCurrentDepth'
         /\ gCurrentGremlin' \notin halted'
    <3>1. gSwitchDepth' * gCurrentDepth' = 0
      BY <2>1, <2>6
    <3>2. gMaxDepth' # -1 => 0 < gMaxDepth'
      BY <2>5
    <3>3. gTheGremlin'.counter >= 0
      BY <2>4
    <3>4. gCurrentGremlin' \notin halted'
      BY <2>1
    <3>5. QED
      BY <3>1, <3>2, <3>3, <3>4
  <2>14. "nextFromRootState" \notin pending' /\ "saveSuspendState" \notin pending'
         /\ "nextFromSuspendState" \notin pending' /\ ~ended'
    BY <2>1
  <2>15. QED
    BY <2>7, <2>9, <2>11, <2>12, <2>13, <2>14 DEF Position
<1>5. CASE StopEventReached
  <2>1. /\ Running /\ AtLimit /\ NextGremlin(halted)
        /\ UNCHANGED <<range, depths, halted, suspended, steered>>
    BY <1>5 DEF StopEventReached
  <2>2. ~steered /\ gSwitchDepth > 0 => AtDepth(gCurrentGremlin, gCurrentDepth + 1)
    BY <1>0, <2>1 DEF Position, Running, AtLimit
  <2>3. QED
    BY <2>1, <2>2, TurnEnds
<1>6. CASE ErrorEncountered
  <2>1. /\ Running /\ halted' = halted \cup {gCurrentGremlin} /\ NextGremlin(halted')
        /\ UNCHANGED <<range, depths, suspended, steered>>
    BY <1>6 DEF ErrorEncountered
  <2>2. halted \subseteq halted' /\ gCurrentGremlin \in halted'
    BY <2>1
  <2>3. QED
    BY <2>1, <2>2, TurnEnds
<1>7. CASE EnterDebugger
  <2>1. gIsOn' = FALSE /\ pending' = {}
        /\ UNCHANGED <<suspended, steered, ended, range, depths, halted>>
    BY <1>7 DEF EnterDebugger, Running
  <2>2. QED
    BY <1>2, <2>1 DEF Selected
<1>8. ASSUME PostEvent, Running PROVE Position'
  <2> SUFFICES ASSUME ~steered PROVE Position'
    BY <1>8 DEF Position, PostEvent
  <2>1. /\ gIsOn /\ gIsOn' = gIsOn /\ pending = {} /\ ~ended
        /\ UNCHANGED <<suspended, steered, ended, range, depths, search>>
    BY <1>8 DEF PostEvent, Running, Modes
  <2>2. /\ gTheGremlin'.counter = gTheGremlin.counter + 1
        /\ gTheGremlin'.until = gTheGremlin.until
    BY <1>0, <1>8 DEF PostEvent, Gremlins
  <2>3. pending' = IF gTheGremlin.until > 0 /\ gTheGremlin.counter + 1 = gTheGremlin.until
                   THEN {"saveSuspendState"} ELSE {}
    BY <1>8 DEF PostEvent
  <2>4. ASSUME gSwitchDepth > 0
        PROVE  /\ gTheGremlin'.until = Lim(gCurrentDepth + 1)
               /\ gTheGremlin'.counter >= gSwitchDepth * gCurrentDepth
               /\ "saveSuspendState" \in pending' => gTheGremlin'.counter = gTheGremlin'.until
               /\ pending' = {} /\ gTheGremlin'.counter >= gTheGremlin'.until =>
                    AtDepth(gCurrentGremlin, gCurrentDepth + 1)
    <3>1. /\ gTheGremlin.until = Lim(gCurrentDepth + 1)
          /\ gTheGremlin.counter >= gSwitchDepth * gCurrentDepth
          /\ gTheGremlin.counter >= gTheGremlin.until =>
               AtDepth(gCurrentGremlin, gCurrentDepth + 1)
          /\ gMaxDepth # -1 => gSwitchDepth * gCurrentDepth < gMaxDepth
      BY <2>1, <2>4 DEF Position
    <3>2. /\ gSwitchDepth * gCurrentDepth \in Nat
          /\ Lim(gCurrentDepth) \in Int /\ Lim(gCurrentDepth + 1) \in Int
          /\ Lim(gCurrentDepth) = gSwitchDepth * gCurrentDepth
          /\ Lim(gCurrentDepth) < Lim(gCurrentDepth + 1)
      BY <2>1, <2>4, NextLimit
    <3>3. gTheGremlin.until > 0
      BY <3>1, <3>2
    <3>4. pending' = {} => gTheGremlin.counter + 1 # gTheGremlin.until
      BY <2>3, <3>3
    <3>5. gTheGremlin'.counter >= gSwitchDepth * gCurrentDepth
      BY <1>0, <2>2, <3>1, <3>2
    <3>6. pending' = {} /\ gTheGremlin'.counter >= gTheGremlin'.until =>
            gTheGremlin.counter >= gTheGremlin.until
      BY <1>0, <2>2, <3>4
    <3>7. "saveSuspendState" \in pending' => gTheGremlin'.counter = gTheGremlin'.until
      BY <2>2, <2>3
    <3>8. QED
      BY <2>2, <3>1, <3>5, <3>6, <3>7
  <2>5. "nextFromRootState" \notin pending' /\ "nextFromSuspendState" \notin pending'
    BY <2>3
  <2>6. QED
    BY <1>3, <2>1, <2>4, <2>5
<1>9. CASE PostFakePenEvent
  BY <1>8, <1>9 DEF PostFakePenEvent
<1>10. CASE PostFakeEvent
  <2>1. CASE PostEvent
    BY <1>8, <1>10, <2>1 DEF PostFakeEvent
  <2>2. CASE ~PostEvent
    <3> SUFFICES ASSUME ~steered PROVE Position'
      BY <1>10, <2>2 DEF Position, PostFakeEvent
    <3>1. /\ gIsOn /\ pending = {} /\ gTheGremlin.until = 0
          /\ UNCHANGED <<range, depths, search, gIsOn, pending, files, ended, user>>
      BY <1>10, <2>2 DEF PostFakeEvent, Running
    <3>2. ~(gSwitchDepth > 0)
      <4> SUFFICES ASSUME gSwitchDepth > 0 PROVE FALSE
        OBVIOUS
      <4>1. gTheGremlin.until = Lim(gCurrentDepth + 1)
        BY <3>1 DEF Position
      <4>2. QED
        BY <3>1, <4>1, NextLimit
    <3>3. ~ended /\ gIsOn'
      BY <3>1 DEF Modes
    <3>4. "nextFromRootState" \notin pending' /\ "nextFromSuspendState" \notin pending'
      BY <3>1
    <3>5. QED
      BY <1>3, <3>1, <3>2, <3>3, <3>4
  <2>3. QED
    BY <2>1, <2>2
<1>11. CASE SaveSuspendedState
  <2> SUFFICES ASSUME ~steered PROVE Position'
    BY <1>11 DEF Position, SaveSuspendedState
  <2>1. /\ gIsOn /\ gIsOn' = gIsOn /\ pending' = {} /\ ~ended /\ "saveSuspendState" \in pending
        /\ UNCHANGED <<range, depths, search, gTheGremlin, steered, ended>>
    BY <1>11 DEF SaveSuspendedState, Modes
  <2>2. \A n \in Numbers :
          suspended'[n] = IF n = gCurrentGremlin THEN Session(gIsOn) ELSE suspended[n]
    BY <1>0, <1>11 DEF SaveSuspendedState, TypeOK
  <2>3. Session(gIsOn).gremlin = gTheGremlin
    BY DEF Session
  <2>4. Session(gIsOn) # NoFile
    BY DEF Session, NoFile
  <2> HIDE DEF Session
  <2>5. PICK c, d : c = gCurrentGremlin /\ d = gCurrentDepth
    OBVIOUS
  <2>6. c = gCurrentGremlin' /\ d = gCurrentDepth' /\ InRange' = InRange /\ ~Selected'
    BY <2>1, <2>5 DEF InRange, Selected
  <2>7. ASSUME NEW y PROVE Lim(y)' = Lim(y)
    BY <2>1 DEF Lim
  <2>8. ASSUME NEW n \in InRange, n # c, NEW y PROVE AtDepth(n, y)' <=> AtDepth(n, y)
    BY <2>2, <2>5, <2>7, <2>8, RangeTyped DEF AtDepth
  <2>9. ASSUME gSwitchDepth > 0
        PROVE  /\ gTheGremlin'.until = Lim(d + 1)' /\ AtDepth(c, d + 1)'
               /\ gTheGremlin'.counter >= gSwitchDepth' * d
    <3>1. /\ gTheGremlin.until = Lim(d + 1) /\ gTheGremlin.counter = gTheGremlin.until
          /\ gTheGremlin.counter >= gSwitchDepth * d
      BY <2>1, <2>5, <2>9 DEF Position
    <3>2. suspended'[c].gremlin.counter = Lim(d + 1)' /\ suspended'[c] # NoFile
      BY <1>0, <2>2, <2>3, <2>4, <2>5, <2>7, <3>1
    <3>3. d + 1 # 0
      BY <1>0, <2>5
    <3>4. QED
      BY <2>1, <2>7, <3>1, <3>2, <3>3 DEF AtDepth
  <2>10. gSwitchDepth > 0 =>
           \A n \in InRange \ (halted \cup {c}) : AtDepth(n, IF n < c THEN d + 1 ELSE d)'
    <3>1. gSwitchDepth > 0 =>
            \A n \in InRange \ (halted \cup {c}) : AtDepth(n, IF n < c THEN d + 1 ELSE d)
      BY <2>1, <2>5 DEF Position
    <3>2. QED
      BY <2>8, <3>1
  <2>11. /\ gCurrentGremlin' \notin halted'
         /\ gSwitchDepth > 0 /\ gMaxDepth # -1 => gSwitchDepth * gCurrentDepth < gMaxDepth
    BY <2>1 DEF Position
  <2>12. QED
    BY <2>1, <2>6, <2>9, <2>10, <2>11 DEF Position
<1>12. CASE LoadRootState
  <2>1. gIsOn' = FALSE /\ pending' = {}
        /\ UNCHANGED <<suspended, steered, ended, range, depths, halted>>
    BY <1>12 DEF LoadRootState, Modes
  <2>2. QED
    BY <1>2, <2>1 DEF Selected
<1>13. ASSUME NEW flag, NEW file, LoadFails(flag, file) PROVE Position'
  <2>1. gIsOn' = FALSE /\ pending' = {}
        /\ UNCHANGED <<suspended, steered, ended, range, depths, halted>>
    BY <1>13 DEF LoadFails, Modes
  <2>2. QED
    BY <1>2, <2>1 DEF Selected
<1>14. CASE LoadStateFails
  BY <1>13, <1>14 DEF LoadStateFails
<1>15. CASE NextGremlinFromRootState
  <2> SUFFICES ASSUME ~steered PROVE Position'
    BY <1>15 DEF Position, NextGremlinFromRootState
  <2>1. /\ "nextFromRootState" \in pending /\ pending' = {} /\ gIsOn' /\ ~ended
        /\ gTheGremlin' = NewGremlin(gCurrentGremlin, gSwitchDepth, gMaxDepth)
        /\ UNCHANGED <<range, depths, search, suspended, steered, ended>>
    BY <1>15 DEF NextGremlinFromRootState, Modes
  <2>2. Selected
    BY <2>1 DEF Selected
  <2>3. ASSUME gSwitchDepth > 0
        PROVE  /\ gTheGremlin'.until = Lim(gCurrentDepth + 1)
               /\ gTheGremlin'.counter >= gSwitchDepth * gCurrentDepth
               /\ ~(gTheGremlin'.counter >= gTheGremlin'.until)
    <3>1. gCurrentDepth = 0
      BY <2>1, <2>3 DEF Position
    <3>2. /\ gTheGremlin'.counter = 0
          /\ gTheGremlin'.until = IF gMaxDepth = -1 THEN gSwitchDepth
                                  ELSE Smaller(gSwitchDepth, gMaxDepth)
      BY <2>1 DEF NewGremlin
    <3>3. gSwitchDepth * 0 = 0 /\ gSwitchDepth * (0 + 1) = gSwitchDepth
      BY <1>0
    <3>4. gTheGremlin'.until = Lim(gCurrentDepth + 1)
      BY <3>1, <3>2, <3>3 DEF Lim
    <3>5. Lim(gCurrentDepth + 1) > 0 /\ Lim(gCurrentDepth + 1) \in Int
      BY <2>2, <2>3, NextLimit
    <3>6. QED
      BY <3>1, <3>2, <3>3, <3>4, <3>5
  <2>4. QED
    BY <1>3, <2>1, <2>2, <2>3
<1>16. CASE NextGremlinFromSuspendState
  <2> SUFFICES ASSUME ~steered PROVE Position'
    BY <1>16 DEF Position, NextGremlinFromSuspendState
  <2> DEFINE file == suspended[gCurrentGremlin]
  <2>1. /\ "nextFromSuspendState" \in pending /\ pending' = {} /\ gIsOn' /\ ~ended
        /\ file # NoFile
        /\ gTheGremlin' = [Loaded(file) EXCEPT !.until = Lim(gCurrentDepth + 1)]
        /\ UNCHANGED <<range, depths, search, suspended, steered, ended>>
    BY <1>16 DEF NextGremlinFromSuspendState, Modes, Lim
  <2>2. Selected
    BY <2>1 DEF Selected
  <2>3. file.gremlin \in Gremlins
    BY <1>0, <2>1, GremlinsTyped DEF TypeOK
  <2>4. /\ gTheGremlin'.until = Lim(gCurrentDepth + 1)
        /\ gTheGremlin'.counter = file.gremlin.counter
    BY <2>1, <2>3 DEF Loaded, Gremlins
  <2>5. ASSUME gSwitchDepth > 0
        PROVE  /\ gTheGremlin'.counter >= gSwitchDepth * gCurrentDepth
               /\ ~(gTheGremlin'.counter >= gTheGremlin'.until)
    <3>1. file.gremlin.counter = Lim(gCurrentDepth)
      BY <2>1, <2>2, <2>5 DEF Position, AtDepth
    <3>2. QED
      BY <2>2, <2>4, <2>5, <3>1, NextLimit
  <2>6. QED
    BY <1>3, <2>1, <2>2, <2>4, <2>5
<1>17. CASE Stop
  <2>1. gIsOn' = FALSE /\ pending' = {}
        /\ UNCHANGED <<suspended, steered, ended, range, depths, halted>>
    BY <1>17 DEF Stop, Command
  <2>2. QED
    BY <1>2, <2>1 DEF Selected
<1>18. CASE Resume \/ Step
  BY <1>1, <1>18 DEF Resume, Step
<1>19. CASE Reset
  <2>1. gIsOn' = FALSE /\ pending' = {}
        /\ UNCHANGED <<suspended, steered, ended, range, depths, halted>>
    BY <1>19 DEF Reset, Command
  <2>2. QED
    BY <1>2, <2>1 DEF Selected
<1>20. CASE UNCHANGED vars
  BY <1>20 DEF vars, Position, Selected, AtDepth, Lim, InRange
<1>21. QED
  BY <1>4, <1>5, <1>6, <1>7, <1>9, <1>10, <1>11, <1>12, <1>14, <1>15, <1>16, <1>17, <1>18,
     <1>19, <1>20 DEF Next, ExecuteSpecial

LEMMA PositionStart == Init => Position
BY DEF Init, Position, Selected

\* Hordes search breadth first: NextGremlin never selects a Gremlin that has halted, and it
\* does not go on to the next depth before every other one has been suspended at this one.
THEOREM Search == Spec => []BreadthFirst
<1>1. TypeOK /\ Modes /\ Position /\ [Next]_vars => (TypeOK /\ Modes /\ Position)'
  BY TypesKept, ModesKept, PositionKept
<1>2. Position => BreadthFirst
  BY DEF Position, BreadthFirst, AtDepth, Lim
<1>3. QED
  BY <1>1, <1>2, TypesStart, OwnStart, PositionStart, PTL DEF Spec

\* Unless somebody asks for a switch depth of zero, EndHordes is called only when each of
\* the Gremlins of a horde has halted in error or has been suspended at the maximum.
THEOREM Completed ==
  ASSUME \A info \in Infos : info.fSwitchDepth # 0
  PROVE  Spec => []EndsWhenAllHalted
<1> DEFINE Switching == gSwitchDepth = -1 => gMaxDepth = -1
<1>1. Init => Switching
  BY DEF Init
<1>2. Switching /\ [Next]_vars => Switching'
  <2> SUFFICES ASSUME Switching, [Next]_vars PROVE Switching'
    OBVIOUS
  <2>1. ASSUME NEW info \in Infos, New(info) PROVE Switching'
    <3>1. info.fSwitchDepth \in Nat \cup {-1} /\ info.fSwitchDepth # 0
      BY ConstantsAssumption DEF ConstantsAssumption
    <3>2. QED
      BY <2>1, <3>1 DEF New, Forever
  <2>2. CASE UNCHANGED depths
    BY <2>2 DEF depths
  <2>3. QED
    BY <2>1, <2>2 DEF Next, vars, StopEventReached, PostFakeEvent, PostFakePenEvent, PostEvent,
       ErrorEncountered, EnterDebugger, ExecuteSpecial, SaveSuspendedState, LoadRootState,
       LoadStateFails, LoadFails, NextGremlinFromRootState, NextGremlinFromSuspendState,
       Stop, Resume, Step, Reset
<1>3. TypeOK /\ Modes /\ Position /\ [Next]_vars => (TypeOK /\ Modes /\ Position)'
  BY TypesKept, ModesKept, PositionKept
<1>4. TypeOK /\ Modes /\ Position /\ Switching => EndsWhenAllHalted
  <2> SUFFICES ASSUME TypeOK, Modes, Position, Switching, ended, ~steered
               PROVE  \A n \in InRange \ halted :
                        suspended[n] # NoFile /\ suspended[n].gremlin.counter >= gMaxDepth
    BY DEF EndsWhenAllHalted
  <2>1. gSwitchDepth > 0 \/ gMaxDepth = -1
    BY DEF Modes, TypeOK
  <2>2. QED
    BY <2>1 DEF Position
<1> HIDE DEF Switching
<1>5. QED
  BY <1>1, <1>2, <1>3, <1>4, TypesStart, OwnStart, PositionStart, PTL DEF Spec

=============================================================================
