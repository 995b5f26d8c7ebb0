---------------------------- MODULE EmRPC_proofs ----------------------------
(***************************************************************************)
(* Theorems about EmRPC, for any number of sockets, of scripts and of scripts *)
(* that leave, and for all that may go wrong.                               *)
(*                                                                          *)
(* A request of a script is in one place at a time: received and not read,  *)
(* in the packet that the UI thread handles, in the list of waiters, or     *)
(* answered.  Asking says so for each socket; the answers, the list and the *)
(* suspension of the device are right because of it.                        *)
(***************************************************************************)
EXTENDS EmRPC, Recursion_proofs, FiniteSetTheorems, SequenceTheorems, TLAPS

\* SignalWaiters is under way.
Signalling == "signal" \in {pc["ui"], pc["cpu"]}

\* The iterators, the lock and the packet go with where the threads are.
Placed ==
  /\ at # 0 /\ iter # 0
  /\ pc["ui"] \in {"poll", "packet"} => at <= Len(gSockets)
  /\ packet # "none" <=> pc["ui"] = "packet"
  /\ gMutex = "ui" <=> pc["ui"] \in {"signal", "rpcIdle"}
  /\ gMutex = "cpu" <=> pc["cpu"] = "signal"
  /\ gMutex = "free" => iter = 1
  /\ signalledOne => Signalling
  /\ quitting <=> pc["ui"] \in {"signal", "shutdown", "down"}
  /\ quitting => pc["cpu"] = "done"
  /\ pc["ui"] \in {"shutdown", "down"} => gSLPTimeouts = <<>>

\* One socket listens, or none after a failure, and none that is to be freed does.
Listening == {s \in Sockets : state[s] = "Listening"}

Listener ==
  /\ \A s \in fDeleted : state[s] = "Unconnected"
  /\ quitting \/ IF listenerLost THEN Listening = {} ELSE \E s \in Sockets : Listening = {s}

\* No list has a socket twice.
Distinct(list) == \A i, j \in 1 .. Len(list) : list[i] = list[j] => i = j

Waiting ==
  /\ \A i \in 1 .. Len(gSLPTimeouts) :
       state[gSLPTimeouts[i]] = "Connected" /\ gSLPTimeouts[i] \notin fDeleted
  /\ Distinct(gSLPTimeouts)

\* Where the request of a script may be.
Asks(s)    == request[s] # "none"
Handled(s) == pc["ui"] = "packet" /\ Current = s
Waits(s)   == \E i \in 1 .. Len(gSLPTimeouts) :
                 gSLPTimeouts[i] = s /\ (Signalling => iter <= i)
Replied(s) == replies[s] # 0

AskingOf(s) ==
  /\ Asks(s)    => ~Handled(s) /\ ~Waits(s) /\ ~Replied(s)
  /\ Handled(s) => ~Waits(s) /\ ~Replied(s)
  /\ Waits(s)   => ~Replied(s)
  /\ Asks(s) \/ Handled(s) \/ Waits(s) \/ Replied(s) =>
       peer[s] # "away" /\ (peer[s] = "up" => client[s] = "asked")
  /\ Replied(s) => replies[s] = 1 /\ peer[s] = "up"
                     /\ (state[s] = "Connected" \/ pc["ui"] = "down")
  /\ Handled(s) => \/ state[s] = "Connected" /\ s \notin fDeleted
                   \/ s \in fDeleted /\ peer[s] # "up"
  /\ request[s] \in {"cutFooter", "cutInside"} => peer[s] # "up"
  /\ request[s] \in Requests \/ (Handled(s) /\ s \notin fDeleted) \/ Waits(s) =>
       peer[s] = "up" \/ leftInside

Asking == \A s \in Sockets : AskingOf(s)

\* The device is suspended, or about to be, for a script that is there or was.
Suspending ==
  /\ external <= 1
  /\ external = 1 \/ signalledOne => owed # {} \/ leftInside
  /\ pc["cpu"] = "signal" => external = 0

IInv == TypeOK /\ Placed /\ Listener /\ (~wild => Waiting /\ Asking /\ Suspending)

-----------------------------------------------------------------------------
(* The operators of EmRPC. *)

\* The loop of Without, list item by list item.
LEMMA Filtering ==
  ASSUME NEW S, NEW list \in Seq(S), NEW set
  PROVE  \E kept :
           /\ kept[0] = <<>>
           /\ \A n \in 1 .. Len(list) :
                kept[n] = IF list[n] \in set THEN kept[n - 1]
                          ELSE Append(kept[n - 1], list[n])
           /\ Without(list, set) = kept[Len(list)]
<1> DEFINE N       == Len(list)
           Item(n, before) == IF list[n] \in set THEN before ELSE Append(before, list[n])
           step    == [p \in (1 .. N) \X Seq(S) |-> Item(p[1], p[2])]
           F(kept) == [n \in 0 .. N |-> IF n = 0 THEN <<>>
                                        ELSE IF list[n] \in set THEN kept[n - 1]
                                        ELSE Append(kept[n - 1], list[n])]
           the     == CHOOSE kept : kept = F(kept)
<1>1. N \in Nat /\ \A n \in 1 .. N : list[n] \in S
  BY LenProperties, ElementOfSeq
<1>2. \A n \in 1 .. N : \A before \in Seq(S) : Item(n, before) \in Seq(S)
  BY <1>1, AppendProperties
<1> DEFINE D == Seq(S)
<1>3. IsBody(step, D, N)
  <2> HIDE DEF Item
  <2>1. QED
    BY <1>2 DEF IsBody
<1>4. <<>> \in D
  BY EmptySeq
<1>5. PICK kept : /\ kept \in [0 .. N -> D]
                  /\ kept[0] = <<>>
                  /\ \A n \in 1 .. N : kept[n] = step[<<n, kept[n - 1]>>]
  <2>1. \E kept : IsLoop(kept, D, <<>>, N, step)
    <3> HIDE DEF N, step, D
    <3>1. QED
      BY <1>1, <1>3, <1>4, Recursion
  <2> HIDE DEF N, step, D
  <2>2. QED
    BY <2>1 DEF IsLoop
<1>6. kept = F(kept)
  <2>1. \A n \in 0 .. N : kept[n] = F(kept)[n]
    <3> SUFFICES ASSUME NEW n \in 0 .. N PROVE kept[n] = F(kept)[n]
      OBVIOUS
    <3>1. CASE n = 0
      BY <1>1, <1>5, <3>1
    <3>2. CASE n # 0
      <4>1. n \in 1 .. N /\ n - 1 \in 0 .. N
        BY <1>1, <3>2
      <4>2. kept[n - 1] \in Seq(S)
        BY <1>5, <4>1
      <4>3. step[<<n, kept[n - 1]>>] = Item(n, kept[n - 1])
        BY <4>1, <4>2
      <4>4. F(kept)[n] = Item(n, kept[n - 1])
        BY <3>2
      <4>5. QED
        BY <1>5, <4>1, <4>3, <4>4
    <3>3. QED
      BY <3>1, <3>2
  <2>2. DOMAIN F(kept) = 0 .. N /\ F(kept) = [n \in 0 .. N |-> F(kept)[n]]
    OBVIOUS
  <2> HIDE DEF F
  <2>3. kept = [n \in 0 .. N |-> kept[n]]
    BY <1>5
  <2>4. QED
    BY <2>1, <2>2, <2>3
<1>7. the = F(the)
  BY <1>6
<1>8. Without(list, set) = the[Len(list)]
  BY DEF Without
<1>9. /\ the[0] = <<>>
      /\ \A n \in 1 .. Len(list) :
           the[n] = IF list[n] \in set THEN the[n - 1] ELSE Append(the[n - 1], list[n])
  <2>1. \A n \in 0 .. N : the[n] = F(the)[n]
    <3> HIDE DEF F, the
    <3>1. QED
      BY <1>7
  <2> HIDE DEF the
  <2>2. QED
    BY <1>1, <2>1
<1>10. QED
  <2> HIDE DEF the
  <2>1. QED
    BY <1>8, <1>9

\* What Without returns: items of the list that are not in the set, none of them twice
\* that is not twice in the list.
LEMMA WithoutProperties ==
  ASSUME NEW S, NEW list \in Seq(S), NEW set
  PROVE  /\ Without(list, set) \in Seq(S)
         /\ \A i \in 1 .. Len(Without(list, set)) :
              /\ Without(list, set)[i] \notin set
              /\ \E j \in 1 .. Len(list) : list[j] = Without(list, set)[i]
         /\ Distinct(list) => Distinct(Without(list, set))
<1>1. PICK kept :
        /\ kept[0] = <<>>
        /\ \A n \in 1 .. Len(list) :
             kept[n] = IF list[n] \in set THEN kept[n - 1] ELSE Append(kept[n - 1], list[n])
        /\ Without(list, set) = kept[Len(list)]
  BY Filtering
<1> DEFINE Good(n) ==
      /\ kept[n] \in Seq(S)
      /\ \A i \in 1 .. Len(kept[n]) :
           kept[n][i] \notin set /\ \E j \in 1 .. n : list[j] = kept[n][i]
      /\ Distinct(list) => Distinct(kept[n])
           T == {n \in Nat : n <= Len(list) => Good(n)}
<1>2. Len(list) \in Nat /\ \A n \in 1 .. Len(list) : list[n] \in S
  BY LenProperties, ElementOfSeq
<1>3. 0 \in T
  <2>1. kept[0] = <<>>
    BY <1>1, <1>2
  <2>2. <<>> \in Seq(S) /\ Len(<<>>) = 0
    BY EmptySeq
  <2>3. Good(0)
    BY <2>1, <2>2 DEF Distinct
  <2>4. QED
    BY <2>3
<1>4. \A n \in T : n + 1 \in T
  <2> SUFFICES ASSUME NEW n \in Nat, n + 1 <= Len(list), Good(n)
               PROVE  Good(n + 1)
    BY <1>2
  <2>1. n + 1 \in 0 .. Len(list) /\ n + 1 # 0 /\ n + 1 - 1 = n /\ n + 1 \in 1 .. Len(list)
    OBVIOUS
  <2>2. CASE list[n + 1] \in set
    <3>1. kept[n + 1] = kept[n]
      BY <1>1, <2>1, <2>2
    <3>2. QED
      BY <3>1
  <2>3. CASE list[n + 1] \notin set
    <3>1. kept[n + 1] = Append(kept[n], list[n + 1])
      <4> DEFINE m == n + 1
      <4>1. m \in 1 .. Len(list) /\ m - 1 = n
        BY <2>1
      <4> HIDE DEF m
      <4>2. kept[m] = IF list[m] \in set THEN kept[m - 1] ELSE Append(kept[m - 1], list[m])
        BY <4>1, <1>1
      <4>3. kept[m] = IF list[m] \in set THEN kept[n] ELSE Append(kept[n], list[m])
        BY <4>1, <4>2
      <4>4. kept[m] = Append(kept[n], list[m])
        BY <4>3, <2>3, Zenon DEF m
      <4>5. QED
        BY <4>4 DEF m
    <3> DEFINE k == kept[n]
               x == list[n + 1]
    <3>2. /\ Append(k, x) \in Seq(S)
          /\ Len(Append(k, x)) = Len(k) + 1
          /\ Len(k) \in Nat
          /\ \A i \in 1 .. Len(k) : Append(k, x)[i] = k[i]
          /\ Append(k, x)[Len(k) + 1] = x
      BY <1>2, <2>1, AppendProperties, LenProperties
    <3>3. \A i \in 1 .. Len(Append(k, x)) :
            Append(k, x)[i] \notin set /\ \E j \in 1 .. n + 1 : list[j] = Append(k, x)[i]
      <4> SUFFICES ASSUME NEW i \in 1 .. Len(Append(k, x))
                   PROVE  Append(k, x)[i] \notin set
                            /\ \E j \in 1 .. n + 1 : list[j] = Append(k, x)[i]
        OBVIOUS
      <4>1. CASE i = Len(k) + 1
        BY <4>1, <3>2, <2>3
      <4>2. CASE i # Len(k) + 1
        <5>1. i \in 1 .. Len(k)
          BY <4>2, <3>2
        <5>2. PICK j \in 1 .. n : list[j] = k[i]
          BY <5>1
        <5>3. j \in 1 .. n + 1
          OBVIOUS
        <5>4. QED
          BY <5>1, <5>2, <5>3, <3>2
      <4>3. QED
        BY <4>1, <4>2
    <3>4. ASSUME Distinct(list) PROVE Distinct(Append(k, x))
      <4>1. Distinct(k)
        BY <3>4
      <4>2. \A i \in 1 .. Len(k) : k[i] # x
        <5> SUFFICES ASSUME NEW i \in 1 .. Len(k) PROVE k[i] # x
          OBVIOUS
        <5>1. PICK j \in 1 .. n : list[j] = k[i]
          OBVIOUS
        <5>2. j \in 1 .. Len(list) /\ j # n + 1
          BY <1>2, <2>1
        <5>3. QED
          BY <5>1, <5>2, <3>4, <2>1 DEF Distinct
      <4>3. QED
        <5> DEFINE a == Append(k, x)
        <5>1. Len(a) = Len(k) + 1 /\ Len(k) \in Nat /\ a[Len(k) + 1] = x
          BY <3>2
        <5>2. \A i \in 1 .. Len(k) : a[i] = k[i]
          BY <3>2
        <5>3. \A i \in 1 .. Len(a) : i \in 1 .. Len(k) \/ i = Len(k) + 1
          BY <5>1
        <5> HIDE DEF k, x, a
        <5>4. Distinct(a)
          BY <4>1, <4>2, <5>1, <5>2, <5>3 DEF Distinct
        <5>5. QED
          BY <5>4 DEF a
    <3>5. QED
      BY <3>1, <3>2, <3>3, <3>4
  <2>4. QED
    BY <2>2, <2>3
<1>5. Good(Len(list))
  <2>1. \A n \in Nat : n \in T
    <3>1. T \in SUBSET Nat
      OBVIOUS
    <3> HIDE DEF T
    <3>2. QED
      BY <1>3, <1>4, <3>1, Induction
  <2>2. QED
    BY <2>1, <1>2
<1>6. QED
  BY <1>1, <1>5

LEMMA WithoutEmpty ==
  ASSUME NEW set
  PROVE  Without(<<>>, set) = <<>>
<1>1. <<>> \in Seq({}) /\ Len(<<>>) = 0
  BY EmptySeq
<1>2. PICK kept : kept[0] = <<>> /\ Without(<<>>, set) = kept[Len(<<>>)]
  BY <1>1, Filtering
<1>3. QED
  BY <1>1, <1>2

\* A connected socket is closed, and its packets are taken out of the list.
LEMMA Closing ==
  ASSUME TypeOK, NEW s \in Sockets, CloseConnected(s)
  PROVE  /\ state' = [state EXCEPT ![s] = "Unconnected"]
         /\ fDeleted' = fDeleted \cup {s}
         /\ wild' \in BOOLEAN
         /\ wild' \/ ~Iterating \/ gSLPTimeouts' = gSLPTimeouts
         /\ gSLPTimeouts' \in Seq(Sockets)
         /\ \A i \in 1 .. Len(gSLPTimeouts') :
              /\ gSLPTimeouts'[i] # s
              /\ \E j \in 1 .. Len(gSLPTimeouts) : gSLPTimeouts[j] = gSLPTimeouts'[i]
         /\ Distinct(gSLPTimeouts) => Distinct(gSLPTimeouts')
<1>1. gSLPTimeouts \in Seq(Sockets)
  BY DEF TypeOK
<1>2. gSLPTimeouts' = Without(gSLPTimeouts, {s})
  BY DEF CloseConnected
<1>3. /\ gSLPTimeouts' \in Seq(Sockets)
      /\ \A i \in 1 .. Len(gSLPTimeouts') :
           /\ gSLPTimeouts'[i] \notin {s}
           /\ \E j \in 1 .. Len(gSLPTimeouts) : gSLPTimeouts[j] = gSLPTimeouts'[i]
      /\ Distinct(gSLPTimeouts) => Distinct(gSLPTimeouts')
  <2> DEFINE left == Without(gSLPTimeouts, {s})
  <2>1. /\ left \in Seq(Sockets)
        /\ \A i \in 1 .. Len(left) :
             left[i] \notin {s} /\ \E j \in 1 .. Len(gSLPTimeouts) : gSLPTimeouts[j] = left[i]
        /\ Distinct(gSLPTimeouts) => Distinct(left)
    BY <1>1, WithoutProperties
  <2>2. gSLPTimeouts' = left
    BY <1>2
  <2> HIDE DEF left
  <2>3. QED
    BY <2>1, <2>2
<1>4. wild' = (Iterating /\ gSLPTimeouts' # gSLPTimeouts)
  BY DEF CloseConnected
<1>5. wild' \in BOOLEAN /\ (wild' \/ ~Iterating \/ gSLPTimeouts' = gSLPTimeouts)
  BY <1>4 DEF Iterating
<1>6. QED
  BY <1>3, <1>5 DEF CloseConnected

\* Sockets that are to be freed are, and nothing is left of their connections.
LEMMA Pruning ==
  ASSUME TypeOK, AddAndDeletePending
  PROVE  /\ gSockets' \in Seq(Sockets) /\ gSocketsToBeAdded' = <<>>
         /\ \E gone \in SUBSET fDeleted :
              /\ fDeleted' = fDeleted \ gone
              /\ state' = [s \in Sockets |-> IF s \in gone THEN "None" ELSE state[s]]
              /\ peer' = [s \in Sockets |-> IF s \in gone THEN "away" ELSE peer[s]]
              /\ request' = [s \in Sockets |-> IF s \in gone THEN "none" ELSE request[s]]
              /\ client' = [s \in Sockets |-> IF s \in gone THEN "idle" ELSE client[s]]
              /\ replies' = [s \in Sockets |-> IF s \in gone THEN 0 ELSE replies[s]]
<1>1. gSockets \o gSocketsToBeAdded \in Seq(Sockets)
  BY ConcatProperties DEF TypeOK
<1>2. Without(gSockets \o gSocketsToBeAdded, fDeleted) \in Seq(Sockets)
  BY <1>1, WithoutProperties
<1>3. Range(gSockets \o gSocketsToBeAdded) \cap fDeleted \in SUBSET fDeleted
  OBVIOUS
<1>4. QED
  BY <1>2, <1>3 DEF AddAndDeletePending, Kept

\* A packet is sent, if its socket is connected and there is somebody to receive it.
LEMMA Sending ==
  ASSUME TypeOK, NEW s \in Sockets, peer[s] # "away", Send(s)
  PROVE  /\ request' = request /\ client' = client
         /\ peer' \in [Sockets -> {"away", "up", "left", "reset"}]
         /\ replies' \in [Sockets -> Nat]
         /\ \A x \in Sockets : x # s => peer'[x] = peer[x] /\ replies'[x] = replies[x]
         /\ peer'[s] # "away" /\ (peer'[s] = "up" <=> peer[s] = "up")
         /\ \/ replies'[s] = replies[s]
            \/ replies'[s] = replies[s] + 1 /\ peer[s] = "up" /\ state[s] = "Connected"
<1>1. CASE state[s] = "Connected" /\ peer[s] = "up"
  <2>1. replies' = [replies EXCEPT ![s] = @ + 1] /\ UNCHANGED <<peer, request, client>>
    BY <1>1 DEF Send
  <2>2. replies \in [Sockets -> Nat]
    BY DEF TypeOK
  <2>3. QED
    BY <1>1, <2>1, <2>2 DEF TypeOK
<1>2. CASE state[s] = "Connected" /\ peer[s] = "left"
  BY <1>2 DEF Send, TypeOK
<1>3. CASE state[s] = "Connected" /\ peer[s] = "reset"
  BY <1>3 DEF Send, TypeOK, net
<1>4. CASE state[s] # "Connected"
  BY <1>4 DEF Send, TypeOK, net
<1>5. peer[s] \in {"up", "left", "reset"}
  BY DEF TypeOK
<1>6. QED
  BY <1>1, <1>2, <1>3, <1>4, <1>5

\* One item of a list is taken out.
LEMMA Removing ==
  ASSUME NEW S, NEW list \in Seq(S), NEW n \in 1 .. Len(list)
  PROVE  /\ RemoveAt(list, n) \in Seq(S)
         /\ Len(RemoveAt(list, n)) = Len(list) - 1
         /\ \A i \in 1 .. Len(list) - 1 :
              RemoveAt(list, n)[i] = list[IF i < n THEN i ELSE i + 1]
<1> DEFINE front == SubSeq(list, 1, n - 1)
           back  == SubSeq(list, n + 1, Len(list))
<1>1. Len(list) \in Nat /\ \A i \in 1 .. Len(list) : list[i] \in S
  BY LenProperties, ElementOfSeq
<1>2. RemoveAt(list, n) = front \o back
  BY DEF RemoveAt
<1>3. /\ front \in Seq(S) /\ Len(front) = n - 1
      /\ \A i \in 1 .. n - 1 : front[i] = list[i]
  <2>1. 1 \in Int /\ n - 1 \in Int /\ \A i \in 1 .. n - 1 : list[i] \in S
    BY <1>1
  <2>2. /\ front \in Seq(S)
        /\ Len(front) = IF 1 <= n - 1 THEN n - 1 - 1 + 1 ELSE 0
        /\ \A i \in 1 .. n - 1 - 1 + 1 : front[i] = list[1 + i - 1]
    BY <2>1, SubSeqProperties
  <2> HIDE DEF front
  <2>3. \A i \in 1 .. n - 1 : i \in 1 .. n - 1 - 1 + 1 /\ 1 + i - 1 = i
    BY <1>1
  <2>4. QED
    BY <1>1, <2>2, <2>3
<1>4. /\ back \in Seq(S) /\ Len(back) = Len(list) - n
      /\ \A i \in 1 .. Len(list) - n : back[i] = list[n + i]
  <2>1. n + 1 \in Int /\ Len(list) \in Int /\ \A i \in n + 1 .. Len(list) : list[i] \in S
    BY <1>1
  <2>2. /\ back \in Seq(S)
        /\ Len(back) = IF n + 1 <= Len(list) THEN Len(list) - (n + 1) + 1 ELSE 0
        /\ \A i \in 1 .. Len(list) - (n + 1) + 1 : back[i] = list[n + 1 + i - 1]
    BY <2>1, SubSeqProperties
  <2> HIDE DEF back
  <2>3. \A i \in 1 .. Len(list) - n : i \in 1 .. Len(list) - (n + 1) + 1 /\ n + 1 + i - 1 = n + i
    BY <1>1
  <2>4. QED
    BY <1>1, <2>2, <2>3
<1> HIDE DEF front, back
<1>5. /\ front \o back \in Seq(S)
      /\ Len(front \o back) = Len(front) + Len(back)
      /\ \A i \in 1 .. Len(front) + Len(back) :
           (front \o back)[i] = IF i <= Len(front) THEN front[i] ELSE back[i - Len(front)]
  BY <1>3, <1>4, ConcatProperties
<1>6. \A i \in 1 .. Len(list) - 1 : (front \o back)[i] = list[IF i < n THEN i ELSE i + 1]
  <2> SUFFICES ASSUME NEW i \in 1 .. Len(list) - 1
               PROVE  (front \o back)[i] = list[IF i < n THEN i ELSE i + 1]
    OBVIOUS
  <2>1. i \in 1 .. Len(front) + Len(back)
    BY <1>1, <1>3, <1>4
  <2>2. CASE i < n
    <3>1. i \in 1 .. n - 1 /\ i <= Len(front)
      BY <1>1, <1>3, <2>2
    <3>2. QED
      BY <1>3, <1>5, <2>1, <2>2, <3>1
  <2>3. CASE ~(i < n)
    <3>1. i - (n - 1) \in 1 .. Len(list) - n /\ ~(i <= n - 1) /\ n + (i - (n - 1)) = i + 1
      BY <1>1, <2>3
    <3>2. back[i - (n - 1)] = list[i + 1]
      BY <3>1, <1>4
    <3>3. (front \o back)[i] = back[i - (n - 1)]
      BY <1>3, <1>5, <2>1, <3>1
    <3>4. QED
      BY <2>3, <3>2, <3>3
  <2>4. QED
    BY <2>2, <2>3
<1>7. QED
  BY <1>1, <1>2, <1>3, <1>4, <1>5, <1>6

\* In particular a waiter out of the list of waiters.
LEMMA ListRemoved ==
  ASSUME TypeOK, iter \in 1 .. Len(gSLPTimeouts), gSLPTimeouts' = RemoveAt(gSLPTimeouts, iter)
  PROVE  /\ gSLPTimeouts' \in Seq(Sockets) /\ Len(gSLPTimeouts') = Len(gSLPTimeouts) - 1
         /\ \A i \in 1 .. Len(gSLPTimeouts) - 1 :
              gSLPTimeouts'[i] = gSLPTimeouts[IF i < iter THEN i ELSE i + 1]
<1> DEFINE left == RemoveAt(gSLPTimeouts, iter)
<1>1. gSLPTimeouts \in Seq(Sockets)
  BY DEF TypeOK
<1>2. /\ left \in Seq(Sockets) /\ Len(left) = Len(gSLPTimeouts) - 1
      /\ \A i \in 1 .. Len(gSLPTimeouts) - 1 :
           left[i] = gSLPTimeouts[IF i < iter THEN i ELSE i + 1]
  BY <1>1, Removing
<1>3. gSLPTimeouts' = left
  OBVIOUS
<1> HIDE DEF left
<1>4. QED
  BY <1>2, <1>3

\* The socket at which the UI thread is, and the one that the iterator has reached.
LEMMA CurrentSocket ==
  ASSUME TypeOK, Placed, at <= Len(gSockets) \/ pc["ui"] \in {"poll", "packet"}
  PROVE  Current \in Sockets
<1>1. at \in 1 .. Len(gSockets)
  BY LenProperties DEF TypeOK, Placed
<1>2. QED
  BY <1>1, ElementOfSeq DEF TypeOK, Current

LEMMA NextWaiter ==
  ASSUME TypeOK, Placed, Waiting, Asking, iter <= Len(gSLPTimeouts)
  PROVE  /\ iter \in 1 .. Len(gSLPTimeouts)
         /\ gSLPTimeouts[iter] \in Sockets
         /\ Waits(gSLPTimeouts[iter])
         /\ peer[gSLPTimeouts[iter]] # "away"
         /\ state[gSLPTimeouts[iter]] = "Connected"
<1>1. iter \in 1 .. Len(gSLPTimeouts)
  BY LenProperties DEF TypeOK, Placed
<1>2. gSLPTimeouts[iter] \in Sockets
  BY <1>1, ElementOfSeq DEF TypeOK
<1>3. Waits(gSLPTimeouts[iter])
  <2>1. iter <= iter
    BY <1>1
  <2>2. QED
    BY <1>1, <2>1 DEF Waits
<1>4. peer[gSLPTimeouts[iter]] # "away"
  BY <1>2, <1>3 DEF Asking, AskingOf
<1>5. state[gSLPTimeouts[iter]] = "Connected"
  BY <1>1 DEF Waiting
<1>6. QED
  BY <1>1, <1>2, <1>3, <1>4, <1>5

\* A walk sends a packet to the waiter that the iterator has reached.
LEMMA SendingToWaiter ==
  ASSUME TypeOK, Placed, Waiting, Asking, SendToWaiter, NEW w, w = gSLPTimeouts[iter]
  PROVE  /\ iter \in 1 .. Len(gSLPTimeouts)
         /\ w \in Sockets /\ Waits(w) /\ peer[w] # "away" /\ state[w] = "Connected"
         /\ wild' = (peer[w] = "reset")
         /\ request' = request /\ client' = client
         /\ peer' \in [Sockets -> {"away", "up", "left", "reset"}]
         /\ replies' \in [Sockets -> Nat]
         /\ \A x \in Sockets : x # w => peer'[x] = peer[x] /\ replies'[x] = replies[x]
         /\ peer'[w] # "away" /\ (peer'[w] = "up" <=> peer[w] = "up")
         /\ \/ replies'[w] = replies[w]
            \/ replies'[w] = replies[w] + 1 /\ peer[w] = "up"
<1>1. iter <= Len(gSLPTimeouts) /\ Send(w) /\ wild' = (state[w] = "None" \/ ~Sent(w))
  BY DEF SendToWaiter
<1>2. /\ iter \in 1 .. Len(gSLPTimeouts)
      /\ w \in Sockets /\ Waits(w) /\ peer[w] # "away" /\ state[w] = "Connected"
  BY <1>1, NextWaiter
<1>3. wild' = (peer[w] = "reset")
  BY <1>1, <1>2 DEF Sent
<1>4. QED
  BY <1>1, <1>2, <1>3, Sending

-----------------------------------------------------------------------------
(* Types, and where the threads are. *)

\* A thread goes somewhere else, the other one stays.
LEMMA Going ==
  ASSUME TypeOK, NEW t \in Threads, NEW where, Goto(t, where)
  PROVE  /\ pc' = [ui |-> IF t = "ui" THEN where ELSE pc["ui"],
                   cpu |-> IF t = "cpu" THEN where ELSE pc["cpu"]]
         /\ pc'["ui"] = IF t = "ui" THEN where ELSE pc["ui"]
         /\ pc'["cpu"] = IF t = "cpu" THEN where ELSE pc["cpu"]
  BY DEF TypeOK, Goto, Threads

LEMMA SignalWaiterTyped ==
  ASSUME TypeOK, Placed, Waiting, Asking, NEW t \in Threads, SignalWaiter(t)
  PROVE  TypeOK' /\ Placed'
<1> USE DEF objects, net, waiters, control, history
<1> DEFINE w == gSLPTimeouts[iter]
<1>1. /\ pc[t] = "signal" /\ SendToWaiter
      /\ signalledOne' = TRUE /\ iter' = iter + 1
      /\ owed' = IF peer[w] = "up" THEN owed \cup {w} ELSE owed
      /\ UNCHANGED <<objects, gSLPTimeouts, gMutex, external, pc, at, packet, quitting,
                     listenerLost, hangUps, leftInside>>
  BY DEF SignalWaiter, Walks
<1>2. gMutex # "free" /\ Signalling
  BY <1>1 DEF Placed, Threads, Signalling
<1>3. /\ w \in Sockets /\ wild' = (peer[w] = "reset")
      /\ request' = request /\ client' = client
      /\ peer' \in [Sockets -> {"away", "up", "left", "reset"}]
      /\ replies' \in [Sockets -> Nat]
  BY <1>1, SendingToWaiter
<1> HIDE DEF w
<1>4. TypeOK'
  BY <1>1, <1>3 DEF TypeOK
<1>5. Placed'
  BY <1>1, <1>2 DEF TypeOK, Placed, Signalling
<1>6. QED
  BY <1>4, <1>5

LEMMA SignalledTyped ==
  ASSUME TypeOK, Placed, NEW t \in Threads, Signalled(t)
  PROVE  TypeOK' /\ Placed'
<1> USE DEF objects, net, waiters, control, history
<1>1. /\ pc[t] = "signal" /\ gMutex = t
      /\ gSLPTimeouts' = <<>> /\ gMutex' = "free" /\ iter' = 1 /\ signalledOne' = FALSE
      /\ external' \in Nat
      /\ Goto(t, IF t = "cpu" THEN "run" ELSE "shutdown")
      /\ UNCHANGED <<objects, net, at, packet, quitting, history, wild>>
  BY DEF Signalled, Walks, TypeOK
<1>2. gSLPTimeouts' \in Seq(Sockets)
  BY <1>1, EmptySeq
<1>3. pc' \in [ui: {"loop", "idle", "poll", "packet", "hung", "signal", "rpcLock", "rpcIdle",
                   "shutdown", "down"},
              cpu: {"run", "signal", "done"}]
  <2>1. pc' = [ui |-> IF t = "ui" THEN "shutdown" ELSE pc["ui"],
               cpu |-> IF t = "cpu" THEN "run" ELSE pc["cpu"]]
    BY <1>1, Going DEF Threads
  <2>2. QED
    BY <2>1 DEF TypeOK
<1>4. TypeOK'
  BY <1>1, <1>2, <1>3 DEF TypeOK
<1>5. Placed'
  BY <1>1, Going DEF TypeOK, Placed, Threads, Signalling
<1>6. QED
  BY <1>4, <1>5

LEMMA TimesOutTyped ==
  ASSUME TypeOK, Placed, Waiting, Asking, TimesOut
  PROVE  TypeOK' /\ Placed'
<1> USE DEF objects, net, waiters, control, history
<1> DEFINE w == gSLPTimeouts[iter]
<1>1. /\ pc["ui"] = "rpcIdle" /\ SendToWaiter
      /\ gSLPTimeouts' = RemoveAt(gSLPTimeouts, iter)
      /\ UNCHANGED <<objects, gMutex, signalledOne, external, control, history>>
  BY DEF TimesOut, Walks
<1>2. /\ w \in Sockets /\ wild' = (peer[w] = "reset") /\ iter \in 1 .. Len(gSLPTimeouts)
      /\ request' = request /\ client' = client
      /\ peer' \in [Sockets -> {"away", "up", "left", "reset"}]
      /\ replies' \in [Sockets -> Nat]
  BY <1>1, SendingToWaiter
<1>3. gSLPTimeouts' \in Seq(Sockets)
  BY <1>1, <1>2, Removing DEF TypeOK
<1> HIDE DEF w
<1>4. TypeOK'
  BY <1>1, <1>2, <1>3 DEF TypeOK
<1>5. Placed'
  BY <1>1 DEF TypeOK, Placed, Signalling
<1>6. QED
  BY <1>4, <1>5

LEMMA UIStepTyped ==
  ASSUME IInv, ~wild, UIStep
  PROVE  TypeOK' /\ Placed'
<1> USE DEF objects, net, waiters, control, history
<1> TypeOK /\ Placed /\ Waiting /\ Asking
  BY DEF IInv
<1>1. CASE IdleAll \/ IdleAllDone
  <2>1. PICK where \in {"idle", "rpcLock"} :
          /\ AddAndDeletePending /\ Goto("ui", where) /\ at' = 1
          /\ pc["ui"] \in {"loop", "idle"}
          /\ UNCHANGED <<waiters, iter, packet, quitting, history, wild>>
    BY <1>1 DEF IdleAll, IdleAllDone
  <2>2. /\ pc' = [ui |-> where, cpu |-> pc["cpu"]]
        /\ pc'["ui"] = where /\ pc'["cpu"] = pc["cpu"]
    BY <2>1, Going DEF Threads
  <2>3. TypeOK'
    <3>1. PICK gone \in SUBSET fDeleted :
            /\ fDeleted' = fDeleted \ gone
            /\ state' = [s \in Sockets |-> IF s \in gone THEN "None" ELSE state[s]]
            /\ peer' = [s \in Sockets |-> IF s \in gone THEN "away" ELSE peer[s]]
            /\ request' = [s \in Sockets |-> IF s \in gone THEN "none" ELSE request[s]]
            /\ client' = [s \in Sockets |-> IF s \in gone THEN "idle" ELSE client[s]]
            /\ replies' = [s \in Sockets |-> IF s \in gone THEN 0 ELSE replies[s]]
      BY <2>1, Pruning
    <3>2. gSockets' \in Seq(Sockets) /\ gSocketsToBeAdded' \in Seq(Sockets)
      BY <2>1, Pruning, EmptySeq
    <3>3. pc' \in [ui: {"loop", "idle", "poll", "packet", "hung", "signal", "rpcLock", "rpcIdle",
                       "shutdown", "down"},
                  cpu: {"run", "signal", "done"}]
      BY <2>2 DEF TypeOK
    <3>4. QED
      BY <2>1, <3>1, <3>2, <3>3 DEF TypeOK
  <2>4. Placed'
    BY <2>1, <2>2 DEF TypeOK, Placed, Signalling
  <2>5. QED
    BY <2>3, <2>4
<1>2. CASE NoData
  BY <1>2, Going DEF NoData, Advance, TypeOK, Placed, Signalling, Threads
<1>3. CASE AcceptConnection
  <2>1. Current \in Sockets /\ pc["ui"] = "idle"
    BY <1>3, CurrentSocket DEF AcceptConnection
  <2>2. CASE CreateNewListener(Current) /\ UNCHANGED <<gSockets, net, control>>
    <3>1. UNCHANGED <<gSockets, net, control, waiters, owed, hangUps, leftInside, wild>>
      BY <1>3, <2>2 DEF AcceptConnection
    <3>2. PICK f \in Sockets :
            /\ gSocketsToBeAdded' = Append(gSocketsToBeAdded, f)
            /\ state' \in [Sockets -> {"None", "Unconnected", "Listening", "Connected"}]
            /\ fDeleted' \subseteq Sockets /\ listenerLost' \in BOOLEAN
      <4>1. PICK f \in Free :
              /\ gSocketsToBeAdded' = Append(gSocketsToBeAdded, f)
              /\ \/ /\ state' = [state EXCEPT ![Current] = "Connected", ![f] = "Listening"]
                    /\ UNCHANGED <<fDeleted, listenerLost>>
                 \/ /\ state' = [state EXCEPT ![Current] = "Connected", ![f] = "Unconnected"]
                    /\ fDeleted' = fDeleted \cup {f}
                    /\ listenerLost' = TRUE
        BY <2>2 DEF CreateNewListener
      <4>2. f \in Sockets
        BY DEF Free
      <4>3. state' \in [Sockets -> {"None", "Unconnected", "Listening", "Connected"}]
        BY <2>1, <4>1, <4>2 DEF TypeOK
      <4>4. fDeleted' \subseteq Sockets /\ listenerLost' \in BOOLEAN
        <5>1. \/ fDeleted' = fDeleted /\ listenerLost' = listenerLost
              \/ fDeleted' = fDeleted \cup {f} /\ listenerLost' = TRUE
          BY <4>1
        <5>2. fDeleted \subseteq Sockets /\ listenerLost \in BOOLEAN
          BY DEF TypeOK
        <5>3. QED
          BY <4>2, <5>1, <5>2
      <4>5. QED
        BY <4>1, <4>2, <4>3, <4>4
    <3>3. gSocketsToBeAdded' \in Seq(Sockets)
      BY <3>2, AppendProperties DEF TypeOK
    <3>4. TypeOK'
      BY <3>1, <3>2, <3>3 DEF TypeOK
    <3>5. Placed'
      BY <3>1 DEF Placed, Signalling
    <3>6. QED
      BY <3>4, <3>5
  <2>3. CASE ~(CreateNewListener(Current) /\ UNCHANGED <<gSockets, net, control>>)
    <3>1. /\ state' = [state EXCEPT ![Current] = "Unconnected"]
          /\ peer' = [peer EXCEPT ![Current] = "left"]
          /\ request' = [request EXCEPT ![Current] = "none"]
          /\ client' = [client EXCEPT ![Current] = "idle"]
          /\ listenerLost' = TRUE /\ Goto("ui", "idle") /\ at' = at + 1
          /\ UNCHANGED <<fDeleted, gSockets, gSocketsToBeAdded, replies, iter, packet,
                         quitting, waiters, owed, hangUps, leftInside, wild>>
      BY <1>3, <2>3 DEF AcceptConnection, Advance
    <3>2. pc' = pc
      BY <2>1, <3>1 DEF Goto, TypeOK
    <3>3. TypeOK'
      BY <2>1, <3>1, <3>2 DEF TypeOK
    <3>4. Placed'
      BY <2>1, <3>1, <3>2 DEF TypeOK, Placed, Signalling
    <3>5. QED
      BY <3>3, <3>4
  <2>4. QED
    BY <2>2, <2>3
<1>4. CASE FindDisconnected
  <2>1. /\ Current \in Sockets /\ CloseConnected(Current) /\ Advance
        /\ pc["ui"] \in {"idle", "poll"}
        /\ UNCHANGED <<gSockets, gSocketsToBeAdded, net, gMutex, signalledOne, external,
                       iter, packet, quitting, history>>
    BY <1>4, CurrentSocket DEF FindDisconnected, Connected
  <2>2. /\ state' = [state EXCEPT ![Current] = "Unconnected"]
        /\ fDeleted' = fDeleted \cup {Current}
        /\ wild' \in BOOLEAN
        /\ gSLPTimeouts' \in Seq(Sockets)
    BY <2>1, Closing
  <2>3. TypeOK' /\ Placed'
    BY <2>1, <2>2, Going DEF Advance, TypeOK, Placed, Signalling, Threads
  <2>4. QED
    BY <2>3
<1>5. CASE ReadPacket
  <2>1. /\ Current \in Sockets /\ pc["ui"] \in {"idle", "poll"} /\ at <= Len(gSockets)
        /\ request' = [request EXCEPT ![Current] = "none"]
        /\ UNCHANGED <<gSockets, gSocketsToBeAdded, peer, client, replies, gMutex,
                       signalledOne, external, at, iter, quitting, history>>
    BY <1>5, CurrentSocket DEF ReadPacket, Connected, Placed
  <2>2. PICK where \in {"hung", "packet"} :
          /\ Goto("ui", where)
          /\ where = "hung" => packet' = packet
          /\ where = "packet" => packet' \in Requests
          /\ state' \in [Sockets -> {"None", "Unconnected", "Listening", "Connected"}]
          /\ fDeleted' \subseteq Sockets /\ wild' \in BOOLEAN
          /\ gSLPTimeouts' \in Seq(Sockets)
    <3>1. ASSUME CloseConnected(Current)
          PROVE  /\ state' \in [Sockets -> {"None", "Unconnected", "Listening", "Connected"}]
                 /\ fDeleted' \subseteq Sockets /\ wild' \in BOOLEAN
                 /\ gSLPTimeouts' \in Seq(Sockets)
      <4>1. /\ state' = [state EXCEPT ![Current] = "Unconnected"]
            /\ fDeleted' = fDeleted \cup {Current} /\ wild' \in BOOLEAN
            /\ gSLPTimeouts' \in Seq(Sockets)
        BY <2>1, <3>1, Closing
      <4>2. QED
        BY <2>1, <4>1 DEF TypeOK
    <3>2. QED
      BY <1>5, <2>1, <3>1 DEF ReadPacket, TypeOK
  <2>3. /\ pc' = [ui |-> where, cpu |-> pc["cpu"]]
        /\ pc'["ui"] = where /\ pc'["cpu"] = pc["cpu"]
    BY <2>2, Going DEF Threads
  <2>4. pc' \in [ui: {"loop", "idle", "poll", "packet", "hung", "signal", "rpcLock", "rpcIdle",
                     "shutdown", "down"},
                cpu: {"run", "signal", "done"}]
    BY <2>3 DEF TypeOK
  <2>5. TypeOK'
    BY <2>1, <2>2, <2>4 DEF TypeOK, Requests
  <2>6. Placed'
    BY <2>1, <2>2, <2>3 DEF TypeOK, Placed, Signalling, Requests
  <2>7. QED
    BY <2>5, <2>6
<1>6. CASE SignalWaiter("ui")
  BY <1>6, SignalWaiterTyped DEF Threads
<1>7. CASE Signalled("ui")
  BY <1>7, SignalledTyped DEF Threads
<1>8. CASE NotYet
  BY <1>8 DEF NotYet, Walks, TypeOK, Placed, Signalling
<1>9. CASE TimesOut
  BY <1>9, TimesOutTyped
<1>10. CASE RPCIdleDone
  <2>1. /\ pc["ui"] = "rpcIdle" /\ Goto("ui", "loop") /\ gMutex = "ui"
        /\ gMutex' = "free" /\ iter' = 1
        /\ UNCHANGED <<objects, net, gSLPTimeouts, signalledOne, external, at, packet,
                 quitting, history, wild>>
    BY <1>10 DEF RPCIdleDone, Walks
  <2>2. QED
    BY <2>1, Going DEF TypeOK, Placed, Signalling, Threads
<1>11. CASE Shutdown
  <2> DEFINE all == Range(gSockets \o gSocketsToBeAdded)
  <2>1. /\ pc["ui"] = "shutdown" /\ Goto("ui", "down")
        /\ state' = [s \in Sockets |-> IF s \in all THEN "None" ELSE state[s]]
        /\ gSLPTimeouts' = Without(<<>>, all)
        /\ gSockets' = <<>> /\ gSocketsToBeAdded' = <<>> /\ fDeleted' = {}
        /\ UNCHANGED <<net, gMutex, signalledOne, external, at, iter, packet, quitting,
                       history, wild>>
    BY <1>11 DEF Shutdown, Placed
  <2>2. gSLPTimeouts' = <<>>
    BY <2>1, WithoutEmpty
  <2>3. <<>> \in Seq(Sockets)
    BY EmptySeq
  <2> HIDE DEF all
  <2>4. TypeOK'
    BY <2>1, <2>2, <2>3 DEF TypeOK, Goto
  <2>5. Placed'
    BY <2>1, <2>2, Going DEF TypeOK, Placed, Signalling, Threads
  <2>6. QED
    BY <2>4, <2>5
<1>12. QED
  BY <1>1, <1>2, <1>3, <1>4, <1>5, <1>6, <1>7, <1>8, <1>9, <1>10, <1>11 DEF UIStep

LEMMA OtherStepTyped ==
  ASSUME IInv, ~wild,
         UIWaitingStep \/ NotHandled \/ Quit \/ CPUStep \/ DeviceSignals \/ ScriptStep
  PROVE  TypeOK' /\ Placed'
<1> USE DEF objects, net, waiters, control, history
<1> TypeOK /\ Placed /\ Waiting /\ Asking
  BY DEF IInv
<1>1. CASE HostSignalWait
  <2>1. /\ pc["ui"] = "packet" /\ pc["cpu"] = "run" /\ external' \in Nat
        /\ owed' \in {owed, {}}
        /\ gSLPTimeouts' = Append(gSLPTimeouts, Current)
        /\ wild' = (Current \in fDeleted)
        /\ Goto("ui", "poll") /\ packet' = "none"
        /\ UNCHANGED <<objects, net, gMutex, signalledOne, at, iter, quitting, listenerLost,
                       hangUps, leftInside>>
    BY <1>1 DEF HostSignalWait, CPUStopped, ResumeExternal, ResumeExternalThenEvtWakeup, TypeOK
  <2>2. gSLPTimeouts' \in Seq(Sockets)
    BY <2>1, CurrentSocket, AppendProperties DEF TypeOK
  <2>3. wild' \in BOOLEAN
    BY <2>1
  <2>4. TypeOK'
    BY <2>1, <2>2, <2>3 DEF TypeOK, Goto
  <2>5. Placed'
    BY <2>1, Going DEF TypeOK, Placed, Signalling, Threads
  <2>6. QED
    BY <2>4, <2>5
<1>2. CASE HostSignalResume
  <2>1. /\ pc["ui"] = "packet" /\ pc["cpu"] = "run" /\ external' \in Nat
        /\ owed' = {} /\ packet' = "none"
        /\ Send(Current)
        /\ UNCHANGED <<gSockets, gSocketsToBeAdded, gMutex, signalledOne, iter,
                       quitting, listenerLost, hangUps, leftInside>>
    BY <1>2 DEF HostSignalResume, CPUStopped, ResumeExternal, TypeOK
  <2>2. Current \in Sockets /\ peer[Current] # "away"
    BY <2>1, CurrentSocket DEF Asking, AskingOf, Handled
  <2>3. /\ request' = request /\ client' = client
        /\ peer' \in [Sockets -> {"away", "up", "left", "reset"}]
        /\ replies' \in [Sockets -> Nat]
    BY <2>1, <2>2, Sending
  <2>4. CASE Goto("ui", "poll") /\ UNCHANGED <<state, fDeleted, gSLPTimeouts, at, wild>>
    <3>1. TypeOK'
      BY <2>1, <2>3, <2>4 DEF TypeOK, Goto
    <3>2. Placed'
      BY <2>1, <2>4, Going DEF TypeOK, Placed, Signalling, Threads
    <3>3. QED
      BY <3>1, <3>2
  <2>5. CASE CloseConnected(Current) /\ Advance
    <3>1. /\ state' = [state EXCEPT ![Current] = "Unconnected"]
          /\ fDeleted' = fDeleted \cup {Current} /\ wild' \in BOOLEAN
          /\ gSLPTimeouts' \in Seq(Sockets)
      BY <2>2, <2>5, Closing
    <3>2. TypeOK'
      <4>1. /\ state' \in [Sockets -> {"None", "Unconnected", "Listening", "Connected"}]
            /\ fDeleted' \subseteq Sockets
        BY <2>2, <3>1 DEF TypeOK
      <4>2. at' \in Nat /\ Goto("ui", "idle")
        BY <2>5 DEF TypeOK, Advance
      <4>3. pc' \in [ui: {"loop", "idle", "poll", "packet", "hung", "signal", "rpcLock", "rpcIdle",
                         "shutdown", "down"},
                    cpu: {"run", "signal", "done"}]
        BY <4>2 DEF TypeOK, Goto
      <4>4. QED
        BY <2>1, <2>3, <3>1, <4>1, <4>2, <4>3 DEF TypeOK
    <3>3. Placed'
      BY <2>1, <2>5, Going DEF Advance, TypeOK, Placed, Signalling, Threads
    <3>4. QED
      BY <3>2, <3>3
  <2>6. QED
    BY <1>2, <2>4, <2>5 DEF HostSignalResume
<1>3. CASE RPCIdle
  <2>1. TypeOK'
    BY <1>3 DEF RPCIdle, StartWalk, TypeOK, Threads, Goto
  <2>2. Placed'
    BY <1>3, Going DEF RPCIdle, StartWalk, TypeOK, Placed, Signalling, Threads
  <2>3. QED
    BY <2>1, <2>2
<1>4. CASE NotHandled
  <2>1. /\ pc["ui"] = "packet" /\ packet' = "none"
        /\ \/ Goto("ui", "poll") /\ UNCHANGED at
           \/ Goto("ui", "idle") /\ at' = at + 1
        /\ client' \in [Sockets -> {"idle", "asked", "ignored"}]
        /\ UNCHANGED <<objects, peer, request, replies, waiters, iter, quitting, history,
                       wild>>
    BY <1>4, CurrentSocket DEF NotHandled, Advance, TypeOK
  <2>2. TypeOK'
    BY <2>1 DEF TypeOK, Goto
  <2>3. Placed'
    BY <2>1, Going DEF TypeOK, Placed, Signalling, Threads
  <2>4. QED
    BY <2>2, <2>3
<1>5. CASE Quit
  <2>1. TypeOK'
    BY <1>5 DEF Quit, StartWalk, TypeOK, Threads
  <2>2. Placed'
    BY <1>5 DEF Quit, StartWalk, TypeOK, Placed, Signalling, Threads
  <2>3. QED
    BY <2>1, <2>2
<1>6. CASE SignalWaiter("cpu")
  BY <1>6, SignalWaiterTyped DEF Threads
<1>7. CASE Signalled("cpu")
  BY <1>7, SignalledTyped DEF Threads
<1>8. CASE DeviceSignals
  <2>1. TypeOK'
    BY <1>8 DEF DeviceSignals, StartWalk, TypeOK, Threads, Goto
  <2>2. Placed'
    BY <1>8, Going DEF DeviceSignals, StartWalk, TypeOK, Placed, Signalling, Threads
  <2>3. QED
    BY <2>1, <2>2
<1>9. CASE ScriptStep
  <2>1. PICK s \in Sockets :
          \/ Dial(s) \/ GetReply(s)
          \/ \E what \in Requests : Ask(s, what)
          \/ \E how \in {"left", "reset"} : HangUp(s, how)
          \/ \E cut \in {"cutFooter", "cutInside"} : CutShort(s, cut)
    BY <1>9 DEF ScriptStep
  <2>2. UNCHANGED <<objects, waiters, control, wild>>
    BY <2>1 DEF Dial, GetReply, Ask, HangUp, CutShort
  <2>3. Placed'
    BY <2>2 DEF Placed, Signalling
  <2>4. CASE Dial(s)
    BY <2>3, <2>4 DEF Dial, TypeOK
  <2>5. CASE GetReply(s)
    BY <2>3, <2>5 DEF GetReply, TypeOK
  <2>6. CASE \E what \in Requests : Ask(s, what)
    BY <2>3, <2>6 DEF Ask, TypeOK
  <2>7. CASE \E how \in {"left", "reset"} : HangUp(s, how)
    BY <2>3, <2>7 DEF HangUp, TypeOK
  <2>8. CASE \E cut \in {"cutFooter", "cutInside"} : CutShort(s, cut)
    BY <2>3, <2>8 DEF CutShort, TypeOK
  <2>9. QED
    BY <2>1, <2>4, <2>5, <2>6, <2>7, <2>8
<1>10. QED
  BY <1>1, <1>2, <1>3, <1>4, <1>5, <1>6, <1>7, <1>8, <1>9 DEF UIWaitingStep, CPUStep

-----------------------------------------------------------------------------
(* One socket listens. *)

\* What a step that leaves the objects alone does not change.
LEMMA UnchangedListener ==
  ASSUME Listener, UNCHANGED <<state, fDeleted, listenerLost>>, quitting => quitting'
  PROVE  Listener'
<1>1. Listening' = Listening
  BY DEF Listening
<1>2. QED
  BY <1>1 DEF Listener

\* A connected socket that is closed did not listen.
LEMMA ClosedListener ==
  ASSUME TypeOK, Listener, NEW s \in Sockets, state[s] = "Connected", CloseConnected(s),
         UNCHANGED <<listenerLost, quitting>>
  PROVE  Listener'
<1>1. state' = [state EXCEPT ![s] = "Unconnected"] /\ fDeleted' = fDeleted \cup {s}
  BY DEF CloseConnected
<1>2. state \in [Sockets -> {"None", "Unconnected", "Listening", "Connected"}]
  BY DEF TypeOK
<1>3. Listening' = Listening
  BY <1>1, <1>2 DEF Listening
<1>4. \A x \in fDeleted' : state'[x] = "Unconnected"
  BY <1>1, <1>2 DEF Listener, TypeOK
<1>5. QED
  BY <1>3, <1>4 DEF Listener

LEMMA ListenerKept ==
  ASSUME IInv, ~wild, Next
  PROVE  Listener'
<1> USE DEF objects, net, waiters, control, history
<1> TypeOK /\ Placed /\ Listener /\ Asking
  BY DEF IInv
<1> DEFINE Quiet == UNCHANGED <<state, fDeleted, listenerLost>> /\ (quitting => quitting')
<1>1. CASE IdleAll \/ IdleAllDone
  <2>1. AddAndDeletePending /\ UNCHANGED <<listenerLost, quitting>>
    BY <1>1 DEF IdleAll, IdleAllDone
  <2>2. PICK gone \in SUBSET fDeleted :
          /\ fDeleted' = fDeleted \ gone
          /\ state' = [s \in Sockets |-> IF s \in gone THEN "None" ELSE state[s]]
    BY <2>1, Pruning
  <2>3. \A s \in Sockets : state'[s] = "Listening" <=> state[s] = "Listening"
    BY <2>2 DEF Listener
  <2>4. Listening' = Listening
    BY <2>3 DEF Listening
  <2>5. \A s \in fDeleted' : state'[s] = "Unconnected"
    BY <2>2 DEF Listener, TypeOK
  <2>6. QED
    BY <2>1, <2>4, <2>5 DEF Listener
<1>2. CASE AcceptConnection
  <2>1. /\ Current \in Sockets /\ pc["ui"] = "idle" /\ Current \notin fDeleted
        /\ state[Current] = "Listening"
        /\ UNCHANGED quitting
    BY <1>2, CurrentSocket DEF AcceptConnection
  <2>2. ~listenerLost /\ Listening = {Current}
    <3>1. ~quitting /\ Current \in Listening
      BY <2>1 DEF Placed, Listening
    <3>2. QED
      BY <3>1 DEF Listener
  <2>3. CASE CreateNewListener(Current)
    <3>1. PICK f \in Free :
            \/ /\ state' = [state EXCEPT ![Current] = "Connected", ![f] = "Listening"]
               /\ UNCHANGED <<fDeleted, listenerLost>>
            \/ /\ state' = [state EXCEPT ![Current] = "Connected", ![f] = "Unconnected"]
               /\ fDeleted' = fDeleted \cup {f}
               /\ listenerLost' = TRUE
      BY <2>3 DEF CreateNewListener
    <3>2. f \in Sockets /\ state[f] = "None" /\ f # Current /\ f \notin fDeleted
      BY <2>1 DEF Free, Listener
    <3>3. \A s \in Sockets : state[s] = "Listening" => s = Current
      BY <2>2 DEF Listening
    <3>4. CASE /\ state' = [state EXCEPT ![Current] = "Connected", ![f] = "Listening"]
               /\ UNCHANGED <<fDeleted, listenerLost>>
      <4>1. \A s \in Sockets : state'[s] = "Listening" <=> s = f
        BY <2>1, <3>2, <3>3, <3>4 DEF TypeOK
      <4>2. Listening' = {f}
        BY <3>2, <4>1 DEF Listening
      <4>3. \A s \in fDeleted' : state'[s] = "Unconnected"
        BY <2>1, <3>2, <3>4 DEF Listener, TypeOK
      <4>4. QED
        BY <2>2, <3>2, <3>4, <4>2, <4>3 DEF Listener
    <3>5. CASE /\ state' = [state EXCEPT ![Current] = "Connected", ![f] = "Unconnected"]
               /\ fDeleted' = fDeleted \cup {f}
               /\ listenerLost' = TRUE
      <4>1. \A s \in Sockets : state'[s] # "Listening"
        BY <2>1, <3>2, <3>3, <3>5 DEF TypeOK
      <4>2. Listening' = {}
        BY <4>1 DEF Listening
      <4>3. \A s \in fDeleted' : state'[s] = "Unconnected"
        BY <2>1, <3>2, <3>5 DEF Listener, TypeOK
      <4>4. QED
        BY <3>5, <4>2, <4>3 DEF Listener
    <3>6. QED
      BY <3>1, <3>4, <3>5
  <2>4. CASE ~CreateNewListener(Current)
    <3>1. /\ state' = [state EXCEPT ![Current] = "Unconnected"] /\ listenerLost' = TRUE
          /\ fDeleted' = fDeleted
      BY <1>2, <2>4 DEF AcceptConnection
    <3>2. \A s \in Sockets : state[s] = "Listening" => s = Current
      BY <2>2 DEF Listening
    <3>3. \A s \in Sockets : state'[s] # "Listening"
      BY <2>1, <3>1, <3>2 DEF TypeOK
    <3>4. Listening' = {}
      BY <3>3 DEF Listening
    <3>5. \A s \in fDeleted' : state'[s] = "Unconnected"
      BY <2>1, <3>1 DEF Listener, TypeOK
    <3>6. QED
      BY <3>1, <3>4, <3>5 DEF Listener
  <2>5. QED
    BY <2>3, <2>4
<1>3. CASE FindDisconnected \/ (ReadPacket /\ CloseConnected(Current))
  <2>1. /\ Current \in Sockets /\ state[Current] = "Connected" /\ CloseConnected(Current)
        /\ UNCHANGED <<listenerLost, quitting>>
    BY <1>3, CurrentSocket DEF FindDisconnected, ReadPacket, Connected
  <2>2. QED
    BY <2>1, ClosedListener
<1>4. CASE ReadPacket /\ ~CloseConnected(Current)
  <2>1. Quiet
    BY <1>4 DEF ReadPacket
  <2>2. QED
    BY <2>1, UnchangedListener
<1>5. CASE HostSignalResume
  <2>1. pc["ui"] = "packet" /\ UNCHANGED <<listenerLost, quitting>>
    BY <1>5 DEF HostSignalResume, CPUStopped
  <2>2. CASE Sent(Current)
    <3>1. Quiet
      BY <1>5, <2>1, <2>2 DEF HostSignalResume
    <3>2. QED
      BY <3>1, UnchangedListener
  <2>3. CASE ~Sent(Current)
    <3>1. /\ Current \in Sockets /\ state[Current] = "Connected" /\ CloseConnected(Current)
      BY <1>5, <2>1, <2>3, CurrentSocket DEF HostSignalResume, Sent
    <3>2. QED
      BY <2>1, <3>1, ClosedListener
  <2>4. QED
    BY <2>2, <2>3
<1>6. CASE Shutdown
  BY <1>6 DEF Shutdown, Listener, Placed
<1>7. CASE NoData \/ NotYet \/ TimesOut \/ RPCIdleDone
  <2>1. Quiet
    BY <1>7 DEF NoData, Advance, NotYet, TimesOut, RPCIdleDone
  <2>2. QED
    BY <2>1, UnchangedListener
<1>8. CASE \E t \in Threads : SignalWaiter(t) \/ Signalled(t)
  <2>1. Quiet
    BY <1>8 DEF SignalWaiter, Signalled
  <2>2. QED
    BY <2>1, UnchangedListener
<1>9. CASE HostSignalWait \/ RPCIdle \/ NotHandled \/ Quit \/ DeviceSignals
  <2>1. Quiet
    BY <1>9 DEF HostSignalWait, RPCIdle, NotHandled, Quit, DeviceSignals
  <2>2. QED
    BY <2>1, UnchangedListener
<1>10. CASE ScriptStep
  <2>1. Quiet
    BY <1>10 DEF ScriptStep, Dial, GetReply, Ask, HangUp, CutShort
  <2>2. QED
    BY <2>1, UnchangedListener
<1>11. QED
  BY <1>1, <1>2, <1>3, <1>4, <1>5, <1>6, <1>7, <1>8, <1>9, <1>10
     DEF Next, UIStep, UIWaitingStep, CPUStep, Threads

-----------------------------------------------------------------------------
(* The list of waiters. *)

\* What is left of the list is connected and distinct, if the sockets that are left in
\* it remain connected.
LEMMA WaitingStays ==
  ASSUME TypeOK, Waiting, gSLPTimeouts' \in Seq(Sockets), Distinct(gSLPTimeouts'),
         \A i \in 1 .. Len(gSLPTimeouts') :
           \E j \in 1 .. Len(gSLPTimeouts) : gSLPTimeouts[j] = gSLPTimeouts'[i],
         \A i \in 1 .. Len(gSLPTimeouts') : \A s \in Sockets :
           s = gSLPTimeouts'[i] /\ state[s] = "Connected" /\ s \notin fDeleted =>
             state'[s] = "Connected" /\ s \notin fDeleted'
  PROVE  Waiting'
<1>1. \A i \in 1 .. Len(gSLPTimeouts') :
        state'[gSLPTimeouts'[i]] = "Connected" /\ gSLPTimeouts'[i] \notin fDeleted'
  <2> SUFFICES ASSUME NEW i \in 1 .. Len(gSLPTimeouts')
               PROVE  state'[gSLPTimeouts'[i]] = "Connected" /\ gSLPTimeouts'[i] \notin fDeleted'
    OBVIOUS
  <2>1. PICK j \in 1 .. Len(gSLPTimeouts) : gSLPTimeouts[j] = gSLPTimeouts'[i]
    OBVIOUS
  <2>2. state[gSLPTimeouts'[i]] = "Connected" /\ gSLPTimeouts'[i] \notin fDeleted
    BY <2>1 DEF Waiting
  <2>3. gSLPTimeouts'[i] \in Sockets
    BY ElementOfSeq
  <2>4. QED
    BY <2>2, <2>3
<1>2. QED
  BY <1>1 DEF Waiting

\* In particular if the list is the same, or is empty.
LEMMA WaitingUnchanged ==
  ASSUME TypeOK, Waiting, gSLPTimeouts' = gSLPTimeouts,
         \A s \in Sockets :
           state[s] = "Connected" /\ s \notin fDeleted =>
             state'[s] = "Connected" /\ s \notin fDeleted'
  PROVE  Waiting'
<1>1. gSLPTimeouts \in Seq(Sockets) /\ Distinct(gSLPTimeouts)
  BY DEF TypeOK, Waiting
<1>2. Distinct(gSLPTimeouts')
  BY <1>1 DEF Distinct
<1>3. QED
  BY <1>1, <1>2, WaitingStays

LEMMA WaitingEmpty ==
  ASSUME gSLPTimeouts' = <<>>
  PROVE  Waiting'
<1>1. Len(gSLPTimeouts') = 0
  BY EmptySeq
<1>2. QED
  BY <1>1 DEF Waiting, Distinct

LEMMA WaitingClosed ==
  ASSUME TypeOK, Waiting, NEW s \in Sockets, CloseConnected(s)
  PROVE  Waiting'
<1>1. /\ state' = [state EXCEPT ![s] = "Unconnected"] /\ fDeleted' = fDeleted \cup {s}
      /\ gSLPTimeouts' \in Seq(Sockets)
      /\ \A i \in 1 .. Len(gSLPTimeouts') :
           /\ gSLPTimeouts'[i] # s
           /\ \E j \in 1 .. Len(gSLPTimeouts) : gSLPTimeouts[j] = gSLPTimeouts'[i]
      /\ Distinct(gSLPTimeouts')
  BY Closing DEF Waiting
<1>2. \A x \in Sockets :
        x # s /\ state[x] = "Connected" /\ x \notin fDeleted =>
          state'[x] = "Connected" /\ x \notin fDeleted'
  BY <1>1 DEF TypeOK
<1>3. QED
  BY <1>1, <1>2, WaitingStays

LEMMA WaitingKept ==
  ASSUME IInv, ~wild, Next, ~wild'
  PROVE  Waiting'
<1> USE DEF objects, net, waiters, control, history
<1> TypeOK /\ Placed /\ Listener /\ Waiting /\ Asking
  BY DEF IInv
<1>1. CASE IdleAll \/ IdleAllDone
  <2>1. AddAndDeletePending /\ gSLPTimeouts' = gSLPTimeouts
    BY <1>1 DEF IdleAll, IdleAllDone
  <2>2. PICK gone \in SUBSET fDeleted :
          /\ fDeleted' = fDeleted \ gone
          /\ state' = [s \in Sockets |-> IF s \in gone THEN "None" ELSE state[s]]
    BY <2>1, Pruning
  <2>3. QED
    BY <2>1, <2>2, WaitingUnchanged
<1>2. CASE AcceptConnection
  <2>1. Current \in Sockets /\ state[Current] = "Listening" /\ gSLPTimeouts' = gSLPTimeouts
    BY <1>2, CurrentSocket DEF AcceptConnection
  <2>2. \A s \in Sockets :
          state[s] = "Connected" /\ s \notin fDeleted =>
            state'[s] = "Connected" /\ s \notin fDeleted'
    <3>1. CASE CreateNewListener(Current)
      <4>1. PICK f \in Free :
              \/ /\ state' = [state EXCEPT ![Current] = "Connected", ![f] = "Listening"]
                 /\ UNCHANGED <<fDeleted, listenerLost>>
              \/ /\ state' = [state EXCEPT ![Current] = "Connected", ![f] = "Unconnected"]
                 /\ fDeleted' = fDeleted \cup {f}
                 /\ listenerLost' = TRUE
        BY <3>1 DEF CreateNewListener
      <4>2. f \in Sockets /\ state[f] = "None"
        BY DEF Free
      <4>3. QED
        BY <2>1, <4>1, <4>2 DEF TypeOK
    <3>2. CASE ~CreateNewListener(Current)
      BY <1>2, <2>1, <3>2 DEF AcceptConnection, TypeOK
    <3>3. QED
      BY <3>1, <3>2
  <2>3. QED
    BY <2>1, <2>2, WaitingUnchanged
<1>3. CASE FindDisconnected \/ (ReadPacket /\ CloseConnected(Current))
  <2>1. Current \in Sockets /\ CloseConnected(Current)
    BY <1>3, CurrentSocket DEF FindDisconnected, ReadPacket, Connected
  <2>2. QED
    BY <2>1, WaitingClosed
<1>4. CASE ReadPacket /\ ~CloseConnected(Current)
  <2>1. UNCHANGED <<state, fDeleted, gSLPTimeouts>>
    BY <1>4 DEF ReadPacket
  <2>2. QED
    BY <2>1, WaitingUnchanged
<1>5. CASE HostSignalResume
  <2>1. pc["ui"] = "packet"
    BY <1>5 DEF HostSignalResume, CPUStopped
  <2>2. CASE Sent(Current)
    <3>1. UNCHANGED <<state, fDeleted, gSLPTimeouts>>
      BY <1>5, <2>2 DEF HostSignalResume
    <3>2. QED
      BY <3>1, WaitingUnchanged
  <2>3. CASE ~Sent(Current)
    <3>1. Current \in Sockets /\ CloseConnected(Current)
      BY <1>5, <2>1, <2>3, CurrentSocket DEF HostSignalResume
    <3>2. QED
      BY <3>1, WaitingClosed
  <2>4. QED
    BY <2>2, <2>3
<1>6. CASE HostSignalWait
  <2> DEFINE n == Len(gSLPTimeouts)
  <2>1. /\ pc["ui"] = "packet" /\ pc["cpu"] = "run" /\ Current \notin fDeleted
        /\ gSLPTimeouts' = Append(gSLPTimeouts, Current)
        /\ UNCHANGED <<state, fDeleted>>
    BY <1>6 DEF HostSignalWait, CPUStopped
  <2>2. Current \in Sockets /\ Handled(Current)
    BY <2>1, CurrentSocket DEF Handled
  <2>3. state[Current] = "Connected" /\ ~Waits(Current)
    BY <2>1, <2>2 DEF Asking, AskingOf
  <2>4. \A i \in 1 .. n : gSLPTimeouts[i] # Current
    BY <2>1, <2>3 DEF Waits, Signalling
  <2>5. /\ n \in Nat /\ Len(gSLPTimeouts') = n + 1
        /\ gSLPTimeouts'[n + 1] = Current
        /\ \A i \in 1 .. n : gSLPTimeouts'[i] = gSLPTimeouts[i]
    BY <2>1, <2>2, AppendProperties, LenProperties DEF TypeOK
  <2>6. \A i \in 1 .. Len(gSLPTimeouts') : i \in 1 .. n \/ i = n + 1
    BY <2>5
  <2>7. \A i \in 1 .. n : state[gSLPTimeouts[i]] = "Connected" /\ gSLPTimeouts[i] \notin fDeleted
    BY DEF Waiting
  <2>8. \A i, j \in 1 .. n : gSLPTimeouts[i] = gSLPTimeouts[j] => i = j
    BY DEF Waiting, Distinct
  <2> HIDE DEF n
  <2>9. Distinct(gSLPTimeouts')
    BY <2>4, <2>5, <2>6, <2>8 DEF Distinct
  <2>10. QED
    BY <2>1, <2>3, <2>5, <2>6, <2>7, <2>9 DEF Waiting
<1>7. CASE TimesOut
  <2> DEFINE n == Len(gSLPTimeouts)
  <2>1. /\ gSLPTimeouts' = RemoveAt(gSLPTimeouts, iter) /\ SendToWaiter
        /\ UNCHANGED <<state, fDeleted>>
    BY <1>7 DEF TimesOut
  <2>2. iter \in 1 .. n /\ n \in Nat
    BY <2>1, SendingToWaiter, LenProperties DEF TypeOK
  <2>3. /\ gSLPTimeouts' \in Seq(Sockets) /\ Len(gSLPTimeouts') = n - 1
        /\ \A i \in 1 .. n - 1 : gSLPTimeouts'[i] = gSLPTimeouts[IF i < iter THEN i ELSE i + 1]
    BY <2>1, <2>2, ListRemoved
  <2>4. \A i, j \in 1 .. n : gSLPTimeouts[i] = gSLPTimeouts[j] => i = j
    BY DEF Waiting, Distinct
  <2> HIDE DEF n
  <2>5. \A i \in 1 .. n - 1 : (IF i < iter THEN i ELSE i + 1) \in 1 .. n
    BY <2>2
  <2>6. Distinct(gSLPTimeouts')
    BY <2>2, <2>3, <2>4, <2>5 DEF Distinct
  <2>7. \A i \in 1 .. Len(gSLPTimeouts') : \E j \in 1 .. n : gSLPTimeouts[j] = gSLPTimeouts'[i]
    BY <2>3, <2>5
  <2>8. QED
    BY <2>1, <2>3, <2>6, <2>7, WaitingStays DEF n
<1>8. CASE (\E t \in Threads : Signalled(t)) \/ Shutdown
  <2>1. gSLPTimeouts' = <<>>
    BY <1>8, WithoutEmpty DEF Signalled, Shutdown, Placed
  <2>2. QED
    BY <2>1, WaitingEmpty
<1>9. CASE NoData \/ NotYet \/ RPCIdleDone \/ \E t \in Threads : SignalWaiter(t)
  <2>1. UNCHANGED <<state, fDeleted, gSLPTimeouts>>
    BY <1>9 DEF NoData, NotYet, RPCIdleDone, SignalWaiter
  <2>2. QED
    BY <2>1, WaitingUnchanged
<1>10. CASE RPCIdle \/ NotHandled \/ Quit \/ DeviceSignals
  <2>1. UNCHANGED <<state, fDeleted, gSLPTimeouts>>
    BY <1>10 DEF RPCIdle, NotHandled, Quit, DeviceSignals, StartWalk
  <2>2. QED
    BY <2>1, WaitingUnchanged
<1>11. CASE ScriptStep
  <2>1. UNCHANGED <<state, fDeleted, gSLPTimeouts>>
    BY <1>11 DEF ScriptStep, Dial, GetReply, Ask, HangUp, CutShort
  <2>2. QED
    BY <2>1, WaitingUnchanged
<1>12. QED
  BY <1>1, <1>2, <1>3, <1>4, <1>5, <1>6, <1>7, <1>8, <1>9, <1>10, <1>11
     DEF Next, UIStep, UIWaitingStep, CPUStep, Threads

-----------------------------------------------------------------------------
(* The requests. *)

\* A walk that goes on, or starts, adds no packet to those that wait for an answer.
LEMMA WaitsAfterWalk ==
  ASSUME TypeOK, NEW s \in Sockets, gSLPTimeouts' = gSLPTimeouts, iter' \in Nat,
         Signalling => Signalling' /\ iter <= iter',
         Waits(s)'
  PROVE  Waits(s)
<1>1. PICK i \in 1 .. Len(gSLPTimeouts) : gSLPTimeouts[i] = s /\ (Signalling' => iter' <= i)
  BY DEF Waits
<1>2. i \in Nat /\ iter \in Nat
  BY <1>1, LenProperties DEF TypeOK
<1>3. Signalling => iter <= i
  BY <1>1, <1>2
<1>4. QED
  BY <1>1, <1>3 DEF Waits

\* Nor does what happens to the list while no walk signals its packets, if it loses items
\* only.
LEMMA WaitsAfterLoss ==
  ASSUME NEW s \in Sockets, ~Signalling,
         \A i \in 1 .. Len(gSLPTimeouts') :
           \E j \in 1 .. Len(gSLPTimeouts) : gSLPTimeouts[j] = gSLPTimeouts'[i],
         Waits(s)'
  PROVE  Waits(s)
<1>1. PICK i \in 1 .. Len(gSLPTimeouts') : gSLPTimeouts'[i] = s
  BY DEF Waits
<1>2. QED
  BY <1>1 DEF Waits

\* Nor does the end of a connection; and no packet of that connection waits any more.
LEMMA WaitsAfterClose ==
  ASSUME TypeOK, NEW c \in Sockets, CloseConnected(c), ~wild', iter' = iter,
         Signalling => Signalling',
         NEW s \in Sockets, Waits(s)'
  PROVE  Waits(s) /\ s # c
<1>1. /\ ~Iterating \/ gSLPTimeouts' = gSLPTimeouts
      /\ \A i \in 1 .. Len(gSLPTimeouts') :
           /\ gSLPTimeouts'[i] # c
           /\ \E j \in 1 .. Len(gSLPTimeouts) : gSLPTimeouts[j] = gSLPTimeouts'[i]
  BY Closing
<1>2. s # c
  BY <1>1 DEF Waits
<1>3. iter \in Nat /\ iter <= iter
  BY DEF TypeOK
<1>4. CASE gSLPTimeouts' = gSLPTimeouts
  BY <1>2, <1>3, <1>4, WaitsAfterWalk
<1>5. CASE ~Iterating
  <2>1. ~Signalling
    BY <1>5 DEF Iterating, Signalling, Threads
  <2>2. QED
    BY <1>1, <1>2, <2>1, WaitsAfterLoss
<1>6. QED
  BY <1>1, <1>4, <1>5

\* An invariant of a socket to which nothing happens but that a packet of it is gone.
LEMMA AskingStays ==
  ASSUME TypeOK, NEW s \in Sockets, AskingOf(s),
         request'[s] \in {request[s], "none"},
         Handled(s)' => Handled(s) /\ state'[s] = state[s] /\ (s \in fDeleted' <=> s \in fDeleted),
         Waits(s)' => Waits(s),
         replies'[s] = replies[s],
         Replied(s) => \/ /\ state[s] = "Connected" => state'[s] = "Connected"
                          /\ pc["ui"] = "down" => pc'["ui"] = "down"
                       \/ pc'["ui"] = "down",
         peer'[s] = peer[s] /\ client'[s] = client[s],
         leftInside => leftInside'
  PROVE  AskingOf(s)'
<1>1. Replied(s)' <=> Replied(s)
  BY DEF Replied
<1>2. Asks(s)' => Asks(s) /\ request'[s] = request[s]
  BY DEF Asks
<1>3. /\ Asks(s)'    => ~Handled(s)' /\ ~Waits(s)' /\ ~Replied(s)'
      /\ Handled(s)' => ~Waits(s)' /\ ~Replied(s)'
      /\ Waits(s)'   => ~Replied(s)'
  BY <1>1, <1>2 DEF AskingOf
<1>4. Asks(s)' \/ Handled(s)' \/ Waits(s)' \/ Replied(s)' =>
        peer'[s] # "away" /\ (peer'[s] = "up" => client'[s] = "asked")
  BY <1>1, <1>2 DEF AskingOf
<1>5. Replied(s)' => replies'[s] = 1 /\ peer'[s] = "up"
                        /\ (state'[s] = "Connected" \/ pc'["ui"] = "down")
  BY <1>1 DEF AskingOf
<1>6. Handled(s)' => \/ state'[s] = "Connected" /\ s \notin fDeleted'
                     \/ s \in fDeleted' /\ peer'[s] # "up"
  BY DEF AskingOf
<1>7. request'[s] \in {"cutFooter", "cutInside"} => peer'[s] # "up"
  BY DEF AskingOf
<1>8. request'[s] \in Requests \/ (Handled(s)' /\ s \notin fDeleted') \/ Waits(s)' =>
        peer'[s] = "up" \/ leftInside'
  BY DEF AskingOf, Requests
<1>9. QED
  BY <1>3, <1>4, <1>5, <1>6, <1>7, <1>8, Zenon DEF AskingOf

\* And of a socket of which no packet is left.
LEMMA AskingNothing ==
  ASSUME NEW s \in Sockets, ~Asks(s)', ~Handled(s)', ~Waits(s)', ~Replied(s)'
  PROVE  AskingOf(s)'
  BY DEF AskingOf, Asks, Requests

\* A packet that waits has a connected socket.
LEMMA WaiterConnected ==
  ASSUME Waiting, NEW s \in Sockets, Waits(s)
  PROVE  state[s] = "Connected" /\ s \notin fDeleted
  BY DEF Waiting, Waits

\* CSocket::IdleAll.
LEMMA AskingInIdleAll ==
  ASSUME IInv, ~wild, ~wild', NEW s \in Sockets,
         IdleAll \/ IdleAllDone \/ NoData \/ AcceptConnection \/ FindDisconnected
  PROVE  AskingOf(s)'
<1> USE DEF objects, net, waiters, control, history
<1>a. TypeOK /\ Placed /\ Listener /\ Waiting /\ AskingOf(s) /\ iter \in Nat /\ iter <= iter
  BY DEF IInv, Asking, TypeOK
<1>b. PICK where \in {"idle", "rpcLock"} :
        /\ pc["ui"] \in {"loop", "idle", "poll"}
        /\ pc'["ui"] = where /\ pc'["cpu"] = pc["cpu"]
        /\ UNCHANGED <<iter, leftInside>>
  <2>1. UNCHANGED <<iter, leftInside>> /\ pc["ui"] \in {"loop", "idle", "poll"}
    BY DEF IdleAll, IdleAllDone, NoData, AcceptConnection, FindDisconnected, Connected
  <2>2. \/ pc["ui"] = "idle" /\ pc' = pc
        \/ Goto("ui", "idle") \/ Goto("ui", "rpcLock")
    BY DEF IdleAll, IdleAllDone, NoData, AcceptConnection, FindDisconnected, Advance
  <2>3. QED
    BY <1>a, <2>1, <2>2, Going DEF Threads
<1>c. ~Handled(s)' /\ (Signalling => Signalling')
  BY <1>b DEF Handled, Signalling
<1>d. gSLPTimeouts' = gSLPTimeouts /\ Waits(s)' => Waits(s)
  BY <1>a, <1>b, <1>c, WaitsAfterWalk
<1>1. CASE IdleAll \/ IdleAllDone
  <2>1. AddAndDeletePending /\ gSLPTimeouts' = gSLPTimeouts
    BY <1>1 DEF IdleAll, IdleAllDone
  <2>2. PICK gone \in SUBSET fDeleted :
          /\ state' = [x \in Sockets |-> IF x \in gone THEN "None" ELSE state[x]]
          /\ peer' = [x \in Sockets |-> IF x \in gone THEN "away" ELSE peer[x]]
          /\ request' = [x \in Sockets |-> IF x \in gone THEN "none" ELSE request[x]]
          /\ client' = [x \in Sockets |-> IF x \in gone THEN "idle" ELSE client[x]]
          /\ replies' = [x \in Sockets |-> IF x \in gone THEN 0 ELSE replies[x]]
    BY <1>a, <2>1, Pruning
  <2>3. CASE s \in gone
    <3>1. ~Asks(s)' /\ ~Replied(s)'
      BY <2>2, <2>3 DEF Asks, Replied
    <3>2. ~Waits(s)'
      BY <1>a, <1>d, <2>1, <2>3, WaiterConnected
    <3>3. QED
      BY <1>c, <3>1, <3>2, AskingNothing
  <2>4. CASE s \notin gone
    BY <1>a, <1>b, <1>c, <1>d, <2>1, <2>2, <2>4, AskingStays DEF AskingOf
  <2>5. QED
    BY <2>3, <2>4
<1>2. CASE NoData
  <2>1. UNCHANGED <<objects, net, gSLPTimeouts>>
    BY <1>2 DEF NoData
  <2>2. QED
    BY <1>a, <1>b, <1>c, <1>d, <2>1, AskingStays
<1>3. CASE AcceptConnection
  <2>1. /\ Current \in Sockets /\ state[Current] = "Listening" /\ gSLPTimeouts' = gSLPTimeouts
        /\ replies' = replies
    BY <1>3, <1>a, CurrentSocket DEF AcceptConnection
  <2>2. Waits(s)' => Waits(s)
    BY <1>d, <2>1
  <2>3. CASE CreateNewListener(Current) /\ UNCHANGED net
    <3>1. PICK f \in Free :
            \/ state' = [state EXCEPT ![Current] = "Connected", ![f] = "Listening"]
            \/ state' = [state EXCEPT ![Current] = "Connected", ![f] = "Unconnected"]
      BY <2>3 DEF CreateNewListener
    <3>2. f \in Sockets /\ state[f] = "None"
      BY DEF Free
    <3>3. state[s] = "Connected" => state'[s] = "Connected"
      BY <1>a, <2>1, <3>1, <3>2 DEF TypeOK
    <3>4. QED
      BY <1>a, <1>b, <1>c, <2>2, <2>3, <3>3, AskingStays
  <2>4. CASE ~(CreateNewListener(Current) /\ UNCHANGED net)
    <3>1. /\ state' = [state EXCEPT ![Current] = "Unconnected"]
          /\ peer' = [peer EXCEPT ![Current] = "left"]
          /\ request' = [request EXCEPT ![Current] = "none"]
          /\ client' = [client EXCEPT ![Current] = "idle"]
      BY <1>3, <2>4 DEF AcceptConnection
    <3>2. CASE s = Current
      <4>1. ~Asks(s)'
        BY <1>a, <3>1, <3>2 DEF Asks, TypeOK
      <4>2. ~Waits(s)'
        BY <1>a, <2>1, <2>2, <3>2, WaiterConnected
      <4>3. ~Replied(s)'
        BY <1>a, <1>b, <2>1, <3>2 DEF AskingOf, Replied
      <4>4. QED
        BY <1>c, <4>1, <4>2, <4>3, AskingNothing
    <3>3. CASE s # Current
      <4>1. /\ state'[s] = state[s] /\ peer'[s] = peer[s] /\ request'[s] = request[s]
            /\ client'[s] = client[s]
        BY <1>a, <2>1, <3>1, <3>3 DEF TypeOK
      <4>2. QED
        BY <1>a, <1>b, <1>c, <2>1, <2>2, <4>1, AskingStays
    <3>4. QED
      BY <3>2, <3>3
  <2>5. QED
    BY <2>3, <2>4
<1>4. CASE FindDisconnected
  <2>1. /\ Current \in Sockets /\ peer[Current] # "up" /\ request[Current] = "none"
        /\ CloseConnected(Current) /\ UNCHANGED net
    BY <1>4, <1>a, CurrentSocket DEF FindDisconnected, Connected
  <2>2. Waits(s)' => Waits(s) /\ s # Current
    BY <1>a, <1>b, <1>c, <2>1, WaitsAfterClose
  <2>3. CASE s = Current
    <3>1. ~Asks(s)' /\ ~Replied(s)'
      BY <1>a, <2>1, <2>3 DEF Asks, Replied, AskingOf
    <3>2. QED
      BY <1>c, <2>2, <2>3, <3>1, AskingNothing
  <2>4. CASE s # Current
    <3>1. state'[s] = state[s]
      BY <1>a, <2>1, <2>4 DEF CloseConnected, TypeOK
    <3>2. QED
      BY <1>a, <1>b, <1>c, <2>1, <2>2, <3>1, AskingStays
  <2>5. QED
    BY <2>3, <2>4
<1>5. QED
  BY <1>1, <1>2, <1>3, <1>4

\* A packet is read.
LEMMA AskingInReadPacket ==
  ASSUME IInv, ~wild, ~wild', NEW s \in Sockets, ReadPacket
  PROVE  AskingOf(s)'
<1> USE DEF objects, net, waiters, control, history
<1>a. TypeOK /\ Placed /\ Waiting /\ AskingOf(s) /\ iter \in Nat /\ iter <= iter
  BY DEF IInv, Asking, TypeOK
<1>1. /\ Current \in Sockets /\ pc["ui"] \in {"idle", "poll"}
      /\ Current \notin fDeleted /\ state[Current] = "Connected" /\ request[Current] # "none"
      /\ request' = [request EXCEPT ![Current] = "none"]
      /\ UNCHANGED <<gSockets, peer, client, replies, at, iter, leftInside>>
  BY <1>a, CurrentSocket DEF ReadPacket, Connected
<1>2. \/ /\ Goto("ui", "hung") /\ UNCHANGED <<state, fDeleted, gSLPTimeouts>>
      \/ /\ request[Current] = "cutFooter" /\ CloseConnected(Current) /\ Goto("ui", "packet")
      \/ /\ request[Current] \in Requests /\ Goto("ui", "packet")
         /\ UNCHANGED <<state, fDeleted, gSLPTimeouts>>
  BY DEF ReadPacket
<1>3. /\ pc'["ui"] \in {"hung", "packet"} /\ pc'["cpu"] = pc["cpu"]
      /\ Goto("ui", "hung") => pc'["ui"] = "hung"
  BY <1>a, <1>2, Going DEF Threads
<1>4. Current' = Current /\ (Signalling => Signalling')
  BY <1>1, <1>3 DEF Current, Signalling
<1>5. Waits(s)' => Waits(s)
  <2>1. CASE gSLPTimeouts' = gSLPTimeouts
    BY <1>a, <1>1, <1>4, <2>1, WaitsAfterWalk
  <2>2. CASE CloseConnected(Current)
    BY <1>a, <1>1, <1>4, <2>2, WaitsAfterClose
  <2>3. QED
    BY <1>2, <2>1, <2>2
<1>6. CASE s # Current
  <2>1. ~Handled(s)'
    BY <1>4, <1>6 DEF Handled
  <2>2. state'[s] = state[s] /\ request'[s] = request[s]
    BY <1>a, <1>1, <1>2, <1>6 DEF CloseConnected, TypeOK
  <2>3. QED
    BY <1>a, <1>1, <1>3, <1>5, <2>1, <2>2, AskingStays
<1>7. CASE s = Current
  <2>1. ~Waits(s)' /\ ~Replied(s)' /\ ~Asks(s)'
    BY <1>a, <1>1, <1>5, <1>7 DEF AskingOf, Asks, Replied, TypeOK
  <2>2. peer[s] # "away" /\ (peer[s] = "up" => client[s] = "asked")
    BY <1>a, <1>1, <1>7 DEF AskingOf, Asks
  <2>3. \/ pc'["ui"] = "hung"
        \/ s \in fDeleted' /\ peer[s] # "up"
        \/ state'[s] = "Connected" /\ s \notin fDeleted' /\ (peer[s] = "up" \/ leftInside)
    <3>1. CASE request[s] = "cutFooter" /\ CloseConnected(Current)
      BY <1>a, <1>7, <3>1 DEF AskingOf, CloseConnected
    <3>2. CASE request[s] \in Requests /\ UNCHANGED <<state, fDeleted>>
      BY <1>a, <1>1, <1>7, <3>2 DEF AskingOf
    <3>3. QED
      BY <1>2, <1>3, <1>7, <3>1, <3>2
  <2>4. request'[s] = "none"
    BY <1>a, <1>1, <1>7 DEF TypeOK
  <2>5. QED
    BY <1>1, <2>1, <2>2, <2>3, <2>4 DEF AskingOf, Handled, Requests
<1>8. QED
  BY <1>6, <1>7

\* The packet is handled, or dropped.
LEMMA AskingInHandleNewPacket ==
  ASSUME IInv, ~wild, ~wild', NEW s \in Sockets,
         HostSignalWait \/ HostSignalResume \/ NotHandled
  PROVE  AskingOf(s)'
<1> USE DEF objects, net, waiters, control, history
<1>a. TypeOK /\ Placed /\ Waiting /\ AskingOf(s) /\ iter \in Nat /\ iter <= iter
  BY DEF IInv, Asking, TypeOK
<1>1. UNCHANGED <<iter, leftInside>>
  BY DEF HostSignalWait, HostSignalResume, NotHandled
<1>2. pc["ui"] = "packet"
  BY DEF HostSignalWait, HostSignalResume, NotHandled, CPUStopped
<1>3. Current \in Sockets
  BY <1>a, <1>2, CurrentSocket
<1>4. pc'["ui"] \in {"poll", "idle"} /\ pc'["cpu"] = pc["cpu"]
  <2>1. Goto("ui", "poll") \/ Goto("ui", "idle")
    BY DEF HostSignalWait, HostSignalResume, NotHandled, Advance
  <2>2. QED
    BY <1>a, <2>1, Going DEF Threads
<1>5. ~Handled(s)' /\ (Signalling => Signalling')
  BY <1>2, <1>4 DEF Handled, Signalling
<1>6. s = Current => /\ Handled(s) /\ ~Asks(s) /\ ~Waits(s) /\ ~Replied(s)
                     /\ peer[s] # "away" /\ (peer[s] = "up" => client[s] = "asked")
  BY <1>a, <1>2 DEF AskingOf, Handled
<1>7. gSLPTimeouts' = gSLPTimeouts /\ Waits(s)' => Waits(s)
  BY <1>a, <1>1, <1>5, WaitsAfterWalk
<1>8. CASE HostSignalWait
  <2>1. /\ pc["cpu"] = "run" /\ UNCHANGED <<state, fDeleted, net>> /\ Current \notin fDeleted
        /\ gSLPTimeouts' = Append(gSLPTimeouts, Current)
    BY <1>8 DEF HostSignalWait, CPUStopped
  <2>2. ~Signalling
    BY <1>2, <2>1 DEF Signalling
  <2>3. /\ Len(gSLPTimeouts) \in Nat /\ Len(gSLPTimeouts') = Len(gSLPTimeouts) + 1
        /\ gSLPTimeouts'[Len(gSLPTimeouts) + 1] = Current
        /\ \A i \in 1 .. Len(gSLPTimeouts) : gSLPTimeouts'[i] = gSLPTimeouts[i]
    BY <1>a, <1>3, <2>1, AppendProperties, LenProperties DEF TypeOK
  <2>4. Waits(s)' => Waits(s) \/ s = Current
    <3> SUFFICES ASSUME Waits(s)' PROVE Waits(s) \/ s = Current
      OBVIOUS
    <3>1. PICK i \in 1 .. Len(gSLPTimeouts') : gSLPTimeouts'[i] = s
      BY DEF Waits
    <3>2. i \in 1 .. Len(gSLPTimeouts) \/ i = Len(gSLPTimeouts) + 1
      BY <2>3
    <3>3. QED
      BY <2>2, <2>3, <3>1, <3>2 DEF Waits
  <2>5. CASE s # Current
    BY <1>a, <1>1, <1>2, <1>4, <1>5, <2>1, <2>4, <2>5, AskingStays
  <2>6. CASE s = Current
    <3>1. peer[s] = "up" \/ leftInside
      BY <1>a, <1>6, <2>1, <2>6 DEF AskingOf
    <3>2. ~Asks(s)' /\ ~Replied(s)' /\ request'[s] = "none"
      BY <1>6, <2>1, <2>6 DEF Asks, Replied
    <3>3. QED
      BY <1>1, <1>5, <1>6, <2>1, <2>6, <3>1, <3>2 DEF AskingOf, Requests
  <2>7. QED
    BY <2>5, <2>6
<1>9. CASE HostSignalResume
  <2>1. Send(Current) /\ peer[Current] # "away"
    <3>1. AskingOf(Current)
      BY <1>3 DEF IInv, Asking
    <3>2. QED
      BY <1>2, <1>9, <3>1 DEF HostSignalResume, AskingOf, Handled
  <2>2. /\ request' = request /\ client' = client
        /\ s # Current => peer'[s] = peer[s] /\ replies'[s] = replies[s]
        /\ peer'[Current] # "away" /\ (peer'[Current] = "up" <=> peer[Current] = "up")
        /\ \/ replies'[Current] = replies[Current]
           \/ /\ replies'[Current] = replies[Current] + 1
              /\ peer[Current] = "up" /\ state[Current] = "Connected"
    BY <1>a, <1>3, <2>1, Sending
  <2>3. CASE Sent(Current) /\ UNCHANGED <<state, fDeleted, gSLPTimeouts>>
    <3>1. Waits(s)' => Waits(s)
      BY <1>7, <2>3
    <3>2. CASE s # Current
      BY <1>a, <1>1, <1>2, <1>4, <1>5, <2>2, <2>3, <3>1, <3>2, AskingStays
    <3>3. CASE s = Current
      <4>1. ~Asks(s)' /\ ~Waits(s)' /\ request'[s] = "none"
        BY <1>6, <2>2, <3>1, <3>3 DEF Asks
      <4>2. replies[s] = 0
        BY <1>6, <3>3 DEF Replied
      <4>3. Replied(s)' => /\ replies'[s] = 1 /\ peer'[s] = "up" /\ client'[s] = "asked"
                           /\ state'[s] = "Connected"
        BY <1>6, <2>2, <2>3, <3>3, <4>2 DEF Replied
      <4>4. QED
        BY <1>5, <4>1, <4>3, Zenon DEF AskingOf, Requests
    <3>4. QED
      BY <3>2, <3>3
  <2>4. CASE ~Sent(Current) /\ CloseConnected(Current)
    <3>1. state[Current] = "Connected" /\ peer[Current] = "reset"
      BY <2>4 DEF Sent
    <3>2. UNCHANGED net
      BY <2>1, <3>1 DEF Send
    <3>3. Waits(s)' => Waits(s) /\ s # Current
      BY <1>a, <1>1, <1>3, <1>5, <2>4, WaitsAfterClose
    <3>4. CASE s # Current
      <4>1. state'[s] = state[s]
        BY <1>a, <1>3, <2>4, <3>4 DEF CloseConnected, TypeOK
      <4>2. QED
        BY <1>a, <1>1, <1>2, <1>4, <1>5, <3>2, <3>3, <4>1, AskingStays
    <3>5. CASE s = Current
      <4>1. ~Asks(s)' /\ ~Replied(s)'
        BY <1>6, <3>2, <3>5 DEF Asks, Replied
      <4>2. QED
        BY <1>5, <3>3, <3>5, <4>1, AskingNothing
    <3>6. QED
      BY <3>4, <3>5
  <2>5. QED
    BY <1>9, <2>3, <2>4 DEF HostSignalResume
<1>10. CASE NotHandled
  <2>1. /\ UNCHANGED <<objects, peer, request, replies, gSLPTimeouts>>
        /\ client' = [client EXCEPT ![Current] = IF @ = "asked" THEN "ignored" ELSE @]
    BY <1>10 DEF NotHandled
  <2>2. Waits(s)' => Waits(s)
    BY <1>7, <2>1
  <2>3. CASE s # Current
    <3>1. client'[s] = client[s]
      BY <1>a, <2>1, <2>3 DEF TypeOK
    <3>2. QED
      BY <1>a, <1>1, <1>2, <1>4, <1>5, <2>1, <2>2, <3>1, AskingStays
  <2>4. CASE s = Current
    <3>1. ~Asks(s)' /\ ~Replied(s)'
      BY <1>6, <2>1, <2>4 DEF Asks, Replied
    <3>2. QED
      BY <1>5, <1>6, <2>2, <2>4, <3>1, AskingNothing
  <2>5. QED
    BY <2>3, <2>4
<1>11. QED
  BY <1>8, <1>9, <1>10

\* The list is walked, by either thread.
LEMMA AskingInWalks ==
  ASSUME IInv, ~wild, ~wild', NEW s \in Sockets,
         \/ (\E t \in Threads : SignalWaiter(t)) \/ TimesOut \/ NotYet \/ RPCIdleDone
         \/ RPCIdle \/ Quit \/ DeviceSignals
  PROVE  AskingOf(s)'
<1> USE DEF objects, net, waiters, control, history
<1>a. TypeOK /\ Placed /\ Waiting /\ Asking /\ AskingOf(s) /\ iter \in Nat /\ iter <= iter
  BY DEF IInv, Asking, TypeOK
<1>b. UNCHANGED <<objects, leftInside>>
  BY DEF SignalWaiter, TimesOut, NotYet, RPCIdleDone, RPCIdle, Quit, DeviceSignals
<1>1. CASE (\E t \in Threads : SignalWaiter(t)) \/ TimesOut
  <2> DEFINE w == gSLPTimeouts[iter]
  <2>1. SendToWaiter /\ UNCHANGED <<pc, at>>
    BY <1>1 DEF SignalWaiter, TimesOut
  <2>2. /\ iter \in 1 .. Len(gSLPTimeouts)
        /\ w \in Sockets /\ Waits(w) /\ state[w] = "Connected"
        /\ request' = request /\ client' = client
        /\ s # w => peer'[s] = peer[s] /\ replies'[s] = replies[s]
        /\ peer'[w] # "away" /\ (peer'[w] = "up" <=> peer[w] = "up")
        /\ \/ replies'[w] = replies[w]
           \/ replies'[w] = replies[w] + 1 /\ peer[w] = "up"
    BY <1>a, <2>1, SendingToWaiter
  <2>3. \A i \in 1 .. Len(gSLPTimeouts) : gSLPTimeouts[i] = w => i = iter
    BY <1>a, <2>2 DEF Waiting, Distinct
  <2>4. Waits(s)' => Waits(s) /\ s # w
    <3>1. CASE \E t \in Threads : SignalWaiter(t)
      <4>1. gSLPTimeouts' = gSLPTimeouts /\ iter' = iter + 1 /\ Signalling
        BY <3>1 DEF SignalWaiter, Walks, Signalling, Threads
      <4>2. Signalling' /\ iter' \in Nat /\ iter <= iter'
        BY <1>a, <2>1, <4>1 DEF Signalling
      <4>3. Waits(s)' => Waits(s)
        BY <1>a, <4>1, <4>2, WaitsAfterWalk
      <4>4. ASSUME Waits(s)' PROVE s # w
        <5>1. PICK i \in 1 .. Len(gSLPTimeouts) : gSLPTimeouts[i] = s /\ iter + 1 <= i
          BY <4>1, <4>2, <4>4 DEF Waits
        <5>2. i # iter
          BY <1>a, <5>1
        <5>3. QED
          BY <2>3, <5>1, <5>2
      <4>5. QED
        BY <4>3, <4>4
    <3>2. CASE TimesOut
      <4>1. pc["ui"] = "rpcIdle" /\ gSLPTimeouts' = RemoveAt(gSLPTimeouts, iter)
        BY <3>2 DEF TimesOut, Walks
      <4>2. ~Signalling
        BY <1>a, <4>1 DEF Placed, Signalling
      <4>3. /\ Len(gSLPTimeouts') = Len(gSLPTimeouts) - 1 /\ Len(gSLPTimeouts) \in Nat
            /\ \A i \in 1 .. Len(gSLPTimeouts) - 1 :
                 gSLPTimeouts'[i] = gSLPTimeouts[IF i < iter THEN i ELSE i + 1]
        BY <1>a, <2>2, <4>1, ListRemoved, LenProperties DEF TypeOK
      <4>4. ASSUME Waits(s)' PROVE Waits(s) /\ s # w
        <5>1. PICK i \in 1 .. Len(gSLPTimeouts') : gSLPTimeouts'[i] = s
          BY <4>4 DEF Waits
        <5>2. PICK j \in 1 .. Len(gSLPTimeouts) : gSLPTimeouts[j] = s /\ j # iter
          <6> DEFINE k == IF i < iter THEN i ELSE i + 1
          <6>1. k \in 1 .. Len(gSLPTimeouts) /\ k # iter
            BY <1>a, <2>2, <4>3
          <6>2. gSLPTimeouts[k] = s
            BY <4>3, <5>1
          <6>3. QED
            BY <6>1, <6>2
        <5>3. QED
          BY <2>3, <4>2, <5>2 DEF Waits
      <4>5. QED
        BY <4>4
    <3>3. QED
      BY <1>1, <3>1, <3>2
  <2>5. Handled(s)' <=> Handled(s)
    BY <1>b, <2>1 DEF Handled, Current
  <2> HIDE DEF w
  <2>6. CASE s # w
    BY <1>a, <1>b, <2>1, <2>2, <2>4, <2>5, <2>6, AskingStays
  <2>7. CASE s = w
    <3>1. ~Asks(s) /\ ~Handled(s) /\ ~Replied(s) /\ (peer[s] = "up" => client[s] = "asked")
      BY <1>a, <2>2, <2>7 DEF AskingOf
    <3>2. ~Asks(s)' /\ ~Handled(s)' /\ ~Waits(s)' /\ request'[s] = "none"
      BY <2>2, <2>4, <2>5, <2>7, <3>1 DEF Asks
    <3>3. replies[s] = 0
      BY <3>1 DEF Replied
    <3>4. Replied(s)' => /\ replies'[s] = 1 /\ peer'[s] = "up" /\ client'[s] = "asked"
                         /\ state'[s] = "Connected"
      BY <1>b, <2>2, <2>7, <3>1, <3>3 DEF Replied
    <3>5. QED
      BY <3>2, <3>4, Zenon DEF AskingOf, Requests
  <2>8. QED
    BY <2>6, <2>7
<1>2. CASE NotYet \/ RPCIdleDone \/ RPCIdle \/ Quit \/ DeviceSignals
  <2>1. (gMutex = "ui" /\ pc["ui"] = "rpcIdle") \/ gMutex = "free"
    BY <1>2, <1>a DEF NotYet, RPCIdleDone, RPCIdle, Quit, DeviceSignals, StartWalk, Walks, Placed
  <2>2. ~Signalling
    BY <1>a, <2>1 DEF Placed, Signalling
  <2>3. Waits(s)' => Waits(s)
    <3>1. UNCHANGED gSLPTimeouts
      BY <1>2 DEF NotYet, RPCIdleDone, RPCIdle, Quit, DeviceSignals, StartWalk
    <3>2. QED
      BY <2>2, <3>1 DEF Waits
  <2>4. UNCHANGED <<net, at>>
    BY <1>2 DEF NotYet, RPCIdleDone, RPCIdle, Quit, DeviceSignals
  <2>5. /\ pc'["ui"] = "packet" => pc["ui"] = "packet"
        /\ pc["ui"] = "down" => pc'["ui"] = "down"
    <3>1. CASE NotYet
      BY <3>1 DEF NotYet
    <3>2. CASE RPCIdleDone
      BY <1>a, <3>2, Going DEF RPCIdleDone, Walks, Threads
    <3>3. CASE RPCIdle
      BY <1>a, <3>3, Going DEF RPCIdle, Threads
    <3>4. CASE Quit
      BY <3>4 DEF Quit
    <3>5. CASE DeviceSignals
      BY <1>a, <3>5, Going DEF DeviceSignals, Threads
    <3>6. QED
      BY <1>2, <3>1, <3>2, <3>3, <3>4, <3>5
  <2>6. Handled(s)' => Handled(s)
    BY <1>b, <2>4, <2>5 DEF Handled, Current
  <2>7. QED
    BY <1>a, <1>b, <2>3, <2>4, <2>5, <2>6, AskingStays
<1>3. QED
  BY <1>1, <1>2

\* All are signalled; the end.
LEMMA AskingInSignalled ==
  ASSUME IInv, ~wild, NEW s \in Sockets, (\E t \in Threads : Signalled(t)) \/ Shutdown
  PROVE  AskingOf(s)'
<1> USE DEF objects, net, waiters, control, history
<1>a. TypeOK /\ Placed /\ AskingOf(s)
  BY DEF IInv, Asking
<1>1. gSLPTimeouts' = <<>>
  BY <1>a, WithoutEmpty DEF Signalled, Shutdown, Placed
<1>2. ~Waits(s)'
  BY <1>1, EmptySeq DEF Waits
<1>3. UNCHANGED <<net, leftInside, at>>
  BY DEF Signalled, Shutdown
<1>4. CASE \E t \in Threads : Signalled(t)
  <2>1. PICK t \in Threads : Signalled(t)
    BY <1>4
  <2>2. /\ pc'["ui"] = IF t = "ui" THEN "shutdown" ELSE pc["ui"]
        /\ pc[t] = "signal" /\ UNCHANGED objects
    BY <1>a, <2>1, Going DEF Signalled, Walks
  <2>3. Handled(s)' => Handled(s)
    BY <1>3, <2>2 DEF Handled, Current
  <2>4. QED
    BY <1>a, <1>2, <1>3, <2>2, <2>3, AskingStays
<1>5. CASE Shutdown
  <2>1. pc'["ui"] = "down"
    BY <1>a, <1>5, Going DEF Shutdown, Threads
  <2>2. ~Handled(s)'
    BY <2>1 DEF Handled
  <2>3. QED
    BY <1>a, <1>2, <1>3, <2>1, <2>2, AskingStays
<1>6. QED
  BY <1>4, <1>5

\* A script does nothing to the emulator; that it went away inside of a call is not forgotten.
LEMMA LeavingInside ==
  ASSUME NEW s \in Sockets,
         \/ Dial(s) \/ GetReply(s)
         \/ \E what \in Requests : Ask(s, what)
         \/ \E how \in {"left", "reset"} : HangUp(s, how)
         \/ \E cut \in {"cutFooter", "cutInside"} : CutShort(s, cut)
  PROVE  /\ UNCHANGED <<objects, waiters, control>>
         /\ leftInside => leftInside'
         /\ owed' = owed \/ (owed' = owed \ {s} /\ (s \in owed => leftInside'))
<1> USE DEF objects, net, waiters, control, history
<1>1. UNCHANGED <<objects, waiters, control>>
  BY DEF Dial, GetReply, Ask, HangUp, CutShort
<1>2. CASE \E how \in {"left", "reset"} : HangUp(s, how)
  <2>1. /\ leftInside' = (leftInside \/ client[s] # "idle" \/ s \in owed)
        /\ owed' = owed \ {s}
    BY <1>2 DEF HangUp
  <2>2. QED
    BY <1>1, <2>1
<1>3. CASE \E cut \in {"cutFooter", "cutInside"} : CutShort(s, cut)
  <2>1. leftInside' = (leftInside \/ s \in owed) /\ owed' = owed \ {s}
    BY <1>3 DEF CutShort
  <2>2. QED
    BY <1>1, <2>1
<1>4. CASE Dial(s) \/ GetReply(s) \/ \E what \in Requests : Ask(s, what)
  <2>1. UNCHANGED <<leftInside, owed>>
    BY <1>4 DEF Dial, GetReply, Ask
  <2>2. QED
    BY <1>1, <2>1
<1>5. QED
  BY <1>2, <1>3, <1>4

\* The scripts.
LEMMA AskingInScripts ==
  ASSUME IInv, ~wild, NEW s \in Sockets, ScriptStep
  PROVE  AskingOf(s)'
<1> USE DEF objects, net, waiters, control, history
<1>a. TypeOK /\ Placed /\ AskingOf(s)
  BY DEF IInv, Asking
<1>1. PICK x \in Sockets :
        \/ Dial(x) \/ GetReply(x)
        \/ \E what \in Requests : Ask(x, what)
        \/ \E how \in {"left", "reset"} : HangUp(x, how)
        \/ \E cut \in {"cutFooter", "cutInside"} : CutShort(x, cut)
  BY DEF ScriptStep
<1>2. /\ UNCHANGED <<objects, waiters, control>>
      /\ leftInside => leftInside'
  BY <1>1, LeavingInside
<1>3. /\ Handled(s)' <=> Handled(s)
      /\ Waits(s)' <=> Waits(s)
  BY <1>2 DEF Handled, Current, Waits, Signalling
<1>4. CASE s # x
  <2>1. request'[s] = request[s] /\ replies'[s] = replies[s]
    BY <1>a, <1>1, <1>4 DEF Dial, GetReply, Ask, HangUp, CutShort, TypeOK
  <2>2. peer'[s] = peer[s] /\ client'[s] = client[s]
    BY <1>a, <1>1, <1>4 DEF Dial, GetReply, Ask, HangUp, CutShort, TypeOK
  <2>3. QED
    BY <1>a, <1>2, <1>3, <2>1, <2>2, AskingStays
<1>5. CASE s = x
  <2>1. CASE Dial(s)
    <3>1. peer[s] = "away" /\ UNCHANGED <<request, replies>>
      BY <2>1 DEF Dial
    <3>2. ~Asks(s) /\ ~Handled(s) /\ ~Waits(s) /\ ~Replied(s)
      BY <1>a, <3>1 DEF AskingOf
    <3>3. ~Asks(s)' /\ ~Replied(s)'
      BY <3>1, <3>2 DEF Asks, Replied
    <3>4. QED
      BY <1>3, <3>2, <3>3, AskingNothing
  <2>2. CASE GetReply(s)
    <3>1. /\ peer[s] = "up" /\ replies[s] > 0 /\ UNCHANGED request
          /\ replies' = [replies EXCEPT ![s] = @ - 1]
      BY <2>2 DEF GetReply
    <3>2. Replied(s) /\ replies'[s] = replies[s] - 1
      BY <1>a, <3>1 DEF Replied, TypeOK
    <3>3. ~Asks(s) /\ ~Handled(s) /\ ~Waits(s) /\ replies'[s] = 0
      BY <1>a, <3>2 DEF AskingOf
    <3>4. ~Asks(s)' /\ ~Replied(s)'
      BY <3>1, <3>3 DEF Asks, Replied
    <3>5. QED
      BY <1>3, <3>3, <3>4, AskingNothing
  <2>3. CASE \E what \in Requests : Ask(s, what)
    <3>1. PICK what \in Requests : Ask(s, what)
      BY <2>3
    <3>2. /\ peer[s] = "up" /\ client[s] = "idle" /\ UNCHANGED <<peer, replies>>
          /\ request'[s] = what /\ client'[s] = "asked"
      BY <1>a, <3>1 DEF Ask, TypeOK
    <3>3. ~Handled(s) /\ ~Waits(s) /\ ~Replied(s)
      BY <1>a, <3>2 DEF AskingOf
    <3>4. ~Handled(s)' /\ ~Waits(s)' /\ ~Replied(s)'
      BY <1>3, <3>2, <3>3 DEF Replied
    <3>5. QED
      BY <3>1, <3>2, <3>4 DEF AskingOf, Requests
  <2>4. CASE \E how \in {"left", "reset"} : HangUp(s, how)
    <3>1. PICK how \in {"left", "reset"} : HangUp(s, how)
      BY <2>4
    <3>2. /\ peer[s] = "up" /\ peer'[s] = how
          /\ request'[s] \in {"none", request[s]}
          /\ replies'[s] = 0
          /\ leftInside' = (leftInside \/ client[s] # "idle" \/ s \in owed)
      BY <1>a, <3>1 DEF HangUp, TypeOK
    <3>3. Asks(s) \/ Handled(s) \/ Waits(s) => leftInside'
      BY <1>a, <3>2 DEF AskingOf
    <3>4. ~Replied(s)' /\ (Asks(s)' => Asks(s) /\ request'[s] = request[s])
      BY <3>2 DEF Replied, Asks
    <3>5. request'[s] \in Requests => Asks(s)
      BY <3>2 DEF Requests, Asks
    <3>6. /\ Asks(s) => ~Handled(s) /\ ~Waits(s)
          /\ Handled(s) => ~Waits(s)
          /\ request[s] \in {"cutFooter", "cutInside"} => peer[s] # "up"
      BY <1>a DEF AskingOf
    <3>7. Handled(s)' => \/ state'[s] = "Connected" /\ s \notin fDeleted'
                         \/ s \in fDeleted' /\ peer'[s] # "up"
      BY <1>a, <1>2, <1>3, <3>1, <3>2 DEF AskingOf
    <3>8. peer'[s] # "away" /\ peer'[s] # "up"
      BY <3>1, <3>2
    <3>9. QED
      BY <1>3, <3>3, <3>4, <3>5, <3>6, <3>7, <3>8, Zenon DEF AskingOf
  <2>5. CASE \E cut \in {"cutFooter", "cutInside"} : CutShort(s, cut)
    <3>1. PICK cut \in {"cutFooter", "cutInside"} : CutShort(s, cut)
      BY <2>5
    <3>2. /\ peer[s] = "up" /\ client[s] = "idle" /\ peer'[s] = "left"
          /\ request'[s] = cut /\ replies' = replies
      BY <1>a, <3>1 DEF CutShort, TypeOK
    <3>3. ~Handled(s) /\ ~Waits(s) /\ ~Replied(s)
      BY <1>a, <3>2 DEF AskingOf
    <3>4. ~Handled(s)' /\ ~Waits(s)' /\ ~Replied(s)'
      BY <1>3, <3>2, <3>3 DEF Replied
    <3>5. QED
      BY <3>1, <3>2, <3>4 DEF AskingOf, Requests
  <2>6. QED
    BY <1>1, <1>5, <2>1, <2>2, <2>3, <2>4, <2>5
<1>6. QED
  BY <1>4, <1>5

LEMMA AskingKept ==
  ASSUME IInv, ~wild, Next, ~wild'
  PROVE  Asking'
<1> SUFFICES ASSUME NEW s \in Sockets PROVE AskingOf(s)'
  BY DEF Asking
<1>1. QED
  BY AskingInIdleAll, AskingInReadPacket, AskingInHandleNewPacket, AskingInWalks,
     AskingInSignalled, AskingInScripts
     DEF Next, UIStep, UIWaitingStep, CPUStep, Threads

-----------------------------------------------------------------------------
(* The suspension of the device. *)

LEMMA SuspendingKept ==
  ASSUME IInv, ~wild, Next, ~wild'
  PROVE  Suspending'
<1> USE DEF objects, net, waiters, control, history
<1>a. TypeOK /\ Placed /\ Waiting /\ Asking /\ Suspending
  BY DEF IInv
<1>1. CASE HostSignalWait \/ HostSignalResume
  <2>1. /\ pc["ui"] = "packet" /\ pc["cpu"] = "run"
        /\ ResumeExternal \/ UNCHANGED <<external, owed>>
        /\ UNCHANGED <<signalledOne, leftInside>>
        /\ Goto("ui", "poll") \/ Goto("ui", "idle")
    BY <1>1 DEF HostSignalWait, HostSignalResume, ResumeExternalThenEvtWakeup, CPUStopped, Advance
  <2>2. pc'["cpu"] = "run"
    BY <1>a, <2>1, Going DEF Threads
  <2>3. ~signalledOne
    BY <1>a, <2>1 DEF Placed, Signalling
  <2>4. CASE ResumeExternal
    <3>1. external' = 0
      BY <1>a, <2>4 DEF ResumeExternal, Suspending, TypeOK
    <3>2. QED
      BY <2>1, <2>2, <2>3, <3>1 DEF Suspending
  <2>5. CASE UNCHANGED <<external, owed>>
    BY <1>a, <2>1, <2>2, <2>3, <2>5 DEF Suspending
  <2>6. QED
    BY <2>1, <2>4, <2>5
<1>2. CASE \E t \in Threads : Signalled(t)
  <2>1. PICK t \in Threads : Signalled(t)
    BY <1>2
  <2>2. /\ pc[t] = "signal" /\ signalledOne' = FALSE /\ UNCHANGED <<owed, leftInside>>
        /\ external' = IF signalledOne /\ ~quitting THEN external + 1 ELSE external
        /\ Goto(t, IF t = "cpu" THEN "run" ELSE "shutdown")
    BY <2>1 DEF Signalled, Walks
  <2>3. pc'["cpu"] # "signal" \/ t = "ui"
    BY <1>a, <2>2, Going DEF Threads
  <2>4. CASE t = "ui"
    <3>1. quitting /\ pc["cpu"] = "done"
      BY <1>a, <2>2, <2>4 DEF Placed
    <3>2. pc'["cpu"] = "done"
      BY <1>a, <2>2, <2>4, <3>1, Going DEF Threads
    <3>3. QED
      BY <1>a, <2>2, <3>1, <3>2 DEF Suspending
  <2>5. CASE t = "cpu"
    <3>1. external = 0
      BY <1>a, <2>2, <2>5 DEF Suspending
    <3>2. QED
      BY <1>a, <2>2, <2>3, <2>5, <3>1 DEF Suspending
  <2>6. QED
    BY <2>4, <2>5 DEF Threads
<1>3. CASE \E t \in Threads : SignalWaiter(t)
  <2> DEFINE w == gSLPTimeouts[iter]
  <2>1. /\ SendToWaiter /\ UNCHANGED <<pc, external, leftInside>>
        /\ owed' = IF peer[w] = "up" THEN owed \cup {w} ELSE owed
    BY <1>3 DEF SignalWaiter
  <2>2. w \in Sockets /\ Waits(w)
    BY <1>a, <2>1, SendingToWaiter
  <2>3. peer[w] = "up" \/ leftInside
    BY <1>a, <2>2 DEF Asking, AskingOf
  <2> HIDE DEF w
  <2>4. owed' # {} \/ leftInside'
    BY <2>1, <2>3
  <2>5. QED
    BY <1>a, <2>1, <2>4 DEF Suspending
<1>4. CASE ScriptStep
  <2>1. /\ UNCHANGED <<waiters, control>>
        /\ owed' # {} \/ owed = {} \/ leftInside'
        /\ leftInside => leftInside'
    <3>1. PICK x \in Sockets :
            \/ Dial(x) \/ GetReply(x)
            \/ \E what \in Requests : Ask(x, what)
            \/ \E how \in {"left", "reset"} : HangUp(x, how)
            \/ \E cut \in {"cutFooter", "cutInside"} : CutShort(x, cut)
      BY <1>4 DEF ScriptStep
    <3>2. /\ UNCHANGED <<waiters, control>>
          /\ leftInside => leftInside'
          /\ owed' = owed \/ (owed' = owed \ {x} /\ (x \in owed => leftInside'))
      BY <3>1, LeavingInside
    <3>3. QED
      BY <3>2
  <2>2. QED
    BY <1>a, <2>1 DEF Suspending
<1>5. CASE Quit \/ DeviceSignals
  <2>1. /\ UNCHANGED <<signalledOne, external, owed, leftInside>>
        /\ pc'["cpu"] = "signal" => external = 0
    BY <1>5, <1>a, Going DEF Quit, DeviceSignals, StartWalk, Threads
  <2>2. QED
    BY <1>a, <2>1 DEF Suspending
<1>6. CASE \/ IdleAll \/ IdleAllDone \/ NoData \/ AcceptConnection \/ FindDisconnected
           \/ ReadPacket \/ NotYet \/ TimesOut \/ RPCIdleDone \/ Shutdown \/ RPCIdle
           \/ NotHandled
  <2>1. UNCHANGED <<signalledOne, external, owed, leftInside>>
    BY <1>6 DEF IdleAll, IdleAllDone, NoData, AcceptConnection, FindDisconnected, ReadPacket,
                NotYet, TimesOut, RPCIdleDone, Shutdown, RPCIdle, StartWalk, NotHandled
  <2>2. pc' = pc \/ \E where : Goto("ui", where)
    BY <1>6 DEF IdleAll, IdleAllDone, NoData, AcceptConnection, FindDisconnected, ReadPacket,
                NotYet, TimesOut, RPCIdleDone, Shutdown, RPCIdle, NotHandled, Advance
  <2>3. pc'["cpu"] = pc["cpu"]
    BY <1>a, <2>2, Going DEF Threads
  <2>4. QED
    BY <1>a, <2>1, <2>3 DEF Suspending
<1>7. QED
  BY <1>1, <1>2, <1>3, <1>4, <1>5, <1>6 DEF Next, UIStep, UIWaitingStep, CPUStep, Threads

-----------------------------------------------------------------------------
(* The theorems. *)

LEMMA InitKept ==
  ASSUME Init
  PROVE  IInv
<1>a. 1 \in Sockets
  BY BoundsAssumption DEF Sockets
<1>b. <<>> \in Seq(Sockets) /\ Len(<<>>) = 0
  BY EmptySeq
<1>1. TypeOK
  <2>1. <<1>> \in Seq(Sockets)
    BY <1>a
  <2>2. QED
    BY <1>b, <2>1 DEF Init, TypeOK, Threads, Requests
<1>2. Placed
  BY <1>b DEF Init, Placed, Signalling
<1>3. Listener
  <2>1. Listening = {1}
    BY <1>a DEF Init, Listening
  <2>2. QED
    BY <1>a, <2>1 DEF Init, Listener
<1>4. Waiting
  BY <1>b DEF Init, Waiting, Distinct
<1>5. Asking
  BY <1>b DEF Init, Asking, AskingOf, Asks, Handled, Waits, Replied, Requests
<1>6. Suspending
  BY DEF Init, Suspending
<1>7. QED
  BY <1>1, <1>2, <1>3, <1>4, <1>5, <1>6 DEF IInv

LEMMA StepKept ==
  ASSUME IInv, [Next]_vars
  PROVE  IInv'
<1>1. CASE Next
  <2>1. ~wild
    BY <1>1 DEF Next
  <2>2. TypeOK' /\ Placed'
    BY <1>1, <2>1, UIStepTyped, OtherStepTyped DEF Next
  <2>3. QED
    BY <1>1, <2>1, <2>2, ListenerKept, WaitingKept, AskingKept, SuspendingKept DEF IInv
<1>2. CASE UNCHANGED vars
  <2> USE <1>2 DEF vars, objects, net, waiters, control, history
  <2>1. TypeOK' <=> TypeOK
    BY DEF TypeOK
  <2>2. Placed' <=> Placed
    BY DEF Placed, Signalling
  <2>3. Listener' <=> Listener
    BY DEF Listener, Listening
  <2>4. Waiting' <=> Waiting
    BY DEF Waiting, Distinct
  <2>5. Asking' <=> Asking
    BY DEF Asking, AskingOf, Asks, Handled, Current, Waits, Signalling, Replied
  <2>6. Suspending' <=> Suspending
    BY DEF Suspending
  <2>7. QED
    BY <2>1, <2>2, <2>3, <2>4, <2>5, <2>6 DEF IInv
<1>3. QED
  BY <1>1, <1>2

\* Every state has the parts above.
THEOREM Invariance == Spec => []IInv
<1>1. Init => IInv
  BY InitKept
<1>2. IInv /\ [Next]_vars => IInv'
  BY StepKept
<1>3. QED
  BY <1>1, <1>2, PTL DEF Spec

\* The sockets, their states, the packets and the iterators are what SocketMessaging.cpp and
\* EmRPC.cpp declare; the count of suspensions never falls below zero.
THEOREM Typing == Spec => []TypeOK
<1>1. IInv => TypeOK
  BY DEF IInv
<1>2. QED
  BY <1>1, Invariance, PTL

\* A packet that the device has deferred is answered once: by a signal or by its timeout,
\* whichever thread comes first, and not again when the reply of another call is sent on its
\* socket (RPC::SignalWaiters, RPC::Idle).
THEOREM Answers == Spec => []AnsweredOnce
<1>1. IInv => AnsweredOnce
  <2> SUFFICES ASSUME IInv, ~wild, NEW s \in Sockets
               PROVE  replies[s] <= 1 /\ (replies[s] = 1 => client[s] = "asked")
    BY DEF AnsweredOnce
  <2>1. AskingOf(s) /\ replies[s] \in Nat
    BY DEF IInv, Asking, TypeOK
  <2>2. QED
    BY <2>1 DEF AskingOf, Replied
<1>2. QED
  BY <1>1, Invariance, PTL

\* A packet of the list of waiters has a connected socket: RPC::EventCallback forgets the
\* packets of one that disconnects, whoever closes it.
THEOREM Waiters == Spec => []WaitersConnected
<1>1. IInv => WaitersConnected
  <2> SUFFICES ASSUME IInv, ~wild PROVE WaitersForgotten
    BY DEF WaitersConnected
  <2>1. Waiting /\ gSLPTimeouts \in Seq(Sockets)
    BY DEF IInv, TypeOK
  <2>2. DOMAIN gSLPTimeouts = 1 .. Len(gSLPTimeouts)
    BY <2>1, LenProperties
  <2>3. QED
    BY <2>1, <2>2 DEF WaitersForgotten, Waiting
<1>2. QED
  BY <1>1, Invariance, PTL

\* RPC::CreateNewListener opens the next listening socket when one is taken, and nobody else
\* opens or closes one until the end: one listens, unless the host has refused one.
THEOREM Listens == Spec => []OneListener
<1>1. IInv => OneListener
  <2> SUFFICES ASSUME IInv, ~quitting
               PROVE  Cardinality(Listening) = IF listenerLost THEN 0 ELSE 1
    BY DEF OneListener, Listening
  <2>1. IF listenerLost THEN Listening = {} ELSE \E s \in Sockets : Listening = {s}
    BY DEF IInv, Listener
  <2>2. QED
    BY <2>1, FS_EmptySet, FS_Singleton
<1>2. QED
  BY <1>1, Invariance, PTL

\* SignalWaiters suspends the device once at a time, and as long as it is suspended a script
\* that was signalled then is still there to call HostSignalResume, or one went away while it
\* waited or was waited for.  That a script waits again does not matter: if the device has
\* initialized its UI, HostSignalWait leaves it suspended, for the same scripts.
THEOREM Suspension == Spec => []SuspendedForScript
<1>1. IInv => SuspendedForScript
  BY DEF IInv, SuspendedForScript, Suspending
<1>2. QED
  BY <1>1, Invariance, PTL

=============================================================================
