-------------------------------- MODULE EmRPC --------------------------------
(***************************************************************************)
(* SocketMessaging.cpp, SLP.cpp and EmRPC.cpp: scripts outside the emulator *)
(* connect to it over TCP, ask for system calls, and wait for signals that  *)
(* the emulated device sends them.  The UI thread idles the sockets and     *)
(* handles the packets; the CPU thread sends the signals.                   *)
(*                                                                          *)
(* The list of waiting packets is walked by both threads under gMutex, and  *)
(* changed without it by the callback of a socket that disconnects.  A step *)
(* that leaves a thread with an iterator into a vector that was changed, or *)
(* that uses a socket that was freed, sets "wild": what the program does    *)
(* from there on is undefined, and the model ends.  It also ends when a     *)
(* packet is made to wait for a socket that is about to be freed.           *)
(***************************************************************************)
EXTENDS Integers, SequencesExt

CONSTANTS
  MaxSockets,  \* CSocket objects that exist at a time
  MaxHangUps,  \* scripts that leave the emulator
  Faults       \* what goes wrong in this instance

AllFaults   == {"openFails", "acceptFails", "hangUp", "cutFooter", "cutInside",
                "notStopped", "exception"}

ASSUME BoundsAssumption ==
  /\ MaxSockets \in Nat \ {0} /\ MaxHangUps \in Nat
  /\ Faults \subseteq AllFaults

VARIABLES
  state,              \* fSocketState of each socket, "None" when there is no object
  fDeleted,           \* sockets that are to be freed
  gSockets,           \* the sockets that are idled
  gSocketsToBeAdded,  \* the sockets created since
  peer,               \* the other end of each socket, as the TCP stack knows it
  request,            \* what a socket has received and the emulator has not read
  client,             \* what the script at the other end is doing
  replies,            \* replies on their way to the script
  gSLPTimeouts,       \* the sockets of the packets whose replies are deferred
  gMutex,             \* the thread that holds the lock of that list
  signalledOne,       \* the local variable of SignalWaiters
  external,           \* fSuspendByExternal of the session
  pc,                 \* where each thread is
  at,                 \* the index in gSockets that IdleAll has reached
  iter,               \* the index in gSLPTimeouts that the holder of gMutex has reached
  packet,             \* the packet that the UI thread has read
  quitting,           \* the application shuts down: gSession is NULL
  owed,               \* the scripts that were signalled when the device was suspended;
                      \* none when it has been resumed
  listenerLost,       \* a listening socket could not be opened, or a connection
                      \* not be accepted
  hangUps,            \* scripts that have gone away
  leftInside,         \* a script went away while it waited or the device waited for it
  wild                \* undefined behaviour

objects == <<state, fDeleted, gSockets, gSocketsToBeAdded>>
net     == <<peer, request, client, replies>>
waiters == <<gSLPTimeouts, gMutex, signalledOne, external>>
control == <<pc, at, iter, packet, quitting>>
history == <<owed, listenerLost, hangUps, leftInside>>
vars    == <<objects, net, waiters, control, history, wild>>

-----------------------------------------------------------------------------
Sockets  == 1..MaxSockets
Requests == {"wait", "resume"}   \* HostSignalWait, HostSignalResume
Threads  == {"ui", "cpu"}

Goto(t, where)      == pc' = [pc EXCEPT ![t] = where]

\* A thread holds an iterator into gSLPTimeouts.
Iterating == \E t \in Threads : pc[t] \in {"signal", "rpcIdle"}

\* A list without the sockets of a set.
Without(list, set) ==
  LET kept[n \in 0 .. Len(list)] ==
        IF n = 0 THEN <<>>
        ELSE IF list[n] \in set THEN kept[n - 1] ELSE Append(kept[n - 1], list[n])
  IN kept[Len(list)]

Free     == {s \in Sockets : state[s] = "None"}
Current  == gSockets[at]   \* the socket that IdleAll has reached

-----------------------------------------------------------------------------
(* CTCPSocket: what its functions do to one socket. *)

\* Mutant: a script that disconnects leaves its packet in the list.
CloseConnectedKeepsWaiter(s) ==
  /\ state' = [state EXCEPT ![s] = "Unconnected"]
  /\ fDeleted' = fDeleted \cup {s}
  /\ UNCHANGED <<gSLPTimeouts, wild>>

\* Close of a connected socket, and RPC::EventCallback for kDisconnected, which
\* does not take gMutex.
CloseConnected(s) ==
  /\ state' = [state EXCEPT ![s] = "Unconnected"]
  /\ fDeleted' = fDeleted \cup {s}
  /\ gSLPTimeouts' = Without(gSLPTimeouts, {s})
  /\ wild' = (Iterating /\ gSLPTimeouts' # gSLPTimeouts)

\* RPC::CreateNewListener, after the socket s has become connected.
CreateNewListener(s) ==
  \E f \in Free :
    /\ gSocketsToBeAdded' = Append(gSocketsToBeAdded, f)
    /\ \/ /\ state' = [state EXCEPT ![s] = "Connected", ![f] = "Listening"]
          /\ UNCHANGED <<fDeleted, listenerLost>>
       \/ /\ "openFails" \in Faults
          /\ state' = [state EXCEPT ![s] = "Connected", ![f] = "Unconnected"]
          /\ fDeleted' = fDeleted \cup {f}
          /\ listenerLost' = TRUE

\* SLP::SendPacket and CTCPSocket::Write.  A peer that has left answers the
\* first packet with a reset; the next one fails and closes the socket.  What a
\* socket that is no longer connected is given to send is dropped without an
\* error.
Sent(s) == state[s] # "Connected" \/ peer[s] # "reset"

Send(s) ==
  \/ /\ state[s] = "Connected" /\ peer[s] = "up"
     /\ replies' = [replies EXCEPT ![s] = @ + 1]
     /\ UNCHANGED <<peer, request, client>>
  \/ /\ state[s] = "Connected" /\ peer[s] = "left"
     /\ peer' = [peer EXCEPT ![s] = "reset"]
     /\ UNCHANGED <<request, client, replies>>
  \/ /\ state[s] # "Connected" \/ peer[s] = "reset"
     /\ UNCHANGED net

-----------------------------------------------------------------------------
(* The scripts. *)

Dial(s) ==
  /\ state[s] = "Listening" /\ peer[s] = "away" /\ Free # {}
  /\ peer' = [peer EXCEPT ![s] = "up"]
  /\ UNCHANGED <<objects, request, client, replies, waiters, control, history, wild>>

\* A script asks one thing at a time.
Ask(s, what) ==
  /\ peer[s] = "up" /\ client[s] = "idle"
  /\ request' = [request EXCEPT ![s] = what]
  /\ client' = [client EXCEPT ![s] = "asked"]
  /\ UNCHANGED <<objects, peer, replies, waiters, control, history, wild>>

GetReply(s) ==
  /\ peer[s] = "up" /\ replies[s] > 0
  /\ replies' = [replies EXCEPT ![s] = @ - 1]
  /\ client' = [client EXCEPT ![s] = "idle"]
  /\ UNCHANGED <<objects, peer, request, waiters, control, history, wild>>

\* The connection ends in an orderly way, after what was sent has been received,
\* or is reset, and what was not read is lost.
HangUp(s, how) ==
  /\ "hangUp" \in Faults /\ peer[s] = "up" /\ hangUps < MaxHangUps
  /\ hangUps' = hangUps + 1
  /\ peer' = [peer EXCEPT ![s] = how]
  /\ request' = IF how = "reset" THEN [request EXCEPT ![s] = "none"] ELSE request
  /\ client' = [client EXCEPT ![s] = "idle"]
  /\ replies' = [replies EXCEPT ![s] = 0]
  /\ leftInside' = (leftInside \/ client[s] # "idle" \/ s \in owed)
  /\ owed' = owed \ {s}
  /\ UNCHANGED <<objects, waiters, control, listenerLost, wild>>

\* The connection ends inside of a packet: between its body and its footer, or
\* inside of one of its parts.
CutShort(s, cut) ==
  /\ cut \in Faults /\ peer[s] = "up" /\ client[s] = "idle" /\ hangUps < MaxHangUps
  /\ hangUps' = hangUps + 1
  /\ peer' = [peer EXCEPT ![s] = "left"]
  /\ request' = [request EXCEPT ![s] = cut]
  /\ leftInside' = (leftInside \/ s \in owed)
  /\ owed' = owed \ {s}
  /\ UNCHANGED <<objects, client, replies, waiters, control, listenerLost, wild>>

-----------------------------------------------------------------------------
(* CSocket::IdleAll. *)

\* gSockets and the objects after AddPending and DeletePending.
Kept == Without(gSockets \o gSocketsToBeAdded, fDeleted)

AddAndDeletePending ==
  LET gone == Range(gSockets \o gSocketsToBeAdded) \cap fDeleted
      Blank(f, value) == [s \in Sockets |-> IF s \in gone THEN value ELSE f[s]]
  IN /\ gSockets' = Kept
     /\ gSocketsToBeAdded' = <<>>
     /\ fDeleted' = fDeleted \ gone
     /\ state' = Blank(state, "None")
     /\ peer' = Blank(peer, "away")
     /\ request' = Blank(request, "none")
     /\ client' = Blank(client, "idle")
     /\ replies' = Blank(replies, 0)

IdleAll ==
  /\ pc["ui"] = "loop"
  /\ AddAndDeletePending
  /\ Goto("ui", "idle") /\ at' = 1
  /\ UNCHANGED <<waiters, iter, packet, quitting, history, wild>>

\* The loop is over: AddPending, DeletePending, and on to RPC::Idle.
IdleAllDone ==
  /\ pc["ui"] = "idle" /\ at > Len(gSockets)
  /\ AddAndDeletePending
  /\ Goto("ui", "rpcLock") /\ at' = 1
  /\ UNCHANGED <<waiters, iter, packet, quitting, history, wild>>

Advance == Goto("ui", "idle") /\ at' = at + 1

\* Idle finds nothing to do, or the loop of SLP::EventCallback finds nothing for
\* half a second.
NoData ==
  /\ \/ pc["ui"] = "idle" /\ at <= Len(gSockets)
     \/ pc["ui"] = "poll"
  /\ \/ Current \in fDeleted
     \/ state[Current] = "Listening" /\ peer[Current] = "away"
     \/ state[Current] = "Unconnected"
     \/ state[Current] = "Connected" /\ peer[Current] = "up" /\ request[Current] = "none"
  /\ Advance
  /\ UNCHANGED <<objects, net, waiters, iter, packet, quitting, history, wild>>

\* Mutant: no other socket listens from here on.
AcceptConnectionOnly ==
  /\ pc["ui"] = "idle" /\ at <= Len(gSockets)
  /\ Current \notin fDeleted
  /\ state[Current] = "Listening" /\ peer[Current] # "away"
  /\ state' = [state EXCEPT ![Current] = "Connected"]
  /\ UNCHANGED <<fDeleted, gSockets, gSocketsToBeAdded, net, waiters, control, history,
                 wild>>

\* CheckConnection finds a script at the listening socket.  Idle goes on to look
\* for data.  If accept fails, Close is called before the state is Connected: the
\* callback is not called, and nobody listens any more.
AcceptConnection ==
  /\ pc["ui"] = "idle" /\ at <= Len(gSockets)
  /\ Current \notin fDeleted
  /\ state[Current] = "Listening" /\ peer[Current] # "away"
  /\ \/ /\ CreateNewListener(Current)
        /\ UNCHANGED <<gSockets, net, control>>
     \/ /\ "acceptFails" \in Faults
        /\ state' = [state EXCEPT ![Current] = "Unconnected"]
        /\ peer' = [peer EXCEPT ![Current] = "left"]
        /\ request' = [request EXCEPT ![Current] = "none"]
        /\ client' = [client EXCEPT ![Current] = "idle"]
        /\ listenerLost' = TRUE
        /\ Advance
        /\ UNCHANGED <<fDeleted, gSockets, gSocketsToBeAdded, replies, iter, packet,
                       quitting>>
  /\ UNCHANGED <<waiters, owed, hangUps, leftInside, wild>>

Connected == /\ \/ pc["ui"] = "idle" /\ at <= Len(gSockets)
                \/ pc["ui"] = "poll"
             /\ Current \notin fDeleted /\ state[Current] = "Connected"

\* Read finds that the script has closed the connection, or fails.
FindDisconnected ==
  /\ Connected /\ peer[Current] # "up" /\ request[Current] = "none"
  /\ CloseConnected(Current)
  /\ Advance
  /\ UNCHANGED <<gSockets, gSocketsToBeAdded, net, gMutex, signalledOne, external,
                 iter, packet, quitting, history>>

\* HandleDataReceived reads a packet.  The read of a footer that does not come
\* closes the socket and the packet is handled all the same; the read of a part
\* that ends early goes round in its loop for ever.
ReadPacket ==
  /\ Connected /\ request[Current] # "none"
  /\ request' = [request EXCEPT ![Current] = "none"]
  /\ \/ /\ request[Current] = "cutInside"
        /\ Goto("ui", "hung")
        /\ UNCHANGED <<state, fDeleted, gSLPTimeouts, packet, wild>>
     \/ /\ request[Current] = "cutFooter"
        /\ CloseConnected(Current)
        /\ Goto("ui", "packet") /\ packet' \in Requests
     \/ /\ request[Current] \in Requests
        /\ Goto("ui", "packet") /\ packet' = request[Current]
        /\ UNCHANGED <<state, fDeleted, gSLPTimeouts, wild>>
  /\ UNCHANGED <<gSockets, gSocketsToBeAdded, peer, client, replies, gMutex,
                 signalledOne, external, at, iter, quitting, history>>

-----------------------------------------------------------------------------
(* SLP::HandleNewPacket and RPC::HandleNewPacket: the CPU thread is stopped at a *)
(* system call, which it makes between the signals it sends.                     *)

CPUStopped == pc["ui"] = "packet" /\ pc["cpu"] = "run"

\* Mutant: the count is left negative.
ResumeExternalUnclamped == external' = external - 1

\* Mutant: it is taken for a flag of the script's own call.
ResumeExternalIgnored == UNCHANGED external

\* ScheduleResumeExternal inside of the nested call that the packet makes, whose
\* end takes a negative count back to zero.
ResumeExternal == external' = IF external > 0 THEN external - 1 ELSE 0

\* EvtWakeup is a nested call inside of that one.  It begins with the -1 that
\* ScheduleResumeExternal has left, and its end takes that to zero: the end of the
\* packet's own call finds nothing to subtract, and the device stays suspended.
ResumeExternalThenEvtWakeup == UNCHANGED external

\* HostSignalWait and DeferCurrentPacket.  EvtWakeup is called if the device has
\* initialized its UI, which is left open here.
HostSignalWait ==
  /\ CPUStopped /\ packet = "wait"
  /\ \/ ResumeExternal /\ owed' = {}
     \/ ResumeExternalThenEvtWakeup /\ UNCHANGED owed
  /\ gSLPTimeouts' = Append(gSLPTimeouts, Current)
  /\ wild' = (Current \in fDeleted)
  /\ Goto("ui", "poll") /\ packet' = "none"
  /\ UNCHANGED <<objects, net, gMutex, signalledOne, at, iter, quitting, listenerLost,
                 hangUps, leftInside>>

\* HostSignalResume, which stands for the calls that are answered at once.  If the
\* reply cannot be sent the socket is closed, and the loop of SLP::EventCallback ends.
HostSignalResume ==
  /\ CPUStopped /\ packet = "resume"
  /\ ResumeExternal /\ owed' = {}
  /\ packet' = "none"
  /\ Send(Current)
  /\ IF Sent(Current)
     THEN Goto("ui", "poll") /\ UNCHANGED <<state, fDeleted, gSLPTimeouts, at, wild>>
     ELSE CloseConnected(Current) /\ Advance
  /\ UNCHANGED <<gSockets, gSocketsToBeAdded, gMutex, signalledOne, iter,
                 quitting, listenerLost, hangUps, leftInside>>

\* The session cannot be stopped at a system call (the debugger has stopped the
\* device, a dialog is shown): the packet is dropped.  An exception of the nested
\* call resets the device and leaves the loop of SLP::EventCallback.
NotHandled ==
  /\ pc["ui"] = "packet"
  /\ \/ "notStopped" \in Faults /\ Goto("ui", "poll") /\ UNCHANGED at
     \/ "exception" \in Faults /\ pc["cpu"] = "run" /\ Advance
  /\ packet' = "none"
  /\ client' = [client EXCEPT ![Current] = IF @ = "asked" THEN "ignored" ELSE @]
  /\ UNCHANGED <<objects, peer, request, replies, waiters, iter, quitting, history,
                 wild>>

-----------------------------------------------------------------------------
(* RPC::SignalWaiters, by the device (a call of HostSignalSend, or the idle signal *)
(* of PuppetString), or at the end.                                                *)

\* gMutex is taken; the iterator stands at the first waiter.
StartWalk(t) ==
  /\ gMutex = "free"
  /\ gMutex' = t
  /\ UNCHANGED <<gSLPTimeouts, signalledOne, external, iter>>

\* The device runs.  (A signal nobody waits for changes nothing.)
DeviceSignals ==
  /\ pc["cpu"] = "run" /\ external = 0 /\ gSLPTimeouts # <<>>
  /\ StartWalk("cpu") /\ Goto("cpu", "signal")
  /\ UNCHANGED <<objects, net, at, packet, quitting, history, wild>>

\* EmApplication::Shutdown, after the document was closed.
Quit ==
  /\ pc["ui"] = "loop" /\ pc["cpu"] = "run"
  /\ StartWalk("ui") /\ pc' = [ui |-> "signal", cpu |-> "done"]
  /\ quitting' = TRUE
  /\ UNCHANGED <<objects, net, at, packet, history, wild>>

Walks(t, where) == pc[t] = where /\ gMutex = t

\* SendPacket to the waiter that the iterator has reached.  The callback of a send
\* that fails erases the waiter under the iterator.
SendToWaiter ==
  LET w == gSLPTimeouts[iter] IN
  /\ iter <= Len(gSLPTimeouts)
  /\ Send(w)
  /\ wild' = (state[w] = "None" \/ ~Sent(w))

SignalWaiter(t) ==
  /\ Walks(t, "signal")
  /\ SendToWaiter
  /\ signalledOne' = TRUE /\ iter' = iter + 1
  /\ owed' = IF peer[gSLPTimeouts[iter]] = "up" THEN owed \cup {gSLPTimeouts[iter]} ELSE owed
  /\ UNCHANGED <<objects, gSLPTimeouts, gMutex, external, pc, at, packet, quitting,
                 listenerLost, hangUps, leftInside>>

\* Mutant: the device is suspended once for every script that was signalled.
SignalledEach(t) ==
  /\ Walks(t, "signal") /\ iter > Len(gSLPTimeouts)
  /\ gSLPTimeouts' = <<>> /\ gMutex' = "free" /\ iter' = 1 /\ signalledOne' = FALSE
  /\ external' = IF ~quitting THEN external + Len(gSLPTimeouts) ELSE external
  /\ Goto(t, IF t = "cpu" THEN "run" ELSE "shutdown")
  /\ UNCHANGED <<objects, net, at, packet, quitting, history, wild>>

\* All are signalled; the list is emptied, and the device suspends until a script
\* resumes it.
Signalled(t) ==
  /\ Walks(t, "signal") /\ iter > Len(gSLPTimeouts)
  /\ gSLPTimeouts' = <<>> /\ gMutex' = "free" /\ iter' = 1 /\ signalledOne' = FALSE
  /\ external' = IF signalledOne /\ ~quitting THEN external + 1 ELSE external
  /\ Goto(t, IF t = "cpu" THEN "run" ELSE "shutdown")
  /\ UNCHANGED <<objects, net, at, packet, quitting, history, wild>>

-----------------------------------------------------------------------------
(* RPC::Idle. *)

RPCIdle ==
  /\ pc["ui"] = "rpcLock"
  /\ StartWalk("ui") /\ Goto("ui", "rpcIdle")
  /\ UNCHANGED <<objects, net, at, packet, quitting, history, wild>>

\* The waiter has time left.
NotYet ==
  /\ Walks("ui", "rpcIdle") /\ iter <= Len(gSLPTimeouts)
  /\ iter' = iter + 1
  /\ UNCHANGED <<objects, net, waiters, pc, at, packet, quitting, history, wild>>

\* Mutant: the waiter stays in the list.
TimesOutButStays ==
  /\ Walks("ui", "rpcIdle")
  /\ SendToWaiter
  /\ iter' = iter + 1
  /\ UNCHANGED <<objects, waiters, pc, at, packet, quitting, history>>

\* Mutant: it is forgotten without a word.
TimesOutSilently ==
  /\ Walks("ui", "rpcIdle") /\ iter <= Len(gSLPTimeouts)
  /\ gSLPTimeouts' = RemoveAt(gSLPTimeouts, iter)
  /\ UNCHANGED <<objects, net, gMutex, signalledOne, external, control, history, wild>>

\* It has not: it is told so and erased.
TimesOut ==
  /\ Walks("ui", "rpcIdle")
  /\ SendToWaiter
  /\ gSLPTimeouts' = RemoveAt(gSLPTimeouts, iter)
  /\ UNCHANGED <<objects, gMutex, signalledOne, external, control, history>>

RPCIdleDone ==
  /\ Walks("ui", "rpcIdle") /\ iter > Len(gSLPTimeouts)
  /\ gMutex' = "free" /\ iter' = 1 /\ Goto("ui", "loop")
  /\ UNCHANGED <<objects, net, gSLPTimeouts, signalledOne, external, at, packet,
                 quitting, history, wild>>

-----------------------------------------------------------------------------
(* CSocket::Shutdown: every socket is closed and freed. *)

Shutdown ==
  /\ pc["ui"] = "shutdown"
  /\ LET all == Range(gSockets \o gSocketsToBeAdded) IN
     /\ state' = [s \in Sockets |-> IF s \in all THEN "None" ELSE state[s]]
     /\ gSLPTimeouts' = Without(gSLPTimeouts, all)
  /\ gSockets' = <<>> /\ gSocketsToBeAdded' = <<>> /\ fDeleted' = {}
  /\ Goto("ui", "down")
  /\ UNCHANGED <<net, gMutex, signalledOne, external, at, iter, packet, quitting,
                 history, wild>>

-----------------------------------------------------------------------------
\* RPC::Startup has created the first listening socket.
Init ==
  /\ state = [s \in Sockets |-> IF s = 1 THEN "Listening" ELSE "None"]
  /\ fDeleted = {} /\ gSockets = <<>> /\ gSocketsToBeAdded = <<1>>
  /\ peer = [s \in Sockets |-> "away"]
  /\ request = [s \in Sockets |-> "none"]
  /\ client = [s \in Sockets |-> "idle"]
  /\ replies = [s \in Sockets |-> 0]
  /\ gSLPTimeouts = <<>> /\ gMutex = "free" /\ signalledOne = FALSE /\ external = 0
  /\ pc = [ui |-> "loop", cpu |-> "run"]
  /\ at = 1 /\ iter = 1 /\ packet = "none" /\ quitting = FALSE
  /\ owed = {} /\ listenerLost = FALSE /\ hangUps = 0 /\ leftInside = FALSE
  /\ wild = FALSE

\* What the UI thread does without waiting for the CPU thread, and what it does once
\* that has stopped or has left SignalWaiters.
UIStep ==
  \/ IdleAll \/ IdleAllDone \/ NoData \/ AcceptConnection \/ FindDisconnected \/ ReadPacket
  \/ SignalWaiter("ui") \/ Signalled("ui") \/ NotYet \/ TimesOut \/ RPCIdleDone \/ Shutdown
UIWaitingStep == HostSignalWait \/ HostSignalResume \/ RPCIdle
CPUStep       == SignalWaiter("cpu") \/ Signalled("cpu")
ScriptStep    ==
  ~quitting /\ \E s \in Sockets :
    \/ Dial(s) \/ GetReply(s)
    \/ \E what \in Requests : Ask(s, what)
    \/ \E how \in {"left", "reset"} : HangUp(s, how)
    \/ \E cut \in {"cutFooter", "cutInside"} : CutShort(s, cut)

Next ==
  /\ ~wild
  /\ \/ UIStep \/ UIWaitingStep \/ NotHandled \/ Quit
     \/ CPUStep \/ DeviceSignals
     \/ ScriptStep

\* The threads go on; the CPU thread, asked to stop at a system call, does so before
\* it signals for ever.  The rest is up to the scripts: they pause for half a second
\* now and then, ask for timeouts that are over at some pass of RPC::Idle, read the
\* signals they are sent, and call HostSignalResume for the device they stopped, however
\* often they wait again before.
Fairness ==
  /\ WF_vars(~wild /\ UIStep)
  /\ SF_vars(~wild /\ UIWaitingStep)
  /\ WF_vars(~wild /\ CPUStep)
  /\ SF_vars(~wild /\ pc["ui"] = "poll" /\ NoData)
  /\ SF_vars(~wild /\ TimesOut /\ iter = 1)
  /\ WF_vars(~wild /\ \E s \in owed : GetReply(s))
  /\ SF_vars(~wild /\ \E s \in owed : Ask(s, "resume"))

Spec == Init /\ [][Next]_vars /\ Fairness

-----------------------------------------------------------------------------
TypeOK ==
  /\ state \in [Sockets -> {"None", "Unconnected", "Listening", "Connected"}]
  /\ fDeleted \subseteq Sockets
  /\ gSockets \in Seq(Sockets) /\ gSocketsToBeAdded \in Seq(Sockets)
  /\ peer \in [Sockets -> {"away", "up", "left", "reset"}]
  /\ request \in [Sockets -> Requests \cup {"none", "cutFooter", "cutInside"}]
  /\ client \in [Sockets -> {"idle", "asked", "ignored"}]
  /\ replies \in [Sockets -> Nat]
  /\ gSLPTimeouts \in Seq(Sockets)
  /\ gMutex \in Threads \cup {"free"} /\ signalledOne \in BOOLEAN /\ external \in Nat
  /\ pc \in [ui: {"loop", "idle", "poll", "packet", "hung", "signal", "rpcLock", "rpcIdle",
                   "shutdown", "down"},
              cpu: {"run", "signal", "done"}]
  /\ at \in Nat /\ iter \in Nat
  /\ packet \in Requests \cup {"none"} /\ quitting \in BOOLEAN
  /\ owed \subseteq Sockets
  /\ {listenerLost, leftInside, wild} \subseteq BOOLEAN /\ hangUps \in Nat

\* Every request gets at most one reply: a deferred one is answered by a signal or by
\* its timeout, whichever thread comes first, and not again when its socket closes.
AnsweredOnce ==
  ~wild => \A s \in Sockets :
      replies[s] <= 1 /\ (replies[s] = 1 => client[s] = "asked")

\* A packet in the list of waiters has a connected socket (EmRPC.cpp: "If we had
\* anything on that socket waiting for us to signal it, forget about it").
WaitersForgotten ==
  \A i \in DOMAIN gSLPTimeouts :
    state[gSLPTimeouts[i]] = "Connected" /\ gSLPTimeouts[i] \notin fDeleted

WaitersConnected == ~wild => WaitersForgotten

\* One socket listens for the next script, whatever the others do, unless the host
\* refused one; and no two compete for the port.
OneListener ==
  quitting \/ Cardinality({s \in Sockets : state[s] = "Listening"})
                = IF listenerLost THEN 0 ELSE 1

\* The device is suspended by SignalWaiters at most once at a time, and only as long as a
\* script that was signalled then is there to resume it: a resume that another script has
\* asked for is for all of them.
SuspendedForScript ==
  ~wild => external <= 1 /\ (external = 1 => owed # {} \/ leftInside)

\* The device does not wait for scripts that all wait for the device (HostControl.cpp says
\* of HostSignalWait: "Unblock the CPU thread if it's suspended from a previous
\* HostSignalSend call").
NoStandstill ==
  ~wild /\ external > 0 /\ owed # {} => \E s \in owed : s \notin Range(gSLPTimeouts)

\* A script that asks is answered, unless its packet was dropped.
Answered ==
  \A s \in Sockets :
    client[s] = "asked" ~> client[s] # "asked" \/ replies[s] = 1 \/ wild \/ quitting
                              \/ pc["ui"] = "hung"

\* A device that was suspended for a script goes on when that script, or another, calls
\* HostSignalResume, whatever calls, signals and timeouts come before, if no script went
\* away in between or had its packet dropped.
DeviceResumes ==
  external > 0 ~> \/ external = 0 \/ wild \/ quitting \/ leftInside \/ pc["ui"] = "hung"
                  \/ \E s \in Sockets : client[s] = "ignored"
=============================================================================
