------------------------------- MODULE IpcServer -------------------------------
(***************************************************************************)
(* The named-pipe server between the injected DLL and the Python bridge,   *)
(* src/gwa3/llm/IpcServer.cpp.                                             *)
(*                                                                         *)
(* IpcThread makes one pipe per client, exchanges hellos, reads requests   *)
(* and tears the session down.  SenderThread drains a bounded priority     *)
(* queue that any thread fills through Send.  The two threads and the      *)
(* producers share g_clientConnected (atomic), g_pipe (under g_pipeMutex   *)
(* for writes and closing) and g_outboundQueue (under g_outboundMutex,     *)
(* with a condition variable).  A client is a session number: clients come *)
(* and go, send a good or a bad hello, and stop reading at any time.       *)
(***************************************************************************)
EXTENDS Integers, SequencesExt

CONSTANTS
    Producers,              \* threads that call Send
    Priorities,             \* the values of OutboundPriority in use
    MAX_OUTBOUND_QUEUE,     \* 256 in the code
    MaxSessions,            \* bound on the clients that connect
    MaxSends,               \* bound on the calls of Send that see a client
    MaxRequests,            \* bound on the requests clients write
    MayShutdown             \* whether Shutdown runs in this instance

ASSUME PriorityAssumption == Priorities \subseteq 0 .. 3
ASSUME BoundAssumption ==
    /\ MAX_OUTBOUND_QUEUE \in Nat \ {0}
    /\ MaxSessions \in Nat /\ MaxSends \in Nat /\ MaxRequests \in Nat
    /\ MayShutdown \in BOOLEAN

VARIABLES
    g_running, g_clientConnected,
    g_pipe,             \* "none", "listening", "connected", or "cut" by DisconnectNamedPipe
    peer,               \* the process at the other end: "absent", "alive" or "gone"
    g_outboundQueue,    \* sequence of frames [stamp, prio]
    g_inboundQueue,     \* sequence of the sessions the waiting requests came from
    ipc,                \* where IpcThread is
    sender, sending,    \* where SenderThread is, and the frame it popped
    send,               \* send[p]: the frame of a Send past its test of g_clientConnected
    stop,               \* progress of Shutdown
    session,            \* number of the latest client
    greeting,           \* the hello the client has written: "none", "good" or "bad"
    admitted,           \* history: sessions whose handshake succeeded
    received,           \* history: what each session's client was sent
    wire,               \* requests the client has written and IpcThread has not read
    stamps, sends, requests

pipeVars   == <<g_pipe, peer, session, greeting>>
senderVars == <<sender, sending>>
counters   == <<stamps, sends, requests>>
vars == <<g_running, g_clientConnected, pipeVars, g_outboundQueue, g_inboundQueue, ipc,
          senderVars, send, stop, admitted, received, wire, counters>>

Sessions == 1 .. MaxSessions
Idle  == [stamp |-> 0, prio |-> 0]
Hello == [stamp |-> 0, prio |-> 3]

\* g_pipeMutex is held across a write of the sender; every other hold of it
\* is one step.  g_outboundMutex is held from a false predicate to the wait.
PipeMutexFree     == sender # "writing"
OutboundMutexFree == sender # "blocking"

\* A write reaches the client, or a read can: both ends are there.
PipeWorks == g_pipe = "connected" /\ peer = "alive"

Init ==
    /\ g_running = TRUE /\ g_clientConnected = FALSE
    /\ g_pipe = "none" /\ peer = "absent" /\ session = 0 /\ greeting = "none"
    /\ g_outboundQueue = <<>> /\ g_inboundQueue = <<>>
    /\ ipc = "create" /\ sender = "top" /\ sending = Idle
    /\ send = [p \in Producers |-> Idle]
    /\ stop = "no"
    /\ admitted = {} /\ received = [s \in Sessions |-> <<>>] /\ wire = 0
    /\ stamps = 0 /\ sends = 0 /\ requests = 0

-----------------------------------------------------------------------------
(* IpcThread.                                                               *)

CreatePipe ==
    /\ ipc = "create" /\ g_running
    /\ g_pipe' = "listening" /\ peer' = "absent" /\ wire' = 0 /\ greeting' = "none"
    /\ ipc' = "waiting"
    /\ UNCHANGED <<g_running, g_clientConnected, session, g_outboundQueue, g_inboundQueue,
                   senderVars, send, stop, admitted, received, counters>>

\* The wait for ConnectNamedPipe ends.  Its result is not looked at, so a
\* cancelled wait goes on to the handshake as well, and a client that was
\* already there goes on to it without a look at g_running.
ClientArrived ==
    /\ ipc = "waiting" /\ g_pipe \in {"connected", "cut"}
    /\ ipc' = "hello"
    /\ UNCHANGED <<g_running, g_clientConnected, pipeVars, g_outboundQueue, g_inboundQueue,
                   senderVars, send, stop, admitted, received, wire, counters>>

\* SendServerHello, under g_pipeMutex.
SendServerHello ==
    /\ ipc = "hello" /\ PipeMutexFree
    /\ IF PipeWorks
       THEN received' = [received EXCEPT ![session] = Append(@, Hello)] /\ ipc' = "await"
       ELSE ipc' = "reject" /\ UNCHANGED received
    /\ UNCHANGED <<g_running, g_clientConnected, pipeVars, g_outboundQueue, g_inboundQueue,
                   senderVars, send, stop, admitted, wire, counters>>

AfterHello(valid) == IF valid THEN "admit" ELSE "reject"

HelloWaitIgnoresStop == greeting # "none" \/ ~PipeWorks   \* mutant: waits on while the server stops
HelloWaitEnds == greeting # "none" \/ ~PipeWorks \/ ~g_running

\* ReceiveClientHello and ValidateClientHello wait for a hello, for a broken
\* pipe or for the server to stop.
ReceiveClientHello ==
    /\ ipc = "await" /\ HelloWaitEnds
    /\ \E whole \in {w \in BOOLEAN : w => greeting # "none" /\ g_pipe = "connected" /\ g_running} :
          /\ whole \/ ~PipeWorks \/ ~g_running
          /\ ipc' = IF whole THEN AfterHello(greeting = "good") ELSE "reject"
          /\ admitted' = IF whole /\ greeting = "good" THEN admitted \cup {session} ELSE admitted
    /\ UNCHANGED <<g_running, g_clientConnected, pipeVars, g_outboundQueue, g_inboundQueue,
                   senderVars, send, stop, received, wire, counters>>

AdmitClient ==
    /\ ipc = "admit"
    /\ g_clientConnected' = TRUE
    /\ ipc' = "reading"
    /\ UNCHANGED <<g_running, pipeVars, g_outboundQueue, g_inboundQueue, senderVars, send,
                   stop, admitted, received, wire, counters>>

\* PipeCheckState finds bytes and ReadMessage returns a request.
ReadRequest ==
    /\ ipc = "reading" /\ g_running /\ g_clientConnected
    /\ g_pipe = "connected" /\ wire > 0
    /\ wire' = wire - 1
    /\ g_inboundQueue' = Append(g_inboundQueue, session)
    /\ UNCHANGED <<g_running, g_clientConnected, pipeVars, g_outboundQueue, ipc, senderVars,
                   send, stop, admitted, received, counters>>

SessionOverByFlag == ~g_running \/ ~g_clientConnected   \* mutant: a peek error is taken as transient
SessionOver == ~g_running \/ ~g_clientConnected \/ ~PipeWorks \/ wire > 0

\* PipeCheckState finds the pipe broken, g_clientConnected cleared by the
\* sender, the server is stopping, or the bytes that came are no valid frame.
SessionBreaks ==
    /\ ipc = "reading"
    /\ SessionOver
    /\ ipc' = "ending"
    /\ UNCHANGED <<g_running, g_clientConnected, pipeVars, g_outboundQueue, g_inboundQueue,
                   senderVars, send, stop, admitted, received, wire, counters>>

SessionUnset ==
    /\ ipc = "ending"
    /\ g_clientConnected' = FALSE
    /\ ipc' = "clearing"
    /\ UNCHANGED <<g_running, pipeVars, g_outboundQueue, g_inboundQueue, senderVars, send,
                   stop, admitted, received, wire, counters>>

\* ClearOutboundQueue.
SessionClears ==
    /\ ipc = "clearing" /\ OutboundMutexFree
    /\ g_outboundQueue' = <<>>
    /\ ipc' = "closing"
    /\ UNCHANGED <<g_running, g_clientConnected, pipeVars, g_inboundQueue, senderVars, send,
                   stop, admitted, received, wire, counters>>

\* The pipe is disconnected and closed under g_pipeMutex: at the end of a
\* session, after a failed handshake, when a wait is given up, or when
\* ConnectNamedPipe fails because the client has come and gone.
ClosePipe ==
    /\ ipc \in {"closing", "reject"} \/ (ipc = "waiting" /\ (~g_running \/ peer = "gone"))
    /\ PipeMutexFree
    /\ g_pipe' = "none" /\ peer' = "absent" /\ wire' = 0 /\ greeting' = "none"
    /\ ipc' = "create"
    /\ UNCHANGED <<g_running, g_clientConnected, session, g_outboundQueue, g_inboundQueue,
                   senderVars, send, stop, admitted, received, counters>>

IpcExits ==
    /\ ipc = "create" /\ ~g_running
    /\ ipc' = "exited"
    /\ UNCHANGED <<g_running, g_clientConnected, pipeVars, g_outboundQueue, g_inboundQueue,
                   senderVars, send, stop, admitted, received, wire, counters>>

IpcThread ==
    \/ CreatePipe \/ ClientArrived \/ SendServerHello \/ ReceiveClientHello \/ AdmitClient
    \/ ReadRequest \/ SessionBreaks \/ SessionUnset \/ SessionClears \/ ClosePipe \/ IpcExits

-----------------------------------------------------------------------------
(* Clients.                                                                 *)

ClientConnects ==
    /\ g_pipe = "listening" /\ session < MaxSessions
    /\ g_pipe' = "connected" /\ peer' = "alive" /\ session' = session + 1
    /\ greeting' = "none"
    /\ UNCHANGED <<g_running, g_clientConnected, g_outboundQueue, g_inboundQueue, ipc,
                   senderVars, send, stop, admitted, received, wire, counters>>

\* The client answers with a hello of the same protocol version, or not.
ClientGreets ==
    /\ PipeWorks /\ greeting = "none"
    /\ greeting' \in {"good", "bad"}
    /\ UNCHANGED <<g_running, g_clientConnected, g_pipe, peer, session, g_outboundQueue,
                   g_inboundQueue, ipc, senderVars, send, stop, admitted, received, wire,
                   counters>>

ClientWrites ==
    /\ PipeWorks /\ greeting # "none" /\ requests < MaxRequests
    /\ requests' = requests + 1 /\ wire' = wire + 1
    /\ UNCHANGED <<g_running, g_clientConnected, pipeVars, g_outboundQueue, g_inboundQueue,
                   ipc, senderVars, send, stop, admitted, received, stamps, sends>>

ClientLeaves ==
    /\ peer = "alive"
    /\ peer' = "gone"
    /\ UNCHANGED <<g_running, g_clientConnected, g_pipe, session, greeting, g_outboundQueue,
                   g_inboundQueue, ipc, senderVars, send, stop, admitted, received, wire,
                   counters>>

-----------------------------------------------------------------------------
(* Send, on any thread, and Dequeue, on the init thread.                    *)

\* QueueOutbound's test, before it takes g_outboundMutex.  Without a client
\* Send returns false and nothing changes.
SendEnters(p, prio) ==
    /\ send[p] = Idle /\ sends < MaxSends /\ g_clientConnected
    /\ sends' = sends + 1
    /\ send' = [send EXCEPT ![p] = [stamp |-> sends + 1, prio |-> prio]]
    /\ UNCHANGED <<g_running, g_clientConnected, pipeVars, g_outboundQueue, g_inboundQueue,
                   ipc, senderVars, stop, admitted, received, wire, stamps, requests>>

\* The first frame of the lowest, and of the highest, priority.
LowestAt(q) == CHOOSE i \in DOMAIN q :
    /\ \A j \in DOMAIN q : q[i].prio <= q[j].prio
    /\ \A j \in 1 .. i - 1 : q[j].prio > q[i].prio
\* mutant: >= instead of > in the search, so the latest of the highest
LatestHighestAt(q) == CHOOSE i \in DOMAIN q :
    /\ \A j \in DOMAIN q : q[j].prio <= q[i].prio
    /\ \A j \in i + 1 .. Len(q) : q[j].prio < q[i].prio
HighestAt(q) == CHOOSE i \in DOMAIN q :
    /\ \A j \in DOMAIN q : q[j].prio <= q[i].prio
    /\ \A j \in 1 .. i - 1 : q[j].prio < q[i].prio

\* The queue after a push, a frame of lower priority making room when it is
\* full; the queue unchanged means the new frame is refused.
Pushed(q, f) ==
    IF Len(q) < MAX_OUTBOUND_QUEUE THEN Append(q, f)
    ELSE IF f.prio > q[LowestAt(q)].prio THEN Append(RemoveAt(q, LowestAt(q)), f)
    ELSE q

NobodyNotified == sender   \* mutant: no notify
\* notify_one: the sender is the only thread that waits.
Notified == IF sender = "asleep" THEN "predicate" ELSE sender

\* QueueOutbound under g_outboundMutex; frames are stamped in queueing order.
SendQueues(p) ==
    /\ send[p] # Idle /\ OutboundMutexFree
    /\ LET f == [send[p] EXCEPT !.stamp = stamps + 1]
       IN  /\ g_outboundQueue' = Pushed(g_outboundQueue, f)
           /\ sender' = IF g_outboundQueue' # g_outboundQueue THEN Notified ELSE sender
    /\ stamps' = stamps + 1
    /\ send' = [send EXCEPT ![p] = Idle]
    /\ UNCHANGED <<g_running, g_clientConnected, pipeVars, g_inboundQueue, ipc, sending, stop,
                   admitted, received, wire, sends, requests>>

Dequeue ==
    /\ g_inboundQueue # <<>>
    /\ g_inboundQueue' = Tail(g_inboundQueue)
    /\ UNCHANGED <<g_running, g_clientConnected, pipeVars, g_outboundQueue, ipc, senderVars,
                   send, stop, admitted, received, wire, counters>>

-----------------------------------------------------------------------------
(* SenderThread.                                                            *)

SenderTop ==
    /\ sender = "top"
    /\ sender' = IF g_running THEN "predicate" ELSE "exited"
    /\ UNCHANGED <<g_running, g_clientConnected, pipeVars, g_outboundQueue, g_inboundQueue,
                   ipc, sending, send, stop, admitted, received, wire, counters>>

\* PopNextOutbound, under g_outboundMutex: the predicate of the wait.
SenderPops ==
    /\ sender = "predicate"
    /\ IF ~g_running
       THEN sender' = "top" /\ UNCHANGED <<sending, g_outboundQueue>>
       ELSE IF g_outboundQueue = <<>>
       THEN sender' = "blocking" /\ UNCHANGED <<sending, g_outboundQueue>>
       ELSE /\ sender' = "check"
            /\ sending' = g_outboundQueue[HighestAt(g_outboundQueue)]
            /\ g_outboundQueue' = RemoveAt(g_outboundQueue, HighestAt(g_outboundQueue))
    /\ UNCHANGED <<g_running, g_clientConnected, pipeVars, g_inboundQueue, ipc, send, stop,
                   admitted, received, wire, counters>>

\* The wait releases g_outboundMutex and blocks.
SenderBlocks ==
    /\ sender = "blocking"
    /\ sender' = "asleep"
    /\ UNCHANGED <<g_running, g_clientConnected, pipeVars, g_outboundQueue, g_inboundQueue,
                   ipc, sending, send, stop, admitted, received, wire, counters>>

\* A popped frame is dropped when no client is connected.
SenderChecks ==
    /\ sender = "check"
    /\ sender' = IF g_clientConnected THEN "lock" ELSE "top"
    /\ sending' = IF g_clientConnected THEN sending ELSE Idle
    /\ UNCHANGED <<g_running, g_clientConnected, pipeVars, g_outboundQueue, g_inboundQueue,
                   ipc, send, stop, admitted, received, wire, counters>>

NotTestedAgain == g_pipe # "none"   \* mutant: g_clientConnected is not tested under the mutex
StillConnected == g_clientConnected /\ g_pipe # "none"

\* Under g_pipeMutex: a client that went meanwhile counts as a failed write.
SenderLocks ==
    /\ sender = "lock"
    /\ sender' = IF StillConnected THEN "writing" ELSE "failed"
    /\ sending' = IF StillConnected THEN sending ELSE Idle
    /\ UNCHANGED <<g_running, g_clientConnected, pipeVars, g_outboundQueue, g_inboundQueue,
                   ipc, send, stop, admitted, received, wire, counters>>

SenderWrites ==
    /\ sender = "writing" /\ PipeWorks
    /\ received' = [received EXCEPT ![session] = Append(@, sending)]
    /\ sender' = "top" /\ sending' = Idle
    /\ UNCHANGED <<g_running, g_clientConnected, pipeVars, g_outboundQueue, g_inboundQueue,
                   ipc, send, stop, admitted, wire, counters>>

\* The write fails, is cancelled, or times out on a client that stopped reading.
WriteFails ==
    /\ sender = "writing"
    /\ sender' = "failed" /\ sending' = Idle
    /\ UNCHANGED <<g_running, g_clientConnected, pipeVars, g_outboundQueue, g_inboundQueue,
                   ipc, send, stop, admitted, received, wire, counters>>

\* DisconnectClientAfterSendFailure: g_pipe under its mutex, then the flag,
\* then the queue.  Disconnecting discards what the client wrote.
FailureCuts ==
    /\ sender = "failed"
    /\ sender' = "unset"
    /\ g_pipe' = IF g_pipe = "none" THEN g_pipe ELSE "cut"
    /\ wire' = IF g_pipe = "none" THEN wire ELSE 0
    /\ UNCHANGED <<g_running, g_clientConnected, peer, session, greeting, g_outboundQueue,
                   g_inboundQueue, ipc, sending, send, stop, admitted, received, counters>>

FailureUnsets ==
    /\ sender = "unset"
    /\ g_clientConnected' = FALSE
    /\ sender' = "clear"
    /\ UNCHANGED <<g_running, pipeVars, g_outboundQueue, g_inboundQueue, ipc, sending, send,
                   stop, admitted, received, wire, counters>>

FailureClears ==
    /\ sender = "clear"
    /\ g_outboundQueue' = <<>>
    /\ sender' = "top" /\ sending' = Idle
    /\ UNCHANGED <<g_running, g_clientConnected, pipeVars, g_inboundQueue, ipc, send, stop,
                   admitted, received, wire, counters>>

SenderThread ==
    \/ SenderTop \/ SenderPops \/ SenderBlocks \/ SenderChecks \/ SenderLocks
    \/ SenderWrites \/ WriteFails \/ FailureCuts \/ FailureUnsets \/ FailureClears

-----------------------------------------------------------------------------
(* Shutdown.                                                                *)

ShutdownStops ==
    /\ stop = "no" /\ MayShutdown
    /\ stop' = "notify" /\ g_running' = FALSE
    /\ UNCHANGED <<g_clientConnected, pipeVars, g_outboundQueue, g_inboundQueue, ipc,
                   senderVars, send, admitted, received, wire, counters>>

\* notify_all, without g_outboundMutex: a sender between its predicate and
\* its wait does not hear it.
ShutdownNotifies ==
    /\ stop = "notify"
    /\ stop' = "join"
    /\ sender' = Notified
    /\ UNCHANGED <<g_running, g_clientConnected, pipeVars, g_outboundQueue, g_inboundQueue,
                   ipc, sending, send, admitted, received, wire, counters>>

\* Both joins have returned, by the threads' ends or after 5000 ms each; the
\* queues are emptied.
ShutdownClears ==
    /\ stop = "join" /\ OutboundMutexFree
    /\ stop' = "done"
    /\ g_inboundQueue' = <<>> /\ g_outboundQueue' = <<>>
    /\ UNCHANGED <<g_running, g_clientConnected, pipeVars, ipc, senderVars, send, admitted,
                   received, wire, counters>>

Shutdown == ShutdownStops \/ ShutdownNotifies \/ ShutdownClears

-----------------------------------------------------------------------------

Next ==
    \/ IpcThread \/ SenderThread \/ Shutdown
    \/ ClientConnects \/ ClientGreets \/ ClientWrites \/ ClientLeaves
    \/ \E p \in Producers : SendQueues(p) \/ \E prio \in Priorities : SendEnters(p, prio)
    \/ Dequeue

Spec == Init /\ [][Next]_vars

\* The two server threads and a started Send or Shutdown are scheduled.
\* Clients owe nothing: they need not connect, read, write or leave.
FairSpec ==
    /\ Spec
    /\ WF_vars(IpcThread) /\ WF_vars(SenderThread)
    /\ \A p \in Producers : WF_vars(SendQueues(p))
    /\ WF_vars(ShutdownNotifies) /\ WF_vars(ShutdownClears)

-----------------------------------------------------------------------------

Stamped(q) == {q[i].stamp : i \in DOMAIN q}

\* Whatever the sender still holds when sessions change, a client is sent the
\* hello first and once, and frames only after its own hello was accepted.
OnlyAdmittedServed ==
    \A s \in Sessions : \A i \in DOMAIN received[s] :
        IF i = 1 THEN received[s][i] = Hello ELSE received[s][i] # Hello /\ s \in admitted

\* No frame overtakes an older one of the same or a higher priority, and none is
\* sent twice: an action result never waits behind snapshots queued after it.
NoOvertaking ==
    \A s \in Sessions : \A i, j \in 2 .. Len(received[s]) :
        i < j /\ received[s][i].prio <= received[s][j].prio
            => received[s][i].stamp < received[s][j].stamp

\* No frame stays in the queue of a running server for ever: each is sent,
\* evicted or cleared, so no notification that announces a frame is lost.
QueuedFrameLeaves ==
    \A n \in 1 .. MaxSends :
        (n \in Stamped(g_outboundQueue)) ~> (n \notin Stamped(g_outboundQueue) \/ ~g_running)

\* After a client goes, or the sender cuts it off, the server listens again:
\* the two threads' holds of g_pipeMutex and the flag never block each other.
ListensAgain ==
    (peer = "gone" \/ g_pipe = "cut") ~> (g_pipe = "listening" \/ ~g_running)

\* IpcServer.h:20, Shutdown joins the IPC thread; it always ends.
IpcThreadEnds == ~g_running ~> (ipc = "exited")

=============================================================================
