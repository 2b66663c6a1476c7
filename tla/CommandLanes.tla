----------------------------- MODULE CommandLanes -----------------------------
(***************************************************************************)
(* The three command rings of src/gwa3/packets/CtoS.cpp.                   *)
(*                                                                         *)
(* Threads of the bot put work into a ring of RingSize slots under the     *)
(* ring's spin lock.  The packet ring is drained by PacketSenderThread, the *)
(* game-command ring and the botshub ring by the engine detour, which the  *)
(* client enters every frame.  The consumers never take the locks: what    *)
(* keeps them apart from the producers is the order in which head, tail    *)
(* and slot are read and written.  A botshub command is not copied out; it *)
(* reads its arguments from its slot while it runs.  The rings are modelled *)
(* from the end of InstallEngineHook on.  Module EngineHook models how the  *)
(* detour comes and goes.                                                  *)
(***************************************************************************)
EXTENDS Integers, Sequences

CONSTANTS
    RingSize,   \* 64 in the code
    Tasks,      \* submissions: one number per packet or command, in their order
    Producers,  \* threads that submit
    None        \* no task

ASSUME RingAssumption == RingSize \in Nat \ {0}
ASSUME TasksAssumption == Tasks \subseteq Nat
ASSUME NoneAssumption ==
    None \notin Tasks /\ None \notin [lane : {"packet", "game", "botshub"}, task : Tasks]

VARIABLES
    ring,           \* ring[lane][index] = [fn, args]
    head, tail,     \* s_pktHead, s_cmdHead, s_botshubCmdHead and the tails; the index is modulo RingSize
    writeLock,      \* s_pktWriteLock, s_cmdWriteLock, s_botshubCmdWriteLock
    call,           \* call[p]: the enqueue function thread p is in
    sender,         \* where PacketSenderThread is
    frame,          \* where EngineDetourNaked is, "out" between frames
    copy,           \* copy[lane]: the task a consumer has copied out of its slot
    s_botshubSavedIndex,
    submitted,      \* history: tasks handed to an enqueue function
    accepted,       \* history: [task, via] of the tasks published in a ring
    log             \* history: log[lane]: [task, via] of the lane's tasks that ran, in order

producerVars == <<writeLock, call, submitted, accepted>>
vars == <<ring, head, tail, producerVars, sender, frame, copy, s_botshubSavedIndex, log>>

Lanes == {"packet", "game", "botshub"}
Slots == 0 .. RingSize - 1
Empty == [fn |-> FALSE, args |-> None]
NoCall == [at |-> "idle", lane |-> "packet", task |-> None]

Index(i) == i % RingSize
HeadSlot(l) == ring[l][Index(head[l])]
TailSlot(l) == ring[l][Index(tail[l])]

Init ==
    /\ ring = [l \in Lanes |-> [i \in Slots |-> Empty]]
    /\ head = [l \in Lanes |-> 0] /\ tail = [l \in Lanes |-> 0]
    /\ writeLock = [l \in Lanes |-> FALSE]
    /\ call = [p \in Producers |-> NoCall]
    /\ sender = "wait" /\ frame = "out"
    /\ copy = [l \in Lanes |-> None]
    /\ s_botshubSavedIndex = 0
    /\ submitted = {} /\ accepted = {} /\ log = [l \in Lanes |-> <<>>]

-----------------------------------------------------------------------------
(* EnqueuePacketTask, EnqueueGameCommand and EnqueueBotshubCommand.         *)

At(p, here) == call[p].at = here
Goes(p, there) == call' = [call EXCEPT ![p].at = there]

Ran(l, t) == log' = [log EXCEPT ![l] = Append(@, [task |-> t, via |-> l])]

\* A task is named by the order of its submission.
NextTask(t) == t \notin submitted /\ \A u \in Tasks : u < t => u \in submitted

EnqueueBegins(p, l, t) ==
    /\ At(p, "idle") /\ NextTask(t)
    /\ call' = [call EXCEPT ![p] = [at |-> "spin", lane |-> l, task |-> t]]
    /\ submitted' = submitted \cup {t}
    /\ UNCHANGED <<ring, head, tail, writeLock, accepted, sender, frame, copy,
                   s_botshubSavedIndex, log>>

LockIgnored(l) == TRUE   \* mutant: the spin is not waited for
LockFree(l) == ~writeLock[l]

EnqueueLocks(p) ==
    /\ At(p, "spin") /\ LockFree(call[p].lane)
    /\ writeLock' = [writeLock EXCEPT ![call[p].lane] = TRUE]
    /\ Goes(p, "test")
    /\ UNCHANGED <<ring, head, tail, submitted, accepted, sender, frame, copy,
                   s_botshubSavedIndex, log>>

Full(l) == head[l] - tail[l] >= RingSize

\* A full ring refuses the task: the lock is released and the call returns false.
EnqueueTests(p) ==
    LET l == call[p].lane IN
    /\ At(p, "test")
    /\ IF Full(l)
       THEN /\ writeLock' = [writeLock EXCEPT ![l] = FALSE]
            /\ call' = [call EXCEPT ![p] = NoCall]
       ELSE Goes(p, "zero") /\ UNCHANGED writeLock
    /\ UNCHANGED <<ring, head, tail, submitted, accepted, sender, frame, copy,
                   s_botshubSavedIndex, log>>

\* ZeroMemory.  A game command's fn is not cleared, only its parameters.
EnqueueZeroes(p) ==
    LET l == call[p].lane IN
    /\ At(p, "zero")
    /\ ring' = [ring EXCEPT ![l][Index(head[l])] =
                   [fn |-> l = "game" /\ @.fn, args |-> None]]
    /\ Goes(p, "fill")
    /\ UNCHANGED <<head, tail, writeLock, submitted, accepted, sender, frame, copy,
                   s_botshubSavedIndex, log>>

EnqueueFills(p) ==
    LET l == call[p].lane IN
    /\ At(p, "fill")
    /\ ring' = [ring EXCEPT ![l][Index(head[l])] = [fn |-> TRUE, args |-> call[p].task]]
    /\ Goes(p, "publish")
    /\ UNCHANGED <<head, tail, writeLock, submitted, accepted, sender, frame, copy,
                   s_botshubSavedIndex, log>>

EnqueuePublishes(p) ==
    LET l == call[p].lane IN
    /\ At(p, "publish")
    /\ head' = [head EXCEPT ![l] = @ + 1]
    /\ accepted' = accepted \cup {[task |-> call[p].task, via |-> l]}
    /\ Goes(p, "unlock")
    /\ UNCHANGED <<ring, tail, writeLock, submitted, sender, frame, copy,
                   s_botshubSavedIndex, log>>

\* The lock is released; SetEvent on the packet ring only shortens the
\* sender's wait, which ends by itself after 200 ms.
EnqueueUnlocks(p) ==
    /\ At(p, "unlock")
    /\ writeLock' = [writeLock EXCEPT ![call[p].lane] = FALSE]
    /\ call' = [call EXCEPT ![p] = NoCall]
    /\ UNCHANGED <<ring, head, tail, submitted, accepted, sender, frame, copy,
                   s_botshubSavedIndex, log>>

Producer(p) ==
    \/ EnqueueLocks(p) \/ EnqueueTests(p) \/ EnqueueZeroes(p) \/ EnqueueFills(p)
    \/ EnqueuePublishes(p) \/ EnqueueUnlocks(p)

-----------------------------------------------------------------------------
(* PacketSenderThread.                                                      *)

SenderWakes ==
    /\ sender = "wait"
    /\ sender' = "test"
    /\ UNCHANGED <<ring, head, tail, producerVars, frame, copy, s_botshubSavedIndex, log>>

SenderTests ==
    /\ sender = "test"
    /\ sender' = IF tail["packet"] = head["packet"] THEN "wait" ELSE "copy"
    /\ UNCHANGED <<ring, head, tail, producerVars, frame, copy, s_botshubSavedIndex, log>>

SenderCopies ==
    /\ sender = "copy"
    /\ copy' = [copy EXCEPT !["packet"] = TailSlot("packet").args]
    /\ sender' = "advance"
    /\ UNCHANGED <<ring, head, tail, producerVars, frame, s_botshubSavedIndex, log>>

SenderAdvances ==
    /\ sender = "advance"
    /\ tail' = [tail EXCEPT !["packet"] = @ + 1]
    /\ sender' = "sending"
    /\ UNCHANGED <<ring, head, producerVars, frame, copy, s_botshubSavedIndex, log>>

\* PacketSend returns, or raises an exception that is caught.
SenderSends ==
    /\ sender = "sending"
    /\ Ran("packet", copy["packet"])
    /\ copy' = [copy EXCEPT !["packet"] = None]
    /\ sender' = "test"
    /\ UNCHANGED <<ring, head, tail, producerVars, frame, s_botshubSavedIndex>>

SenderThread == SenderWakes \/ SenderTests \/ SenderCopies \/ SenderAdvances \/ SenderSends

-----------------------------------------------------------------------------
(* EngineDetourNaked, once per frame of the client.                         *)

\* ShouldDeferBotshubCommands looks at the client's state: a deferred frame
\* leaves the botshub ring alone and still serves the game-command ring.
FrameDefers ==
    /\ frame = "out"
    /\ frame' = "command"
    /\ UNCHANGED <<ring, head, tail, producerVars, sender, copy, s_botshubSavedIndex, log>>

FrameEnters ==
    /\ frame = "out"
    /\ frame' = "botshub"
    /\ UNCHANGED <<ring, head, tail, producerVars, sender, copy, s_botshubSavedIndex, log>>

TailAtDispatch(i) == i + 1   \* mutant: the slot is given back before its command runs
TailDuringRun(i) == i

\* The command's fn is cleared and jumped to; its arguments stay in the slot.
BotshubDispatch ==
    /\ frame = "botshub"
    /\ IF tail["botshub"] = head["botshub"] \/ ~TailSlot("botshub").fn
       THEN /\ frame' = "command"
            /\ UNCHANGED <<ring, tail, s_botshubSavedIndex>>
       ELSE /\ frame' = "running"
            /\ ring' = [ring EXCEPT !["botshub"][Index(tail["botshub"])].fn = FALSE]
            /\ s_botshubSavedIndex' = tail["botshub"]
            /\ tail' = [tail EXCEPT !["botshub"] = TailDuringRun(@)]
    /\ UNCHANGED <<head, producerVars, sender, copy, log>>

RunningSlot == ring["botshub"][Index(s_botshubSavedIndex)]

TailNeverMoved(i) == i   \* mutant: the tail is never moved on
TailAfterRun(i) == IF i = s_botshubSavedIndex THEN i + 1 ELSE i

\* The command is done and GWA3BotshubCommandReturnThunk ends the frame.
BotshubReturns ==
    /\ frame = "running"
    /\ Ran("botshub", RunningSlot.args)
    /\ tail' = [tail EXCEPT !["botshub"] = TailAfterRun(@)]
    /\ frame' = "out"
    /\ UNCHANGED <<ring, head, producerVars, sender, copy, s_botshubSavedIndex>>

\* EngineDispatchCommand, reached when no botshub command ran in this frame.
CommandCopies ==
    /\ frame = "command"
    /\ IF tail["game"] = head["game"]
       THEN frame' = "out" /\ UNCHANGED copy
       ELSE frame' = "advance" /\ copy' = [copy EXCEPT !["game"] = TailSlot("game").args]
    /\ UNCHANGED <<ring, head, tail, producerVars, sender, s_botshubSavedIndex, log>>

CommandAdvances ==
    /\ frame = "advance"
    /\ tail' = [tail EXCEPT !["game"] = @ + 1]
    /\ frame' = "calling"
    /\ UNCHANGED <<ring, head, producerVars, sender, copy, s_botshubSavedIndex, log>>

CommandReturns ==
    /\ frame = "calling"
    /\ Ran("game", copy["game"])
    /\ copy' = [copy EXCEPT !["game"] = None]
    /\ frame' = "out"
    /\ UNCHANGED <<ring, head, tail, producerVars, sender, s_botshubSavedIndex>>

InFrame == BotshubDispatch \/ BotshubReturns \/ CommandCopies \/ CommandAdvances \/ CommandReturns

-----------------------------------------------------------------------------

Next ==
    \/ \E p \in Producers : Producer(p) \/ \E l \in Lanes, t \in Tasks : EnqueueBegins(p, l, t)
    \/ SenderThread
    \/ FrameDefers \/ FrameEnters \/ InFrame

Spec == Init /\ [][Next]_vars

\* Threads are scheduled, the client keeps drawing frames, and again and again
\* it is in a state in which a frame does not defer.
FairSpec ==
    /\ Spec
    /\ \A p \in Producers : WF_vars(Producer(p))
    /\ WF_vars(SenderThread)
    /\ WF_vars(InFrame) /\ SF_vars(FrameEnters)

-----------------------------------------------------------------------------


Done(l) == {log[l][i].task : i \in DOMAIN log[l]}
IsBotshubQueueIdle == head["botshub"] = tail["botshub"]

\* CtoS.h:32, and what WaitForBotshubQueueIdle (MaintenanceMgr.cpp:2477) relies
\* on: an idle botshub ring means every accepted command has finished, not only
\* that it has been taken.
BotshubIdleMeansDone ==
    IsBotshubQueueIdle => \A a \in accepted : a.via = "botshub" => a.task \in Done("botshub")

\* Tasks of ring l that are published and not yet taken, oldest first.
First(l) == IF l = "botshub" /\ frame = "running" THEN tail[l] + 1 ELSE tail[l]
Waiting(l) == [k \in 1 .. head[l] - First(l) |-> ring[l][Index(First(l) + k - 1)].args]

\* The task a consumer has taken and not yet finished.
Busy(l) == CASE l = "packet"  -> sender = "sending"
             [] l = "game"    -> frame = "calling"
             [] l = "botshub" -> frame = "running"
Taken(l) ==
    IF Busy(l) THEN [lane |-> l, task |-> IF l = "botshub" THEN RunningSlot.args ELSE copy[l]]
    ELSE None
PacketLane == INSTANCE TaskLanes WITH
    Lanes <- {"packet"}, Capacity <- RingSize, closed <- FALSE,
    queue <- [x \in {"packet"} |-> Waiting(x)], taken <- Taken("packet"), log <- log["packet"]
GameLane == INSTANCE TaskLanes WITH
    Lanes <- {"game"}, Capacity <- RingSize, closed <- FALSE,
    queue <- [x \in {"game"} |-> Waiting(x)], taken <- Taken("game"), log <- log["game"]
BotshubLane == INSTANCE TaskLanes WITH
    Lanes <- {"botshub"}, Capacity <- RingSize, closed <- FALSE,
    queue <- [x \in {"botshub"} |-> Waiting(x)], taken <- Taken("botshub"), log <- log["botshub"]

\* Each ring implements a bounded first-in first-out lane: no accepted task is
\* lost, torn, overtaken or run twice, whatever the producers and the consumer
\* interleave.
LanesAreQueues == PacketLane!Spec /\ GameLane!Spec /\ BotshubLane!Spec

\* An accepted task runs: no wait of the consumers misses the last publication.
AcceptedRuns ==
    \A t \in Tasks :
        (\E a \in accepted : a.task = t) ~> (\E l \in Lanes : t \in Done(l))
=============================================================================
