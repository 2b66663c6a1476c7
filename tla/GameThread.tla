------------------------------ MODULE GameThread ------------------------------
(***************************************************************************)
(* The game-thread dispatcher, src/gwa3/core/GameThread.cpp.               *)
(*                                                                         *)
(* Any thread hands a one-shot task to one of three lanes, each a ring of  *)
(* kMaxQueue slots under the critical section s_cs.  The game thread       *)
(* enters DetourCallback once per frame and drains them: one serial-pre    *)
(* task, every pre task, the game's own callback, one post task.  A slot   *)
(* is invoked in place AFTER s_cs is left, so the only thing between the   *)
(* running task and a producer is the ring's one slot that is never        *)
(* filled.  Initialize and Shutdown run once each in a process             *)
(* (dllmain.cpp:991,1113).                                                 *)
(***************************************************************************)
EXTENDS Integers, Sequences, FiniteSets

CONSTANTS
    kMaxQueue,      \* slots of a ring (256 in the code)
    Tasks,          \* submissions: one number per call of an Enqueue function, in their order
    Workers,        \* the threads other than the game thread
    GameTid,        \* the game thread
    CalledApis,     \* the Enqueue functions that somebody calls in this instance
    None,           \* no task, slot or thread
    MaxRepatches,   \* bound on s_repatchCount
    MayStop         \* whether Initialize may fail and Shutdown run in this instance

ASSUME CapacityAssumption == kMaxQueue \in Nat /\ kMaxQueue >= 2
ASSUME TasksAssumption == Tasks \subseteq Nat
ASSUME NamesAssumption ==
    /\ GameTid \notin Workers
    /\ None \notin Tasks \cup Workers \cup {GameTid}
    /\ None \notin Nat
    /\ None \notin [api : {"Enqueue", "EnqueueRaw", "EnqueueSerialPre",
                           "EnqueuePost", "EnqueuePostRaw"}, task : Tasks]
    /\ None \notin [lane : {"serialPre", "pre", "post"}, task : Tasks]
ASSUME CallsAssumption ==
    CalledApis \subseteq {"Enqueue", "EnqueueRaw", "EnqueueSerialPre",
                           "EnqueuePost", "EnqueuePostRaw"}
ASSUME BoundAssumption == MaxRepatches \in Nat /\ MayStop \in BOOLEAN

VARIABLES
    slot,             \* slot[lane][index]: the task whose invoker the slot holds
    head, tail,       \* write and read index of each ring
    frame,            \* where DetourCallback is: "out" of it, a lane, "original", "leave"
    step,             \* within a lane: "look" at the ring, "call" the slot, task "body"
    running,          \* index of the slot the drain has taken
    s_onGameThread, s_gameThreadId,
    call,             \* call[thread]: the Enqueue call that passed its unlocked checks
    s_initialized,
    s_cs,             \* the critical section: "none", "live" or "deleted"
    hook,             \* bytes at s_hookTarget: "none", "patched" or "foreign"
    s_watchdogRunning, watchdog, s_repatchCount,
    boot,             \* progress of Initialize and Shutdown
    timedOut,         \* history: Shutdown's wait for the watchdog ran into its timeout
    submitted,        \* tasks that were passed to an Enqueue function
    log,              \* history: the tasks that ran, in order
    ranThisFrame      \* history: tasks each ring ran in this frame

ringVars  == <<slot, head, tail>>
frameVars == <<frame, step, running, s_onGameThread, s_gameThreadId, ranThisFrame>>
lifeVars  == <<s_initialized, s_cs, hook, s_watchdogRunning, watchdog, s_repatchCount, boot,
               timedOut>>
history   == <<submitted, log>>
vars      == <<ringVars, frameVars, call, lifeVars, history>>

Lanes   == {"serialPre", "pre", "post"}
Threads == Workers \cup {GameTid}
Slots   == 0 .. kMaxQueue - 1
Apis    == {"Enqueue", "EnqueueRaw", "EnqueueSerialPre", "EnqueuePost", "EnqueuePostRaw"}
RawApis == {"EnqueueRaw", "EnqueuePostRaw"}
Calls   == [api : Apis, task : Tasks]

LaneOf(api) ==
    CASE api \in {"Enqueue", "EnqueueRaw"}         -> "pre"
      [] api = "EnqueueSerialPre"                  -> "serialPre"
      [] api \in {"EnqueuePost", "EnqueuePostRaw"} -> "post"

Succ(i) == (i + 1) % kMaxQueue

NeverFull(l) == FALSE   \* mutant: the test for a full ring is dropped
Full(l) == Succ(head[l]) = tail[l]

\* What an Enqueue function tests before it runs the task at once.
OnGameThread(th) == s_onGameThread /\ s_gameThreadId = th

\* The phase of DetourCallback after a lane's drain returns.
AfterLane(l) ==
    CASE l = "serialPre" -> "pre" [] l = "pre" -> "original" [] l = "post" -> "leave"

\* The phase after a lane's task returned: only the pre drain looks again.
AfterTask(l) == IF l = "pre" THEN "pre" ELSE AfterLane(l)

Ran(t, via) == log' = Append(log, [task |-> t, via |-> via])

-----------------------------------------------------------------------------

Init ==
    /\ slot = [l \in Lanes |-> [i \in Slots |-> None]]
    /\ head = [l \in Lanes |-> 0]
    /\ tail = [l \in Lanes |-> 0]
    /\ frame = "out" /\ step = "look" /\ running = None
    /\ s_onGameThread = FALSE /\ s_gameThreadId = None
    /\ call = [th \in Threads |-> None]
    /\ s_initialized = FALSE /\ s_cs = "none" /\ hook = "none"
    /\ s_watchdogRunning = FALSE /\ watchdog = "none" /\ s_repatchCount = 0
    /\ boot = "down" /\ timedOut = FALSE
    /\ submitted = {} /\ log = <<>>
    /\ ranThisFrame = [l \in Lanes |-> 0]

-----------------------------------------------------------------------------
(* The frame: DetourCallback and the three drains, on the game thread.      *)

\* GameThread.cpp:184-190.  Only a patched entry point leads here.
DetourEnter ==
    /\ frame = "out" /\ hook = "patched" /\ s_cs = "live" /\ call[GameTid] = None
    /\ frame' = "serialPre" /\ step' = "look"
    /\ s_onGameThread' = TRUE /\ s_gameThreadId' = GameTid
    /\ ranThisFrame' = [l \in Lanes |-> 0]
    /\ UNCHANGED <<ringVars, running, call, lifeVars, history>>

\* A drain finds its ring empty: nothing to do in this lane.
LaneEmpty(l) ==
    /\ frame = l /\ step = "look" /\ tail[l] = head[l]
    /\ frame' = AfterLane(l)
    /\ step' = IF AfterLane(l) = "original" THEN "body" ELSE "look"
    /\ UNCHANGED <<ringVars, running, s_onGameThread, s_gameThreadId, ranThisFrame,
                   call, lifeVars, history>>

\* Under s_cs: take the oldest slot and advance the tail, then leave s_cs.
Take(l) ==
    /\ frame = l /\ step = "look" /\ tail[l] # head[l] /\ s_cs = "live"
    /\ running' = tail[l]
    /\ tail' = [tail EXCEPT ![l] = Succ(@)]
    /\ step' = "call"
    /\ UNCHANGED <<slot, head, frame, s_onGameThread, s_gameThreadId, ranThisFrame,
                   call, lifeVars, history>>

\* Outside s_cs: invoke whatever the slot holds; an empty invoker is skipped.
Invoke(l) ==
    /\ frame = l /\ step = "call"
    /\ step' = "body"
    /\ IF slot[l][running] = None
       THEN UNCHANGED <<log, ranThisFrame>>
       ELSE /\ Ran(slot[l][running], l)
            /\ ranThisFrame' = [ranThisFrame EXCEPT ![l] = @ + 1]
    /\ UNCHANGED <<ringVars, frame, running, s_onGameThread, s_gameThreadId, call,
                   lifeVars, submitted>>

InvokerCleared(l) == [slot EXCEPT ![l][running] = None]

\* The task returned: clear the slot, still outside s_cs.  The pre drain looks
\* again; the serial-pre and post drains are done for this frame.
Finish(l) ==
    /\ frame = l /\ step = "body" /\ call[GameTid] = None
    /\ slot' = InvokerCleared(l)
    /\ running' = None
    /\ step' = "look"
    /\ frame' = AfterTask(l)
    /\ UNCHANGED <<head, tail, s_onGameThread, s_gameThreadId, ranThisFrame, call,
                   lifeVars, history>>

\* The game's own callback (s_originalCallback) returns.
OriginalReturns ==
    /\ frame = "original" /\ call[GameTid] = None
    /\ frame' = "post" /\ step' = "look"
    /\ UNCHANGED <<ringVars, running, s_onGameThread, s_gameThreadId, ranThisFrame,
                   call, lifeVars, history>>

\* GameThread.cpp:217-220.
DetourLeave ==
    /\ frame = "leave" /\ s_cs = "live"
    /\ frame' = "out"
    /\ s_onGameThread' = FALSE /\ s_gameThreadId' = None
    /\ UNCHANGED <<ringVars, step, running, ranThisFrame, call, lifeVars, history>>

-----------------------------------------------------------------------------
(* The Enqueue functions, on any thread.                                    *)

\* The game thread calls from a task, from the game's callback, or from other
\* hooks outside the frame; a worker whenever it likes.
MayCall(th) ==
    /\ call[th] = None
    /\ th = GameTid => frame = "out" \/ step = "body"

\* A task is named by the order of its submission.
NextTask(t) == t \notin submitted /\ \A u \in Tasks : u < t => u \in submitted

\* The unlocked tests at the top: initialised, and a payload that fits.
EnqueueEnters(th, api, t) ==
    /\ MayCall(th) /\ NextTask(t) /\ s_initialized
    /\ submitted' = submitted \cup {t}
    /\ call' = [call EXCEPT ![th] = [api |-> api, task |-> t]]
    /\ UNCHANGED <<ringVars, frameVars, lifeVars, log>>

\* Not initialised, or a raw payload larger than a slot's storage: dropped.
EnqueueRefuses(th, api, t) ==
    /\ MayCall(th) /\ NextTask(t)
    /\ ~s_initialized \/ api \in RawApis
    /\ submitted' = submitted \cup {t}
    /\ UNCHANGED <<ringVars, frameVars, call, lifeVars, log>>

\* The fast path: a callback submitted on the game thread runs at once.
EnqueueRunsNow(th) ==
    /\ call[th] # None /\ s_cs = "live"
    /\ call[th].api \notin RawApis /\ OnGameThread(th)
    /\ Ran(call[th].task, "direct")
    /\ call' = [call EXCEPT ![th] = None]
    /\ UNCHANGED <<ringVars, frameVars, lifeVars, submitted>>

\* Under s_cs: fill the head slot, or drop the task when the ring is full.
EnqueuePushes(th) ==
    /\ call[th] # None /\ s_cs = "live"
    /\ call[th].api \in RawApis \/ ~OnGameThread(th)
    /\ LET l == LaneOf(call[th].api)
       IN  IF Full(l)
           THEN UNCHANGED ringVars
           ELSE /\ slot' = [slot EXCEPT ![l][head[l]] = call[th].task]
                /\ head' = [head EXCEPT ![l] = Succ(@)]
                /\ UNCHANGED tail
    /\ call' = [call EXCEPT ![th] = None]
    /\ UNCHANGED <<frameVars, lifeVars, submitted, log>>

-----------------------------------------------------------------------------
(* Initialize, Shutdown and the hook watchdog.                              *)

\* The hook is enabled before s_initialized is set: frames may come first.
InitializeHooks ==
    /\ boot = "down"
    /\ boot' = "hooked" /\ s_cs' = "live" /\ hook' = "patched"
    /\ UNCHANGED <<ringVars, frameVars, call, s_initialized, s_watchdogRunning,
                   watchdog, s_repatchCount, timedOut, history>>

\* The scan or MinHook fails: s_cs is deleted again and nothing is installed.
InitializeFails ==
    /\ boot = "down" /\ MayStop
    /\ boot' = "failed" /\ s_cs' = "deleted"
    /\ UNCHANGED <<ringVars, frameVars, call, s_initialized, hook, s_watchdogRunning,
                   watchdog, s_repatchCount, timedOut, history>>

InitializeDone ==
    /\ boot = "hooked"
    /\ boot' = "up" /\ s_initialized' = TRUE
    /\ s_watchdogRunning' = TRUE /\ watchdog' = "test"
    /\ UNCHANGED <<ringVars, frameVars, call, s_cs, hook, s_repatchCount, timedOut, history>>

\* The client's own code rewrites the entry point of the hooked function.
GameOverwritesHook ==
    /\ hook = "patched" /\ boot \in {"up", "joining"} /\ s_repatchCount < MaxRepatches
    /\ hook' = "foreign"
    /\ UNCHANGED <<ringVars, frameVars, call, s_initialized, s_cs, s_watchdogRunning,
                   watchdog, s_repatchCount, boot, timedOut, history>>

\* HookWatchdog: the loop test, then the sleep.
WatchdogTests ==
    /\ watchdog = "test"
    /\ watchdog' = IF s_watchdogRunning THEN "slept" ELSE "exited"
    /\ UNCHANGED <<ringVars, frameVars, call, s_initialized, s_cs, hook,
                   s_watchdogRunning, s_repatchCount, boot, timedOut, history>>

HookNeverChanged == FALSE   \* mutant: a changed entry point goes unnoticed
HookChanged == hook # "patched"

\* HookWatchdog after the sleep: the unlocked tests and the compare.
WatchdogCompares ==
    /\ watchdog = "slept"
    /\ watchdog' = IF s_initialized /\ HookChanged THEN "patch" ELSE "test"
    /\ UNCHANGED <<ringVars, frameVars, call, s_initialized, s_cs, hook,
                   s_watchdogRunning, s_repatchCount, boot, timedOut, history>>

\* HookWatchdog found a change: it writes the patch, however long ago it looked.
\* With s_hookTarget back at 0 VirtualProtect fails and nothing is written.
WatchdogPatches ==
    /\ watchdog = "patch"
    /\ watchdog' = "test"
    /\ IF boot = "gone"
       THEN UNCHANGED <<hook, s_repatchCount>>
       ELSE hook' = "patched" /\ s_repatchCount' = s_repatchCount + 1
    /\ UNCHANGED <<ringVars, frameVars, call, s_initialized, s_cs, s_watchdogRunning,
                   boot, timedOut, history>>

ShutdownStopsWatchdog ==
    /\ boot = "up" /\ MayStop
    /\ boot' = "joining" /\ s_watchdogRunning' = FALSE
    /\ UNCHANGED <<ringVars, frameVars, call, s_initialized, s_cs, hook, watchdog,
                   s_repatchCount, timedOut, history>>

WatchdogNotAwaited == TRUE   \* mutant: the wait's success is assumed, not awaited
\* The wait of 2000 ms ends well when the watchdog has left its loop.
WatchdogJoined == watchdog = "exited"

\* The wait ended, well or by its timeout: the result is ignored either way.
ShutdownUnhooks ==
    /\ boot = "joining"
    /\ boot' = "unhooked" /\ hook' = "none"
    /\ timedOut' = ~WatchdogJoined
    /\ UNCHANGED <<ringVars, frameVars, call, s_initialized, s_cs, s_watchdogRunning,
                   watchdog, s_repatchCount, history>>

\* Under s_cs: every ring is emptied, whatever the game thread is doing.
ShutdownClears ==
    /\ boot = "unhooked"
    /\ boot' = "cleared"
    /\ slot' = [l \in Lanes |-> [i \in Slots |-> None]]
    /\ head' = [l \in Lanes |-> 0]
    /\ tail' = [l \in Lanes |-> 0]
    /\ s_onGameThread' = FALSE /\ s_gameThreadId' = None
    /\ s_initialized' = FALSE
    /\ UNCHANGED <<frame, step, running, ranThisFrame, call, s_cs, hook,
                   s_watchdogRunning, watchdog, s_repatchCount, timedOut,
                   submitted, log>>

ShutdownDeletes ==
    /\ boot = "cleared"
    /\ boot' = "gone" /\ s_cs' = "deleted"
    /\ UNCHANGED <<ringVars, frameVars, call, s_initialized, hook, s_watchdogRunning,
                   watchdog, s_repatchCount, timedOut, history>>

-----------------------------------------------------------------------------

Drain(l) == LaneEmpty(l) \/ Take(l) \/ Invoke(l) \/ Finish(l)

Frame == DetourEnter \/ (\E l \in Lanes : Drain(l)) \/ OriginalReturns \/ DetourLeave

Submit(th) ==
    \/ \E api \in CalledApis, t \in Tasks : EnqueueEnters(th, api, t) \/ EnqueueRefuses(th, api, t)
    \/ EnqueueRunsNow(th)
    \/ EnqueuePushes(th)

Watchdog == WatchdogTests \/ WatchdogCompares \/ WatchdogPatches

Shutdown == ShutdownStopsWatchdog \/ ShutdownUnhooks \/ ShutdownClears \/ ShutdownDeletes

Next ==
    \/ Frame
    \/ \E th \in Threads : Submit(th)
    \/ InitializeHooks \/ InitializeFails \/ InitializeDone
    \/ GameOverwritesHook \/ Watchdog
    \/ Shutdown

Spec == Init /\ [][Next]_vars

\* The client keeps rendering, a started call or frame goes on, and the
\* watchdog thread is scheduled; nobody has to submit, overwrite or shut down.
Fairness ==
    /\ WF_vars(Frame)
    /\ \A th \in Threads : WF_vars(EnqueueRunsNow(th) \/ EnqueuePushes(th))
    /\ WF_vars(Watchdog)

FairSpec == Spec /\ Fairness

-----------------------------------------------------------------------------
(* Correctness.                                                             *)

\* Index i lies in the part of a ring from tail t up to head h.
Between(t, h, i) == IF t <= h THEN t <= i /\ i < h ELSE t <= i \/ i < h

\* The indices a producer has filled and the drain has not taken.
InWindow(l, i) == Between(tail[l], head[l], i)

ShutDown == boot \in {"cleared", "gone"}

\* Type invariant of the dispatcher's state.
TypeOK ==
    /\ slot \in [Lanes -> [Slots -> Tasks \cup {None}]]
    /\ head \in [Lanes -> Slots] /\ tail \in [Lanes -> Slots]
    /\ frame \in Lanes \cup {"out", "original", "leave"}
    /\ step \in {"look", "call", "body"}
    /\ running \in Slots \cup {None}
    /\ s_onGameThread \in BOOLEAN /\ s_gameThreadId \in {GameTid, None}
    /\ call \in [Threads -> Calls \cup {None}]
    /\ s_initialized \in BOOLEAN /\ s_cs \in {"none", "live", "deleted"}
    /\ hook \in {"none", "patched", "foreign"}
    /\ s_watchdogRunning \in BOOLEAN
    /\ watchdog \in {"none", "test", "slept", "patch", "exited"}
    /\ s_repatchCount \in Nat
    /\ boot \in {"down", "hooked", "failed", "up", "joining", "unhooked", "cleared", "gone"}
    /\ timedOut \in BOOLEAN
    /\ submitted \in SUBSET Tasks
    /\ log \in Seq([task : Tasks, via : Lanes \cup {"direct"}])
    /\ ranThisFrame \in [Lanes -> Nat]

\* Nobody touches the slot that is being invoked in place, from the moment the
\* drain takes it until the task returns, although s_cs is not held in between
\* (GameThread.cpp:78-88): the storage holds the running callable itself.
RunningSlotUntouched ==
    [][running # None /\ running' # None /\ ~ShutDown'
          => slot'[frame][running] = slot[frame][running]]_vars

\* Slots hold a task exactly when it waits in the window or is being run: no
\* hole is ever drained and no finished task is left to run a second time.
SlotsMatchWindow ==
    ~ShutDown => \A l \in Lanes, i \in Slots :
        slot[l][i] # None <=> InWindow(l, i) \/ (frame = l /\ running = i)

\* A hook that Shutdown removed is patched in again only by a watchdog that the
\* 2000 ms wait did not see leave its loop, whose result is ignored, and by it
\* once at most: after the late patch it only leaves (GameThread.cpp:334-352).
HookStaysRemoved ==
    boot \in {"unhooked", "cleared", "gone"} /\ hook # "none" =>
        timedOut /\ watchdog \in {"test", "exited"}

\* The serial-pre and the post ring run at most one task per frame: PacketSend
\* called twice in a frame deadlocks the client (GameThread.cpp:116-118).
OneTaskPerFrame ==
    ranThisFrame["serialPre"] <= 1 /\ ranThisFrame["post"] <= 1

\* A task that waits in a ring eventually runs, even when the client rewrites
\* the hooked entry point, unless Shutdown comes first.
WaitingTaskRuns ==
    \A t \in Tasks :
        (\E l \in Lanes, i \in Slots : slot[l][i] = t) ~>
            ((\E n \in DOMAIN log : log[n].task = t) \/ ~s_watchdogRunning)

-----------------------------------------------------------------------------
(* The lanes implement bounded queues: TaskLanes.tla.                       *)

\* How many tasks wait in a ring whose head is h and whose tail is t, and the
\* index of the k-th oldest of them.
Waiting(h, t) == (h + kMaxQueue - t) % kMaxQueue
Index(t, k) == (t + k - 1) % kMaxQueue

\* The tasks that wait in a ring, oldest first, and the one the drain has taken.
QueueOf(l) == [k \in 1 .. Waiting(head[l], tail[l]) |-> slot[l][Index(tail[l], k)]]
TakenTask ==
    IF step = "call" /\ slot[frame][running] # None
    THEN [lane |-> frame, task |-> slot[frame][running]] ELSE None

Lane == INSTANCE TaskLanes WITH
    Capacity <- kMaxQueue - 1,
    closed   <- ShutDown,
    queue    <- [l \in Lanes |-> QueueOf(l)],
    taken    <- TakenTask

\* Each lane is a bounded FIFO queue: what is accepted is run at most once, in
\* order of acceptance, and what is taken is what is run.
LanesAreQueues == Lane!Spec
=============================================================================
