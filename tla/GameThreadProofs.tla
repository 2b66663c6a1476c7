--------------------------- MODULE GameThreadProofs ---------------------------
(***************************************************************************)
(* Theorems about GameThread.tla, for every kMaxQueue >= 2, every set of   *)
(* tasks and every set of worker threads.                                  *)
(***************************************************************************)
EXTENDS GameThread, TLAPS

\* Where the drain stands: a slot is taken exactly between Take and Finish.
FrameShape ==
    /\ running # None <=> (frame \in Lanes /\ step # "look")
    /\ step = "call" => frame \in Lanes
    /\ frame \in {"out", "leave"} => step = "look"
    /\ frame = "original" => step = "body"

\* The tail has just passed the slot that is taken.
TailPastRunning ==
    ~ShutDown /\ running # None => tail[frame] = Succ(running)

\* The slot that is taken is outside its ring's window.
RunningSlotIsReserved ==
    ~ShutDown /\ running # None =>
        frame \in Lanes /\ tail[frame] = Succ(running) /\ ~InWindow(frame, running)

\* Ring tasks run so far in this frame, by the phase the frame has reached.
FrameCounts ==
    /\ ranThisFrame["serialPre"] <= 1 /\ ranThisFrame["post"] <= 1
    /\ frame = "serialPre" /\ step # "body" => ranThisFrame["serialPre"] = 0
    /\ frame \in {"serialPre", "pre", "original"} \/ (frame = "post" /\ step # "body")
           => ranThisFrame["post"] = 0

-----------------------------------------------------------------------------

\* The successor of a slot index, without the modulus.
LEMMA SuccCases ==
    ASSUME NEW i \in Slots
    PROVE  /\ Succ(i) \in Slots
           /\ i < kMaxQueue - 1 => Succ(i) = i + 1
           /\ i = kMaxQueue - 1 => Succ(i) = 0
BY CapacityAssumption DEF Succ, Slots

\* A slot the tail has just passed is outside the window.
LEMMA PassedSlotOutside ==
    ASSUME NEW i \in Slots, NEW h \in Slots
    PROVE  ~Between(Succ(i), h, i)
<1>1. CASE i = kMaxQueue - 1
  BY <1>1, SuccCases, CapacityAssumption DEF Between, Slots
<1>2. CASE i < kMaxQueue - 1
  BY <1>2, SuccCases, CapacityAssumption DEF Between, Slots
<1> QED BY <1>1, <1>2, CapacityAssumption DEF Slots

\* Advancing the tail of a ring that is not empty removes the oldest index.
LEMMA WindowAfterTake ==
    ASSUME NEW t \in Slots, NEW h \in Slots, NEW i \in Slots, t # h
    PROVE  Between(t, h, i) <=> Between(Succ(t), h, i) \/ i = t
<1>1. CASE t = kMaxQueue - 1
  BY <1>1, SuccCases, CapacityAssumption DEF Between, Slots
<1>2. CASE t < kMaxQueue - 1
  BY <1>2, SuccCases, CapacityAssumption DEF Between, Slots
<1> QED BY <1>1, <1>2, CapacityAssumption DEF Slots

\* Advancing the head of a ring that is not full adds the head's index.
LEMMA WindowAfterPush ==
    ASSUME NEW t \in Slots, NEW h \in Slots, NEW i \in Slots, Succ(h) # t
    PROVE  Between(t, Succ(h), i) <=> Between(t, h, i) \/ i = h
<1>1. CASE h = kMaxQueue - 1
  BY <1>1, SuccCases, CapacityAssumption DEF Between, Slots
<1>2. CASE h < kMaxQueue - 1
  BY <1>2, SuccCases, CapacityAssumption DEF Between, Slots
<1> QED BY <1>1, <1>2, CapacityAssumption DEF Slots

-----------------------------------------------------------------------------

\* The types need the shape of the frame, which says when the index of a taken
\* slot is defined.
LEMMA TypeAndShape == Spec => [](TypeOK /\ FrameShape)
<1>1. Init => TypeOK /\ FrameShape
  <2> SUFFICES ASSUME Init PROVE TypeOK /\ FrameShape OBVIOUS
  <2>1. 0 \in Slots BY CapacityAssumption DEF Slots
  <2>2. slot \in [Lanes -> [Slots -> Tasks \cup {None}]] BY DEF Init
  <2>3. call \in [Threads -> Calls \cup {None}] BY DEF Init
  <2>4. ranThisFrame \in [Lanes -> Nat] BY DEF Init
  <2>5. log \in Seq([task : Tasks, via : Lanes \cup {"direct"}]) BY DEF Init
  <2>6. FrameShape BY DEF Init, FrameShape, Lanes
  <2> QED BY <2>1, <2>2, <2>3, <2>4, <2>5, <2>6 DEF Init, TypeOK
<1>2. TypeOK /\ FrameShape /\ [Next]_vars => (TypeOK /\ FrameShape)'
  <2> SUFFICES ASSUME TypeOK, FrameShape, [Next]_vars
               PROVE  (TypeOK /\ FrameShape)'
      OBVIOUS
  <2> USE NamesAssumption
  <2>1. CASE DetourEnter
    BY <2>1 DEF DetourEnter, TypeOK, FrameShape, Lanes, ringVars, lifeVars, history
  <2>2. ASSUME NEW l \in Lanes, LaneEmpty(l) PROVE (TypeOK /\ FrameShape)'
    BY <2>2 DEF LaneEmpty, AfterLane, TypeOK, FrameShape, Lanes, ringVars, lifeVars, history
  <2>3. ASSUME NEW l \in Lanes, Take(l) PROVE (TypeOK /\ FrameShape)'
    <3>1. tail[l] \in Slots /\ Succ(tail[l]) \in Slots
      BY SuccCases DEF TypeOK
    <3>2. tail[l] # None BY <3>1, CapacityAssumption DEF Slots
    <3> QED BY <2>3, <3>1, <3>2 DEF Take, TypeOK, FrameShape, Lanes, lifeVars, history
  <2>4. ASSUME NEW l \in Lanes, Invoke(l) PROVE (TypeOK /\ FrameShape)'
    <3>1. running \in Slots BY <2>4 DEF Invoke, TypeOK, FrameShape
    <3>2. FrameShape' /\ UNCHANGED <<ringVars, call, lifeVars, submitted>>
      BY <2>4 DEF Invoke, FrameShape, ringVars, lifeVars, Lanes
    <3>3. log' \in Seq([task : Tasks, via : Lanes \cup {"direct"}])
      <4>1. slot[l][running] \in Tasks \cup {None} BY <3>1 DEF TypeOK
      <4>2. CASE slot[l][running] = None
        BY <2>4, <4>2 DEF Invoke, TypeOK
      <4>3. CASE slot[l][running] # None
        <5>1. [task |-> slot[l][running], via |-> l] \in [task : Tasks, via : Lanes \cup {"direct"}]
          BY <4>1, <4>3
        <5>2. log' = Append(log, [task |-> slot[l][running], via |-> l])
          BY <2>4, <4>3 DEF Invoke, Ran
        <5>3. log \in Seq([task : Tasks, via : Lanes \cup {"direct"}]) BY DEF TypeOK
        <5> QED BY <5>1, <5>2, <5>3
      <4> QED BY <4>2, <4>3
    <3>4. ranThisFrame' \in [Lanes -> Nat]
      <4>1. ranThisFrame \in [Lanes -> Nat] BY DEF TypeOK
      <4>2. ranThisFrame' \in {ranThisFrame, [ranThisFrame EXCEPT ![l] = @ + 1]}
        BY <2>4 DEF Invoke
      <4> QED BY <4>1, <4>2
    <3> QED BY <2>4, <3>2, <3>3, <3>4 DEF Invoke, TypeOK, ringVars, lifeVars
  <2>5. ASSUME NEW l \in Lanes, Finish(l) PROVE (TypeOK /\ FrameShape)'
    <3>1. running \in Slots BY <2>5 DEF Finish, TypeOK, FrameShape
    <3>2. slot' \in [Lanes -> [Slots -> Tasks \cup {None}]]
      BY <2>5, <3>1 DEF Finish, InvokerCleared, TypeOK
    <3> QED BY <2>5, <3>2 DEF Finish, AfterTask, AfterLane, TypeOK, FrameShape, Lanes, lifeVars, history
  <2>6. CASE OriginalReturns
    BY <2>6 DEF OriginalReturns, TypeOK, FrameShape, Lanes, ringVars, lifeVars, history
  <2>7. CASE DetourLeave
    BY <2>7 DEF DetourLeave, TypeOK, FrameShape, Lanes, ringVars, lifeVars, history
  <2>8. ASSUME NEW th \in Threads, Submit(th) PROVE (TypeOK /\ FrameShape)'
    <3>1. ASSUME NEW api \in Apis, NEW t \in Tasks, EnqueueEnters(th, api, t)
          PROVE  (TypeOK /\ FrameShape)'
      BY <3>1 DEF EnqueueEnters, Calls, TypeOK, FrameShape, ringVars, frameVars, lifeVars
    <3>2. ASSUME NEW api \in Apis, NEW t \in Tasks, EnqueueRefuses(th, api, t)
          PROVE  (TypeOK /\ FrameShape)'
      BY <3>2 DEF EnqueueRefuses, TypeOK, FrameShape, ringVars, frameVars, lifeVars
    <3>3. CASE EnqueueRunsNow(th)
      <4>1. call[th].task \in Tasks
        BY <3>3 DEF EnqueueRunsNow, TypeOK, Calls
      <4>2. log' \in Seq([task : Tasks, via : Lanes \cup {"direct"}])
        BY <3>3, <4>1 DEF EnqueueRunsNow, Ran, TypeOK
      <4> QED BY <3>3, <4>2 DEF EnqueueRunsNow, TypeOK, FrameShape, ringVars, frameVars, lifeVars
    <3>4. CASE EnqueuePushes(th)
      <4> DEFINE l == LaneOf(call[th].api)
      <4>1. call[th] \in Calls BY <3>4 DEF EnqueuePushes, TypeOK
      <4>2. l \in Lanes /\ call[th].task \in Tasks
        BY <4>1 DEF Calls, LaneOf, Apis, Lanes
      <4>3. head[l] \in Slots /\ Succ(head[l]) \in Slots
        BY <4>2, SuccCases DEF TypeOK
      <4> HIDE DEF l
      <4>4. slot' \in [Lanes -> [Slots -> Tasks \cup {None}]] /\ head' \in [Lanes -> Slots]
            /\ tail' \in [Lanes -> Slots]
        <5>1. CASE Succ(head[l]) = tail[l]
          BY <3>4, <4>2, <5>1 DEF l, EnqueuePushes, Full, TypeOK, ringVars
        <5>2. CASE Succ(head[l]) # tail[l]
          <6>1. /\ slot' = [slot EXCEPT ![l][head[l]] = call[th].task]
                /\ head' = [head EXCEPT ![l] = Succ(head[l])]
                /\ UNCHANGED tail
            BY <3>4, <5>2 DEF l, EnqueuePushes, Full
          <6> QED BY <4>2, <4>3, <6>1 DEF TypeOK
        <5> QED BY <5>1, <5>2
      <4>5. call' \in [Threads -> Calls \cup {None}]
        BY <3>4 DEF EnqueuePushes, TypeOK
      <4> QED BY <3>4, <4>4, <4>5 DEF EnqueuePushes, TypeOK, FrameShape, frameVars, lifeVars
    <3>5. CalledApis \subseteq Apis BY CallsAssumption DEF Apis
    <3> QED BY <2>8, <3>1, <3>2, <3>3, <3>4, <3>5 DEF Submit
  <2>9. CASE InitializeHooks \/ InitializeFails \/ InitializeDone \/ GameOverwritesHook
    <3> SUFFICES TypeOK' /\ UNCHANGED frameVars
      BY DEF FrameShape, frameVars
    <3>1. CASE InitializeHooks
      BY <3>1 DEF InitializeHooks, TypeOK, ringVars, frameVars, history
    <3>2. CASE InitializeFails
      BY <3>2 DEF InitializeFails, TypeOK, ringVars, frameVars, history
    <3>3. CASE InitializeDone
      BY <3>3 DEF InitializeDone, TypeOK, ringVars, frameVars, history
    <3>4. CASE GameOverwritesHook
      BY <3>4 DEF GameOverwritesHook, TypeOK, ringVars, frameVars, history
    <3> QED BY <2>9, <3>1, <3>2, <3>3, <3>4
  <2>10. CASE Watchdog
    BY <2>10 DEF Watchdog, WatchdogTests, WatchdogCompares, WatchdogPatches,
                 TypeOK, FrameShape, ringVars, frameVars, history
  <2>11. CASE ShutdownStopsWatchdog \/ ShutdownUnhooks \/ ShutdownDeletes
    <3> SUFFICES TypeOK' /\ UNCHANGED frameVars
      BY DEF FrameShape, frameVars
    <3>1. CASE ShutdownStopsWatchdog
      <4>1. boot' = "joining" /\ s_watchdogRunning' \in BOOLEAN
        BY <3>1 DEF ShutdownStopsWatchdog
      <4>2. UNCHANGED <<ringVars, frameVars, call, s_initialized, s_cs, hook, watchdog,
                        s_repatchCount, timedOut, history>>
        BY <3>1 DEF ShutdownStopsWatchdog
      <4> QED BY <4>1, <4>2 DEF TypeOK, ringVars, frameVars, history
    <3>2. CASE ShutdownUnhooks
      BY <3>2 DEF ShutdownUnhooks, TypeOK, ringVars, frameVars, history
    <3>3. CASE ShutdownDeletes
      BY <3>3 DEF ShutdownDeletes, TypeOK, ringVars, frameVars, history
    <3> QED BY <2>11, <3>1, <3>2, <3>3
  <2>12. CASE ShutdownClears
    <3>1. 0 \in Slots BY CapacityAssumption DEF Slots
    <3> QED BY <2>12, <3>1 DEF ShutdownClears, TypeOK, FrameShape
  <2>13. CASE UNCHANGED vars
    BY <2>13 DEF vars, TypeOK, FrameShape, ringVars, frameVars, lifeVars, history
  <2> QED
    BY <2>1, <2>2, <2>3, <2>4, <2>5, <2>6, <2>7, <2>8, <2>9, <2>10, <2>11, <2>12, <2>13
       DEF Next, Frame, Drain, Shutdown
<1> QED BY <1>1, <1>2, PTL DEF Spec

\* Type correctness of the dispatcher's state.
THEOREM TypeCorrect == Spec => []TypeOK
BY TypeAndShape, PTL

-----------------------------------------------------------------------------

\* The taken slot is the one the ring never fills: a producer whose head has
\* reached it finds the ring full.
LEMMA RunningSlotReserved == Spec => []RunningSlotIsReserved
<1>1. Init => TailPastRunning
  BY DEF Init, TailPastRunning
<1>2. TypeOK /\ FrameShape /\ TailPastRunning /\ [Next]_vars => TailPastRunning'
  <2> SUFFICES ASSUME TypeOK, FrameShape, TailPastRunning, [Next]_vars
               PROVE  TailPastRunning'
      OBVIOUS
  <2>1. CASE DetourEnter \/ OriginalReturns \/ DetourLeave
    BY <2>1 DEF DetourEnter, OriginalReturns, DetourLeave, TailPastRunning, FrameShape,
                ShutDown, Lanes, lifeVars, ringVars
  <2>2. ASSUME NEW l \in Lanes, LaneEmpty(l) PROVE TailPastRunning'
    BY <2>2 DEF LaneEmpty, TailPastRunning, FrameShape
  <2>3. ASSUME NEW l \in Lanes, Take(l) PROVE TailPastRunning'
    BY <2>3 DEF Take, TailPastRunning, TypeOK
  <2>4. ASSUME NEW l \in Lanes, Invoke(l) PROVE TailPastRunning'
    BY <2>4 DEF Invoke, TailPastRunning, ShutDown, ringVars, lifeVars
  <2>5. ASSUME NEW l \in Lanes, Finish(l) PROVE TailPastRunning'
    BY <2>5 DEF Finish, TailPastRunning
  <2>6. ASSUME NEW th \in Threads, Submit(th) PROVE TailPastRunning'
    <3> SUFFICES UNCHANGED <<tail, frame, running, boot>>
        BY DEF TailPastRunning, ShutDown
    <3> QED BY <2>6 DEF Submit, EnqueueEnters, EnqueueRefuses, EnqueueRunsNow, EnqueuePushes,
                        ringVars, frameVars, lifeVars
  <2>7. CASE InitializeHooks \/ InitializeFails \/ InitializeDone \/ GameOverwritesHook \/ Watchdog
    <3> SUFFICES UNCHANGED <<tail, frame, running>> /\ (ShutDown => ShutDown')
        BY DEF TailPastRunning
    <3> QED BY <2>7 DEF InitializeHooks, InitializeFails, InitializeDone, GameOverwritesHook,
                        Watchdog, WatchdogTests, WatchdogCompares, WatchdogPatches, ShutDown, ringVars, frameVars
  <2>8. CASE Shutdown
    <3>1. CASE ShutdownClears
      BY <3>1 DEF ShutdownClears, TailPastRunning, ShutDown
    <3>2. CASE ShutdownStopsWatchdog \/ ShutdownUnhooks \/ ShutdownDeletes
      BY <3>2 DEF ShutdownStopsWatchdog, ShutdownUnhooks, ShutdownDeletes, TailPastRunning,
                  ShutDown, ringVars, frameVars
    <3> QED BY <2>8, <3>1, <3>2 DEF Shutdown
  <2>9. CASE UNCHANGED vars
    BY <2>9 DEF vars, TailPastRunning, ShutDown, ringVars, frameVars, lifeVars
  <2> QED BY <2>1, <2>2, <2>3, <2>4, <2>5, <2>6, <2>7, <2>8, <2>9 DEF Next, Frame, Drain
<1>3. TypeOK /\ FrameShape /\ TailPastRunning => RunningSlotIsReserved
  <2> SUFFICES ASSUME TypeOK, FrameShape, TailPastRunning, running # None, ~ShutDown
               PROVE  frame \in Lanes /\ tail[frame] = Succ(running) /\ ~InWindow(frame, running)
      BY DEF RunningSlotIsReserved
  <2>1. frame \in Lanes /\ running \in Slots /\ head[frame] \in Slots
    BY DEF FrameShape, TypeOK
  <2>2. tail[frame] = Succ(running) BY DEF TailPastRunning
  <2> QED BY <2>1, <2>2, PassedSlotOutside DEF InWindow
<1> QED BY <1>1, <1>2, <1>3, TypeAndShape, PTL DEF Spec

-----------------------------------------------------------------------------

\* A slot stays untouched from the moment the drain takes it until its task has
\* returned, although s_cs is not held in between.
THEOREM RunningSlotSafe == Spec => RunningSlotUntouched
<1>1. TypeOK /\ FrameShape /\ RunningSlotIsReserved /\ [Next]_vars
        => [running # None /\ running' # None /\ ~ShutDown'
              => slot'[frame][running] = slot[frame][running]]_vars
  <2> SUFFICES ASSUME TypeOK, FrameShape, RunningSlotIsReserved, Next,
                      running # None, running' # None, ~ShutDown'
               PROVE  slot'[frame][running] = slot[frame][running]
      BY DEF vars
  <2>1. CASE UNCHANGED slot
    BY <2>1
  <2>2. ASSUME NEW l \in Lanes, Finish(l) PROVE FALSE
    BY <2>2 DEF Finish
  <2>3. CASE ShutdownClears
    BY <2>3 DEF ShutdownClears, ShutDown
  <2>4. ASSUME NEW th \in Threads, EnqueuePushes(th)
        PROVE  slot'[frame][running] = slot[frame][running]
    <3> DEFINE l == LaneOf(call[th].api)
    <3>1. call[th] \in Calls BY <2>4 DEF EnqueuePushes, TypeOK
    <3>2. l \in Lanes BY <3>1 DEF Calls, LaneOf, Apis, Lanes
    <3> HIDE DEF l
    <3>3. head[l] \in Slots /\ running \in Slots BY <3>2 DEF TypeOK
    <3>4. ~ShutDown BY <2>4 DEF EnqueuePushes, ShutDown, lifeVars
    <3>5. CASE Full(l)
      BY <2>4, <3>5 DEF l, EnqueuePushes, ringVars
    <3>6. CASE ~Full(l)
      <4>1. slot' = [slot EXCEPT ![l][head[l]] = call[th].task]
        BY <2>4, <3>6 DEF l, EnqueuePushes
      <4>2. ~(frame = l /\ running = head[l])
        BY <3>4, <3>6 DEF RunningSlotIsReserved, Full
      <4>3. frame \in Lanes BY <3>4 DEF RunningSlotIsReserved
      <4> QED BY <3>2, <3>3, <4>1, <4>2, <4>3 DEF TypeOK
    <3> QED BY <3>5, <3>6
  <2>5. ASSUME NEW l \in Lanes, LaneEmpty(l) \/ Take(l) \/ Invoke(l) PROVE UNCHANGED slot
    BY <2>5 DEF LaneEmpty, Take, Invoke, ringVars
  <2>6. ASSUME NEW th \in Threads, Submit(th), ~EnqueuePushes(th) PROVE UNCHANGED slot
    BY <2>6 DEF Submit, EnqueueEnters, EnqueueRefuses, EnqueueRunsNow, ringVars
  <2>7. CASE DetourEnter \/ OriginalReturns \/ DetourLeave
    <3>1. UNCHANGED slot
      BY <2>7 DEF DetourEnter, OriginalReturns, DetourLeave, ringVars
    <3> QED BY <3>1
  <2>8. CASE InitializeHooks \/ InitializeFails \/ InitializeDone \/ GameOverwritesHook
             \/ Watchdog \/ ShutdownStopsWatchdog \/ ShutdownUnhooks \/ ShutdownDeletes
    <3>1. UNCHANGED slot
      BY <2>8 DEF InitializeHooks, InitializeFails, InitializeDone, GameOverwritesHook,
                  Watchdog, WatchdogTests, WatchdogCompares, WatchdogPatches, ShutdownStopsWatchdog,
                  ShutdownUnhooks, ShutdownDeletes, ringVars
    <3> QED BY <3>1
  <2> QED BY <2>1, <2>2, <2>3, <2>4, <2>5, <2>6, <2>7, <2>8 DEF Next, Frame, Drain, Shutdown
<1> QED BY <1>1, TypeAndShape, RunningSlotReserved, PTL DEF Spec, RunningSlotUntouched

-----------------------------------------------------------------------------

\* The serial-pre and post rings run at most one task per frame, whoever
\* submits and however often the frame's tasks submit more.
THEOREM OnePerFrame == Spec => []OneTaskPerFrame
<1>1. Init => FrameCounts
  BY DEF Init, FrameCounts, Lanes
<1>2. TypeOK /\ FrameShape /\ FrameCounts /\ [Next]_vars => FrameCounts'
  <2> SUFFICES ASSUME TypeOK, FrameShape, FrameCounts, [Next]_vars
               PROVE  FrameCounts'
      OBVIOUS
  <2>1. CASE DetourEnter
    BY <2>1 DEF DetourEnter, FrameCounts, Lanes
  <2>2. ASSUME NEW l \in Lanes, LaneEmpty(l) PROVE FrameCounts'
    BY <2>2 DEF LaneEmpty, AfterLane, FrameCounts, Lanes
  <2>3. ASSUME NEW l \in Lanes, Take(l) PROVE FrameCounts'
    BY <2>3 DEF Take, FrameCounts, Lanes
  <2>4. ASSUME NEW l \in Lanes, Invoke(l) PROVE FrameCounts'
    <3>1. CASE ranThisFrame' = ranThisFrame
      BY <2>4, <3>1 DEF Invoke, FrameCounts, Lanes
    <3>2. CASE ranThisFrame' = [ranThisFrame EXCEPT ![l] = @ + 1]
      BY <2>4, <3>2 DEF Invoke, FrameCounts, Lanes, TypeOK
    <3> QED BY <2>4, <3>1, <3>2 DEF Invoke
  <2>5. ASSUME NEW l \in Lanes, Finish(l) PROVE FrameCounts'
    BY <2>5 DEF Finish, AfterTask, AfterLane, FrameCounts, Lanes
  <2>6. CASE OriginalReturns
    BY <2>6 DEF OriginalReturns, FrameCounts, Lanes
  <2>7. CASE DetourLeave
    BY <2>7 DEF DetourLeave, FrameCounts
  <2>8. ASSUME NEW th \in Threads, Submit(th) PROVE FrameCounts'
    <3> SUFFICES UNCHANGED frameVars BY DEF FrameCounts, frameVars
    <3> QED BY <2>8 DEF Submit, EnqueueEnters, EnqueueRefuses, EnqueueRunsNow, EnqueuePushes
  <2>9. CASE InitializeHooks \/ InitializeFails \/ InitializeDone \/ GameOverwritesHook
             \/ Watchdog \/ Shutdown \/ UNCHANGED vars
    <3> SUFFICES UNCHANGED <<frame, step, ranThisFrame>> BY DEF FrameCounts
    <3> QED BY <2>9 DEF InitializeHooks, InitializeFails, InitializeDone, GameOverwritesHook,
                        Watchdog, WatchdogTests, WatchdogCompares, WatchdogPatches, Shutdown, ShutdownStopsWatchdog,
                        ShutdownUnhooks, ShutdownClears, ShutdownDeletes, vars, frameVars
  <2> QED BY <2>1, <2>2, <2>3, <2>4, <2>5, <2>6, <2>7, <2>8, <2>9 DEF Next, Frame, Drain
<1>3. FrameCounts => OneTaskPerFrame
  BY DEF FrameCounts, OneTaskPerFrame
<1> QED BY <1>1, <1>2, <1>3, TypeAndShape, PTL DEF Spec

-----------------------------------------------------------------------------

\* Every index a drain can take holds a task, and a slot that holds a task
\* waits in its window or is the one being run.
THEOREM SlotsMatch == Spec => []SlotsMatchWindow
<1>1. Init => SlotsMatchWindow
  BY CapacityAssumption DEF Init, SlotsMatchWindow, InWindow, Between, Slots, Lanes
<1>2. TypeOK /\ FrameShape /\ RunningSlotIsReserved /\ SlotsMatchWindow /\ [Next]_vars
        => SlotsMatchWindow'
  <2> SUFFICES ASSUME TypeOK, FrameShape, RunningSlotIsReserved, SlotsMatchWindow, [Next]_vars,
                      ~ShutDown', NEW m \in Lanes, NEW i \in Slots
               PROVE  slot'[m][i] # None <=> InWindow(m, i)' \/ (frame' = m /\ running' = i)
      BY DEF SlotsMatchWindow
  <2> USE NamesAssumption DEF SlotsMatchWindow
  <2>1. CASE DetourEnter \/ OriginalReturns \/ DetourLeave
    <3>1. running = None /\ UNCHANGED <<running, ringVars, boot>>
      BY <2>1 DEF DetourEnter, OriginalReturns, DetourLeave, FrameShape, Lanes, ringVars, lifeVars
    <3>2. running # i BY <3>1, CapacityAssumption DEF Slots
    <3> QED BY <3>1, <3>2 DEF InWindow, ShutDown, ringVars
  <2>2. ASSUME NEW l \in Lanes, LaneEmpty(l)
        PROVE  slot'[m][i] # None <=> InWindow(m, i)' \/ (frame' = m /\ running' = i)
    BY <2>2, CapacityAssumption DEF LaneEmpty, FrameShape, InWindow, ShutDown, ringVars, lifeVars, Slots
  <2>3. ASSUME NEW l \in Lanes, Take(l)
        PROVE  slot'[m][i] # None <=> InWindow(m, i)' \/ (frame' = m /\ running' = i)
    <3>1. tail[l] \in Slots /\ head[l] \in Slots /\ running = None BY <2>3 DEF Take, TypeOK, FrameShape
    <3>2. slot[m][i] # None <=> InWindow(m, i)
      BY <2>3, <3>1, CapacityAssumption DEF Take, ShutDown, lifeVars, Slots
    <3>3. CASE m = l
      <4>1. InWindow(m, i) <=> InWindow(m, i)' \/ i = tail[l]
        BY <2>3, <3>1, <3>3, WindowAfterTake DEF Take, InWindow, TypeOK
      <4> QED BY <2>3, <3>2, <3>3, <4>1 DEF Take
    <3>4. CASE m # l
      BY <2>3, <3>2, <3>4 DEF Take, InWindow, TypeOK
    <3> QED BY <3>3, <3>4
  <2>4. ASSUME NEW l \in Lanes, Invoke(l)
        PROVE  slot'[m][i] # None <=> InWindow(m, i)' \/ (frame' = m /\ running' = i)
    BY <2>4 DEF Invoke, InWindow, ShutDown, ringVars, lifeVars
  <2>5. ASSUME NEW l \in Lanes, Finish(l)
        PROVE  slot'[m][i] # None <=> InWindow(m, i)' \/ (frame' = m /\ running' = i)
    <3>1. running \in Slots /\ frame = l BY <2>5 DEF Finish, FrameShape, TypeOK
    <3>2. ~ShutDown /\ running' = None /\ InWindow(m, i)' = InWindow(m, i)
      BY <2>5 DEF Finish, ShutDown, lifeVars, InWindow
    <3>3. running' # i BY <3>2, CapacityAssumption DEF Slots
    <3>4. CASE m = l /\ i = running
      <4>1. slot'[m][i] = None BY <2>5, <3>4 DEF Finish, InvokerCleared, TypeOK
      <4>2. ~InWindow(l, running)
        BY <3>1, <3>2, CapacityAssumption DEF RunningSlotIsReserved, Slots
      <4> QED BY <3>2, <3>3, <3>4, <4>1, <4>2
    <3>5. CASE ~(m = l /\ i = running)
      <4>1. slot'[m][i] = slot[m][i] BY <2>5, <3>5 DEF Finish, InvokerCleared, TypeOK
      <4> QED BY <3>1, <3>2, <3>3, <3>5, <4>1
    <3> QED BY <3>4, <3>5
  <2>6. ASSUME NEW th \in Threads, EnqueuePushes(th)
        PROVE  slot'[m][i] # None <=> InWindow(m, i)' \/ (frame' = m /\ running' = i)
    <3> DEFINE l == LaneOf(call[th].api)
    <3>1. call[th] \in Calls BY <2>6 DEF EnqueuePushes, TypeOK
    <3>2. l \in Lanes /\ call[th].task # None
      BY <3>1 DEF Calls, LaneOf, Apis, Lanes
    <3> HIDE DEF l
    <3>3. head[l] \in Slots /\ tail[l] \in Slots /\ ~ShutDown
          /\ UNCHANGED <<tail, frame, running>>
      BY <2>6, <3>2 DEF l, EnqueuePushes, TypeOK, ShutDown, frameVars, lifeVars, ringVars
    <3>4. CASE Succ(head[l]) = tail[l]
      BY <2>6, <3>3, <3>4 DEF l, EnqueuePushes, Full, InWindow, ringVars
    <3>5. CASE Succ(head[l]) # tail[l]
      <4>1. /\ slot' = [slot EXCEPT ![l][head[l]] = call[th].task]
            /\ head' = [head EXCEPT ![l] = Succ(head[l])]
        BY <2>6, <3>5 DEF l, EnqueuePushes, Full
      <4>2. ~(frame = l /\ running = head[l])
        BY <3>3, <3>5, CapacityAssumption DEF RunningSlotIsReserved, Slots
      <4>3. CASE m = l /\ i = head[l]
        <5>1. slot'[m][i] # None BY <3>2, <3>3, <4>1, <4>3 DEF TypeOK
        <5>2. InWindow(m, i)'
          BY <3>2, <3>3, <3>5, <4>1, <4>3, WindowAfterPush DEF InWindow, TypeOK
        <5> QED BY <5>1, <5>2
      <4>4. CASE m = l /\ i # head[l]
        <5>1. slot'[m][i] = slot[m][i] BY <3>2, <4>1, <4>4 DEF TypeOK
        <5>2. InWindow(m, i)' <=> InWindow(m, i)
          BY <3>2, <3>3, <3>5, <4>1, <4>4, WindowAfterPush DEF InWindow, TypeOK
        <5> QED BY <3>3, <5>1, <5>2
      <4>5. CASE m # l
        BY <3>2, <3>3, <4>1, <4>5 DEF InWindow, TypeOK
      <4> QED BY <4>3, <4>4, <4>5
    <3> QED BY <3>4, <3>5
  <2>7. ASSUME NEW th \in Threads, Submit(th), ~EnqueuePushes(th)
        PROVE  slot'[m][i] # None <=> InWindow(m, i)' \/ (frame' = m /\ running' = i)
    <3> SUFFICES UNCHANGED <<ringVars, frameVars, boot>>
        BY DEF InWindow, ShutDown, ringVars, frameVars
    <3> QED BY <2>7 DEF Submit, EnqueueEnters, EnqueueRefuses, EnqueueRunsNow, lifeVars
  <2>8. CASE InitializeHooks \/ InitializeFails \/ InitializeDone \/ GameOverwritesHook
             \/ Watchdog \/ Shutdown \/ UNCHANGED vars
    <3> SUFFICES UNCHANGED <<ringVars, frameVars>> /\ ~ShutDown
        BY DEF InWindow, ringVars, frameVars
    <3> QED BY <2>8 DEF InitializeHooks, InitializeFails, InitializeDone, GameOverwritesHook,
                        Watchdog, WatchdogTests, WatchdogCompares, WatchdogPatches, Shutdown, ShutdownStopsWatchdog,
                        ShutdownUnhooks, ShutdownClears, ShutdownDeletes, vars, lifeVars, ShutDown
  <2> QED BY <2>1, <2>2, <2>3, <2>4, <2>5, <2>6, <2>7, <2>8 DEF Next, Frame, Drain
<1> QED BY <1>1, <1>2, TypeAndShape, RunningSlotReserved, PTL DEF Spec

-----------------------------------------------------------------------------

\* What is left of the watchdog once Shutdown has removed the hook.  It is told
\* to stop, so it can only leave its loop; after a wait that ended well it has
\* left; and a hook that is back was patched by the last cycle it will make.
WatchdogGone ==
    /\ boot \in {"joining", "unhooked", "cleared", "gone"} => ~s_watchdogRunning
    /\ boot \in {"unhooked", "cleared", "gone"} =>
           /\ ~timedOut => hook = "none" /\ watchdog = "exited"
           /\ hook # "none" => watchdog \in {"test", "exited"}

\* A hook that Shutdown removed comes back only if the 2000 ms wait for the
\* watchdog ran into its timeout, and is then patched at most once, wherever
\* between its compare and its patch the watchdog was (GameThread.cpp:334-352).
THEOREM HookRemoved == Spec => []HookStaysRemoved
<1>1. Init => WatchdogGone
  BY DEF Init, WatchdogGone
<1>2. WatchdogGone /\ [Next]_vars => WatchdogGone'
  <2> SUFFICES ASSUME WatchdogGone, [Next]_vars PROVE WatchdogGone'
      OBVIOUS
  <2> USE DEF WatchdogGone
  <2>1. CASE Frame
    <3>1. UNCHANGED lifeVars
      BY <2>1 DEF Frame, Drain, DetourEnter, LaneEmpty, Take, Invoke, Finish, OriginalReturns, DetourLeave
    <3> QED BY <3>1 DEF lifeVars
  <2>2. ASSUME NEW th \in Threads, Submit(th) PROVE WatchdogGone'
    <3>1. UNCHANGED lifeVars
      BY <2>2 DEF Submit, EnqueueEnters, EnqueueRefuses, EnqueueRunsNow, EnqueuePushes
    <3> QED BY <3>1 DEF lifeVars
  <2>3. CASE InitializeHooks \/ InitializeFails \/ InitializeDone \/ GameOverwritesHook
    BY <2>3 DEF InitializeHooks, InitializeFails, InitializeDone, GameOverwritesHook
  <2>4. CASE Watchdog
    <3>1. CASE WatchdogTests
      BY <3>1 DEF WatchdogTests
    <3>2. CASE WatchdogCompares
      BY <3>2 DEF WatchdogCompares
    <3>3. CASE WatchdogPatches
      BY <3>3 DEF WatchdogPatches
    <3> QED BY <2>4, <3>1, <3>2, <3>3 DEF Watchdog
  <2>5. CASE ShutdownStopsWatchdog \/ ShutdownClears \/ ShutdownDeletes
    BY <2>5 DEF ShutdownStopsWatchdog, ShutdownClears, ShutdownDeletes
  <2>6. CASE ShutdownUnhooks
    BY <2>6 DEF ShutdownUnhooks, WatchdogJoined
  <2>7. CASE UNCHANGED vars
    BY <2>7 DEF vars, lifeVars
  <2> QED BY <2>1, <2>2, <2>3, <2>4, <2>5, <2>6, <2>7 DEF Next, Shutdown
<1>3. WatchdogGone => HookStaysRemoved
  BY DEF WatchdogGone, HookStaysRemoved
<1> QED BY <1>1, <1>2, <1>3, PTL DEF Spec

-----------------------------------------------------------------------------
(* The lanes implement bounded queues.                                      *)

\* The number of waiting tasks and their indices, without the modulus.
LEMMA WaitingCases ==
    ASSUME NEW h \in Slots, NEW t \in Slots
    PROVE  /\ t <= h => Waiting(h, t) = h - t
           /\ h < t => Waiting(h, t) = h - t + kMaxQueue
           /\ Waiting(h, t) = IF t <= h THEN h - t ELSE h - t + kMaxQueue
           /\ Waiting(h, t) \in 0 .. kMaxQueue - 1
           /\ Waiting(h, t) = 0 <=> h = t
<1>1. t <= h => Waiting(h, t) = h - t
  BY CapacityAssumption DEF Waiting, Slots
<1>2. h < t => Waiting(h, t) = h - t + kMaxQueue
  BY CapacityAssumption DEF Waiting, Slots
<1> QED BY <1>1, <1>2, CapacityAssumption DEF Slots

\* The index of the k-th oldest task, without the modulus.
LEMMA IndexCases ==
    ASSUME NEW t \in Slots, NEW k \in 1 .. kMaxQueue
    PROVE  /\ t + k - 1 < kMaxQueue => Index(t, k) = t + k - 1
           /\ kMaxQueue <= t + k - 1 => Index(t, k) = t + k - 1 - kMaxQueue
           /\ Index(t, k) \in Slots
<1>1. t + k - 1 < kMaxQueue => Index(t, k) = t + k - 1
  BY CapacityAssumption DEF Index, Slots
<1>2. kMaxQueue <= t + k - 1 => Index(t, k) = t + k - 1 - kMaxQueue
  BY CapacityAssumption DEF Index, Slots
<1> QED BY <1>1, <1>2, CapacityAssumption DEF Slots

\* The indices of the waiting tasks are the window's.
LEMMA IndexInWindow ==
    ASSUME NEW h \in Slots, NEW t \in Slots, NEW k \in 1 .. Waiting(h, t)
    PROVE  Index(t, k) \in Slots /\ Between(t, h, Index(t, k))
<1>1. k \in 1 .. kMaxQueue BY WaitingCases, CapacityAssumption
<1>2. Index(t, k) \in Slots BY <1>1, IndexCases
<1>3. /\ t + k - 1 < kMaxQueue => Index(t, k) = t + k - 1
      /\ kMaxQueue <= t + k - 1 => Index(t, k) = t + k - 1 - kMaxQueue
  BY <1>1, IndexCases
<1>4. CASE t <= h
  <2>1. k \in 1 .. h - t BY <1>4, WaitingCases
  <2> QED BY <1>3, <1>4, <2>1, CapacityAssumption DEF Between, Slots
<1>5. CASE h < t
  <2>1. k \in 1 .. h - t + kMaxQueue BY <1>5, WaitingCases
  <2> QED BY <1>3, <1>5, <2>1, CapacityAssumption DEF Between, Slots
<1> QED BY <1>2, <1>4, <1>5, CapacityAssumption DEF Slots

\* A push makes the ring one task longer, and its index is the head's.
LEMMA WaitingAfterPush ==
    ASSUME NEW h \in Slots, NEW t \in Slots, Succ(h) # t
    PROVE  /\ Waiting(Succ(h), t) = Waiting(h, t) + 1
           /\ Waiting(h, t) < kMaxQueue - 1
           /\ Index(t, Waiting(h, t) + 1) = h
<1> DEFINE n == Waiting(h, t)
<1>0. Succ(h) \in Slots BY SuccCases
<1>1. Waiting(Succ(h), t) = n + 1 /\ n < kMaxQueue - 1
  <2>4. n = IF t <= h THEN h - t ELSE h - t + kMaxQueue
    BY WaitingCases
  <2>5. Waiting(Succ(h), t) = IF t <= Succ(h) THEN Succ(h) - t ELSE Succ(h) - t + kMaxQueue
    BY <1>0, WaitingCases
  <2>1. CASE h = kMaxQueue - 1
    <3>1. Succ(h) = 0 BY <2>1, SuccCases
    <3> HIDE DEF n
    <3> QED BY <2>1, <2>4, <2>5, <3>1, CapacityAssumption DEF Slots
  <2>2. CASE h < kMaxQueue - 1
    <3>1. Succ(h) = h + 1 BY <2>2, SuccCases
    <3> HIDE DEF n
    <3> QED BY <2>2, <2>4, <2>5, <3>1, CapacityAssumption DEF Slots
  <2> QED BY <2>1, <2>2, CapacityAssumption DEF Slots
<1>2. n + 1 \in 1 .. kMaxQueue BY <1>1, WaitingCases, CapacityAssumption
<1>3. Index(t, n + 1) = h
  <2>1. CASE t <= h
    <3>1. n = h - t BY <2>1, WaitingCases
    <3> QED BY <1>2, <3>1, IndexCases, CapacityAssumption DEF Slots
  <2>2. CASE h < t
    <3>1. n = h - t + kMaxQueue BY <2>2, WaitingCases
    <3> QED BY <1>2, <3>1, IndexCases, CapacityAssumption DEF Slots
  <2> QED BY <2>1, <2>2, CapacityAssumption DEF Slots
<1> QED BY <1>1, <1>3

\* A full ring holds all the slots but one.
LEMMA WaitingWhenFull ==
    ASSUME NEW h \in Slots, NEW t \in Slots, Succ(h) = t
    PROVE  Waiting(h, t) = kMaxQueue - 1
<1>1. CASE h = kMaxQueue - 1
  BY <1>1, SuccCases, WaitingCases, CapacityAssumption DEF Slots
<1>2. CASE h < kMaxQueue - 1
  BY <1>2, SuccCases, WaitingCases, CapacityAssumption DEF Slots
<1> QED BY <1>1, <1>2, CapacityAssumption DEF Slots

\* A take makes the ring one task shorter and moves every other one up.
LEMMA WaitingAfterTake ==
    ASSUME NEW h \in Slots, NEW t \in Slots, h # t
    PROVE  /\ Waiting(h, t) \in 1 .. kMaxQueue - 1
           /\ Waiting(h, Succ(t)) = Waiting(h, t) - 1
           /\ Index(t, 1) = t
           /\ \A k \in 1 .. Waiting(h, t) - 1 : Index(Succ(t), k) = Index(t, k + 1)
<1> DEFINE n == Waiting(h, t)
<1>0. Succ(t) \in Slots BY SuccCases
<1>1. n \in 1 .. kMaxQueue - 1 BY WaitingCases, CapacityAssumption
<1>2. Waiting(h, Succ(t)) = n - 1
  <2>4. n = IF t <= h THEN h - t ELSE h - t + kMaxQueue
    BY WaitingCases
  <2>5. Waiting(h, Succ(t)) = IF Succ(t) <= h THEN h - Succ(t) ELSE h - Succ(t) + kMaxQueue
    BY <1>0, WaitingCases
  <2>1. CASE t = kMaxQueue - 1
    <3>1. Succ(t) = 0 BY <2>1, SuccCases
    <3> HIDE DEF n
    <3> QED BY <2>1, <2>4, <2>5, <3>1, CapacityAssumption DEF Slots
  <2>2. CASE t < kMaxQueue - 1
    <3>1. Succ(t) = t + 1 BY <2>2, SuccCases
    <3> HIDE DEF n
    <3> QED BY <2>2, <2>4, <2>5, <3>1, CapacityAssumption DEF Slots
  <2> QED BY <2>1, <2>2, CapacityAssumption DEF Slots
<1>3. Index(t, 1) = t BY IndexCases, CapacityAssumption DEF Slots
<1>4. ASSUME NEW k \in 1 .. n - 1 PROVE Index(Succ(t), k) = Index(t, k + 1)
  <2> HIDE DEF n
  <2>1. k \in 1 .. kMaxQueue /\ k + 1 \in 1 .. kMaxQueue BY <1>1, CapacityAssumption
  <2>4. Index(t, k + 1) = IF t + k < kMaxQueue THEN t + k ELSE t + k - kMaxQueue
    <3>1. /\ t + (k + 1) - 1 < kMaxQueue => Index(t, k + 1) = t + (k + 1) - 1
          /\ kMaxQueue <= t + (k + 1) - 1 => Index(t, k + 1) = t + (k + 1) - 1 - kMaxQueue
      BY <2>1, IndexCases
    <3> QED BY <2>1, <3>1, CapacityAssumption DEF Slots
  <2>5. Index(Succ(t), k) = IF Succ(t) + k - 1 < kMaxQueue THEN Succ(t) + k - 1
                                                          ELSE Succ(t) + k - 1 - kMaxQueue
    <3>1. /\ Succ(t) + k - 1 < kMaxQueue => Index(Succ(t), k) = Succ(t) + k - 1
          /\ kMaxQueue <= Succ(t) + k - 1 => Index(Succ(t), k) = Succ(t) + k - 1 - kMaxQueue
      BY <1>0, <2>1, IndexCases
    <3> QED BY <1>0, <2>1, <3>1, CapacityAssumption DEF Slots
  <2>2. CASE t = kMaxQueue - 1
    <3>1. Succ(t) = 0 BY <2>2, SuccCases
    <3>2. k < kMaxQueue BY <1>1, CapacityAssumption
    <3> QED BY <2>1, <2>2, <2>4, <2>5, <3>1, <3>2, CapacityAssumption
  <2>3. CASE t < kMaxQueue - 1
    <3>1. Succ(t) = t + 1 BY <2>3, SuccCases
    <3> QED BY <2>1, <2>3, <2>4, <2>5, <3>1, CapacityAssumption DEF Slots
  <2> QED BY <2>2, <2>3, CapacityAssumption DEF Slots
<1> QED BY <1>1, <1>2, <1>3, <1>4

-----------------------------------------------------------------------------

\* No slot holds task t and t has not run.
Unused(t) ==
    /\ \A l \in Lanes, i \in Slots : slot[l][i] # t
    /\ \A n \in DOMAIN log : log[n].task # t

\* Each task is on its way to one place only: in one call, or past it.
SubmittedOnce ==
    /\ \A l \in Lanes, i \in Slots : slot[l][i] \in submitted \cup {None}
    /\ \A n \in DOMAIN log : log[n].task \in submitted
    /\ \A th \in Threads : call[th] # None =>
          call[th].task \in submitted /\ Unused(call[th].task)
    /\ \A th, u \in Threads :
          call[th] # None /\ call[u] # None /\ call[th].task = call[u].task => th = u

\* The game thread is never inside an Enqueue call while its drain works on a ring.
CallsOutsideDrain ==
    call[GameTid] # None => frame = "out" \/ step = "body"

\* CallsOutsideDrain is an invariant: the drain waits for the task it runs.
LEMMA GameThreadCalls == Spec => []CallsOutsideDrain
<1>1. Init => CallsOutsideDrain
  BY DEF Init, CallsOutsideDrain
<1>2. TypeOK /\ FrameShape /\ CallsOutsideDrain /\ [Next]_vars => CallsOutsideDrain'
  <2> SUFFICES ASSUME TypeOK, FrameShape, CallsOutsideDrain, [Next]_vars
               PROVE  CallsOutsideDrain'
      OBVIOUS
  <2> USE DEF CallsOutsideDrain
  <2>1. CASE DetourEnter \/ OriginalReturns \/ DetourLeave
    BY <2>1 DEF DetourEnter, OriginalReturns, DetourLeave
  <2>2. ASSUME NEW l \in Lanes, Drain(l) PROVE CallsOutsideDrain'
    BY <2>2 DEF Drain, LaneEmpty, Take, Invoke, Finish, AfterLane, Lanes
  <2>3. ASSUME NEW th \in Threads, NEW api \in CalledApis, NEW t \in Tasks,
               EnqueueEnters(th, api, t) \/ EnqueueRefuses(th, api, t)
        PROVE  CallsOutsideDrain'
    BY <2>3 DEF EnqueueEnters, EnqueueRefuses, MayCall, frameVars, TypeOK, Threads
  <2>4. ASSUME NEW th \in Threads, EnqueueRunsNow(th) \/ EnqueuePushes(th)
        PROVE  CallsOutsideDrain'
    BY <2>4 DEF EnqueueRunsNow, EnqueuePushes, frameVars, TypeOK, Threads
  <2>5. CASE InitializeHooks \/ InitializeFails \/ InitializeDone \/ GameOverwritesHook
             \/ Watchdog \/ Shutdown \/ UNCHANGED vars
    <3> SUFFICES UNCHANGED <<call, frame, step>> OBVIOUS
    <3> QED BY <2>5 DEF InitializeHooks, InitializeFails, InitializeDone, GameOverwritesHook,
                        Watchdog, WatchdogTests, WatchdogCompares, WatchdogPatches, Shutdown, ShutdownStopsWatchdog,
                        ShutdownUnhooks, ShutdownClears, ShutdownDeletes, vars, frameVars
  <2> QED BY <2>1, <2>2, <2>3, <2>4, <2>5 DEF Next, Frame, Submit
<1> QED BY <1>1, <1>2, TypeAndShape, PTL DEF Spec

\* SubmittedOnce is an invariant: a task leaves its call for one slot or for the log.
LEMMA TasksMoveOnce == Spec => []SubmittedOnce
<1>1. Init => SubmittedOnce
  BY DEF Init, SubmittedOnce
<1>2. TypeOK /\ FrameShape /\ SubmittedOnce /\ [Next]_vars => SubmittedOnce'
  <2> SUFFICES ASSUME TypeOK, FrameShape, SubmittedOnce, [Next]_vars
               PROVE  SubmittedOnce'
      OBVIOUS
  <2> USE NamesAssumption DEF SubmittedOnce, Unused
  <2>1. ASSUME NEW l \in Lanes, Invoke(l) PROVE SubmittedOnce'
    <3>1. UNCHANGED <<slot, call, submitted>>
      BY <2>1 DEF Invoke, ringVars
    <3>2. CASE slot[l][running] = None
      BY <2>1, <3>1, <3>2 DEF Invoke
    <3>3. CASE slot[l][running] # None
      <4>1. running \in Slots BY <2>1 DEF Invoke, TypeOK, FrameShape
      <4>2. log \in Seq([task : Tasks, via : Lanes \cup {"direct"}]) BY DEF TypeOK
      <4>3. log' = Append(log, [task |-> slot[l][running], via |-> l])
        BY <2>1, <3>3 DEF Invoke, Ran
      <4>4. slot[l][running] \in submitted
        BY <3>3, <4>1
      <4>5. \A n \in DOMAIN log' : (n \in DOMAIN log /\ log'[n] = log[n])
                                   \/ log'[n].task = slot[l][running]
        BY <4>2, <4>3
      <4> QED BY <3>1, <4>1, <4>4, <4>5
    <3> QED BY <3>2, <3>3
  <2>2. ASSUME NEW l \in Lanes, Finish(l) PROVE SubmittedOnce'
    <3>1. running \in Slots BY <2>2 DEF Finish, TypeOK, FrameShape
    <3>2. UNCHANGED <<call, submitted, log>>
      BY <2>2 DEF Finish, history
    <3>3. \A m \in Lanes, i \in Slots : slot'[m][i] \in {slot[m][i], None}
      BY <2>2, <3>1 DEF Finish, InvokerCleared, TypeOK
    <3>4. \A th \in Threads : call[th] # None => call[th].task # None
      BY DEF TypeOK, Calls
    <3> QED BY <3>2, <3>3, <3>4
  <2>3. ASSUME NEW th \in Threads, NEW api \in CalledApis, NEW t \in Tasks,
               EnqueueEnters(th, api, t)
        PROVE  SubmittedOnce'
    <3>1. t \notin submitted /\ submitted' = submitted \cup {t} /\ UNCHANGED <<slot, log>>
      BY <2>3 DEF EnqueueEnters, NextTask, ringVars
    <3>2. /\ call'[th] = [api |-> api, task |-> t]
          /\ \A u \in Threads \ {th} : call'[u] = call[u]
      BY <2>3 DEF EnqueueEnters, TypeOK
    <3>3. t # None OBVIOUS
    <3>4. Unused(t) BY <3>1, <3>3
    <3>5. call'[th].task = t BY <3>2
    <3>6. ASSUME NEW u \in Threads, call'[u] # None
          PROVE  /\ call'[u].task \in submitted' /\ Unused(call[u].task)'
                 /\ call'[u].task = t => u = th
      <4>1. CASE u = th
        <5>1. t \in submitted' /\ Unused(t)' BY <3>1, <3>4
        <5> QED BY <4>1, <3>5, <5>1
      <4>2. CASE u # th
        <5>1. call'[u] = call[u] /\ call[u] # None BY <3>2, <3>6, <4>2
        <5>2. call[u].task \in submitted /\ Unused(call[u].task) BY <5>1
        <5> QED BY <3>1, <5>1, <5>2
      <4> QED BY <4>1, <4>2
    <3>7. ASSUME NEW u \in Threads, NEW v \in Threads,
                 call'[u] # None, call'[v] # None, call'[u].task = call'[v].task
          PROVE  u = v
      <4>1. CASE u = th \/ v = th
        BY <3>5, <3>6, <3>7, <4>1
      <4>2. CASE u # th /\ v # th
        BY <3>2, <3>7, <4>2
      <4> QED BY <4>1, <4>2
    <3> QED BY <3>1, <3>2, <3>6, <3>7
  <2>4. ASSUME NEW th \in Threads, NEW api \in CalledApis, NEW t \in Tasks,
               EnqueueRefuses(th, api, t)
        PROVE  SubmittedOnce'
    BY <2>4 DEF EnqueueRefuses, ringVars
  <2>5. ASSUME NEW th \in Threads, EnqueueRunsNow(th) PROVE SubmittedOnce'
    <3>1. call[th] # None /\ UNCHANGED <<slot, submitted>>
      BY <2>5 DEF EnqueueRunsNow, ringVars
    <3>2. call'[th] = None /\ \A u \in Threads \ {th} : call'[u] = call[u]
      BY <2>5 DEF EnqueueRunsNow, TypeOK
    <3>3. log \in Seq([task : Tasks, via : Lanes \cup {"direct"}]) BY DEF TypeOK
    <3>4. log' = Append(log, [task |-> call[th].task, via |-> "direct"])
      BY <2>5 DEF EnqueueRunsNow, Ran
    <3>5. \A n \in DOMAIN log' : (n \in DOMAIN log /\ log'[n] = log[n])
                                 \/ log'[n].task = call[th].task
      BY <3>3, <3>4
    <3> QED BY <3>1, <3>2, <3>5
  <2>6. ASSUME NEW th \in Threads, EnqueuePushes(th) PROVE SubmittedOnce'
    <3>1. call[th] # None /\ UNCHANGED <<log, submitted>>
      BY <2>6 DEF EnqueuePushes
    <3>2. call'[th] = None /\ \A u \in Threads \ {th} : call'[u] = call[u]
      BY <2>6 DEF EnqueuePushes, TypeOK
    <3>3. \A m \in Lanes, i \in Slots : slot'[m][i] \in {slot[m][i], call[th].task}
      <4> DEFINE l == LaneOf(call[th].api)
      <4>1. CASE Full(l)
        BY <2>6, <4>1 DEF EnqueuePushes, ringVars
      <4>2. CASE ~Full(l)
        <5>1. slot' = [slot EXCEPT ![l][head[l]] = call[th].task]
          BY <2>6, <4>2 DEF EnqueuePushes
        <5> HIDE DEF l
        <5> QED BY <5>1 DEF TypeOK
      <4> QED BY <4>1, <4>2
    <3> QED BY <3>1, <3>2, <3>3
  <2>7. CASE ShutdownClears
    <3>1. \A th \in Threads : call[th] # None => call[th].task # None
      BY DEF TypeOK, Calls
    <3> QED BY <2>7, <3>1 DEF ShutdownClears
  <2>8. CASE UNCHANGED <<slot, call, history>>
    BY <2>8 DEF history
  <2>9. ASSUME NEW l \in Lanes, LaneEmpty(l) \/ Take(l) PROVE UNCHANGED <<slot, call, history>>
    BY <2>9 DEF LaneEmpty, Take, ringVars
  <2>10. CASE DetourEnter \/ OriginalReturns \/ DetourLeave
    BY <2>8, <2>10 DEF DetourEnter, OriginalReturns, DetourLeave, ringVars
  <2>11. CASE InitializeHooks \/ InitializeFails \/ InitializeDone \/ GameOverwritesHook
              \/ Watchdog \/ ShutdownStopsWatchdog \/ ShutdownUnhooks \/ ShutdownDeletes
              \/ UNCHANGED vars
    BY <2>8, <2>11 DEF InitializeHooks, InitializeFails, InitializeDone, GameOverwritesHook,
                       Watchdog, WatchdogTests, WatchdogCompares, WatchdogPatches, ShutdownStopsWatchdog,
                       ShutdownUnhooks, ShutdownDeletes, vars, ringVars
  <2> QED BY <2>1, <2>2, <2>3, <2>4, <2>5, <2>6, <2>7, <2>8, <2>9, <2>10, <2>11
             DEF Next, Frame, Drain, Submit, Shutdown
<1> QED BY <1>1, <1>2, TypeAndShape, PTL DEF Spec

-----------------------------------------------------------------------------

\* What the refinement rests on.
Working ==
    /\ TypeOK /\ FrameShape /\ RunningSlotIsReserved /\ SlotsMatchWindow
    /\ SubmittedOnce /\ CallsOutsideDrain /\ ~ShutDown

\* A sequence with one element more at its end.
LEMMA IsAppend ==
    ASSUME NEW S, NEW s \in Seq(S), NEW e \in S, NEW g \in [1 .. Len(s) + 1 -> S],
           \A k \in 1 .. Len(s) : g[k] = s[k], g[Len(s) + 1] = e
    PROVE  g = Append(s, e)
OBVIOUS

\* A sequence without its first element.
LEMMA IsTail ==
    ASSUME NEW S, NEW s \in Seq(S), s # <<>>, NEW g \in [1 .. Len(s) - 1 -> S],
           \A k \in 1 .. Len(s) - 1 : g[k] = s[k + 1]
    PROVE  g = Tail(s)
<1>1. g \in Seq(S) /\ Len(g) = Len(s) - 1 OBVIOUS
<1>2. Tail(s) \in Seq(S) /\ Len(Tail(s)) = Len(s) - 1 OBVIOUS
<1>3. \A k \in 1 .. Len(s) - 1 : Tail(s)[k] = s[k + 1] OBVIOUS
<1> QED BY <1>1, <1>2, <1>3

\* The waiting tasks of a lane, as a sequence.
LEMMA QueueIsSeq ==
    ASSUME Working, NEW l \in Lanes
    PROVE  /\ QueueOf(l) \in Seq(Tasks)
           /\ Len(QueueOf(l)) = Waiting(head[l], tail[l])
           /\ \A k \in 1 .. Waiting(head[l], tail[l]) :
                 Index(tail[l], k) \in Slots /\ InWindow(l, Index(tail[l], k))
                 /\ QueueOf(l)[k] = slot[l][Index(tail[l], k)]
<1>1. head[l] \in Slots /\ tail[l] \in Slots BY DEF Working, TypeOK
<1>2. Waiting(head[l], tail[l]) \in Nat BY <1>1, WaitingCases, CapacityAssumption
<1>3. ASSUME NEW k \in 1 .. Waiting(head[l], tail[l])
      PROVE  /\ Index(tail[l], k) \in Slots
             /\ InWindow(l, Index(tail[l], k))
             /\ slot[l][Index(tail[l], k)] \in Tasks
  <2>1. Index(tail[l], k) \in Slots /\ InWindow(l, Index(tail[l], k))
    BY <1>1, IndexInWindow DEF InWindow
  <2>2. slot[l][Index(tail[l], k)] # None BY <2>1 DEF Working, SlotsMatchWindow
  <2> QED BY <2>1, <2>2 DEF Working, TypeOK
<1> QED BY <1>2, <1>3 DEF QueueOf

\* A task that is in one thread's call is not yet known to the lanes.
LEMMA CallIsNew ==
    ASSUME Working, NEW th \in Threads, call[th] # None
    PROVE  call[th].task \in Tasks /\ ~Lane!Known(call[th].task)
<1>1. call[th].task \in Tasks BY DEF Working, TypeOK, Calls
<1>2. Unused(call[th].task) BY DEF Working, SubmittedOnce
<1>3. \A l \in Lanes : \A k \in DOMAIN QueueOf(l) : QueueOf(l)[k] # call[th].task
  BY <1>2, QueueIsSeq DEF Unused
<1>4. TakenTask # None => TakenTask.task # call[th].task
  <2> SUFFICES ASSUME step = "call", slot[frame][running] # None
               PROVE  slot[frame][running] # call[th].task
      BY DEF TakenTask
  <2>1. frame \in Lanes /\ running \in Slots BY DEF Working, FrameShape, TypeOK
  <2> QED BY <1>2, <2>1 DEF Unused
<1> QED BY <1>1, <1>2, <1>3, <1>4 DEF Lane!Known, Unused

\* A lane whose ring and taken slot a step leaves alone keeps its queue.
LEMMA SameQueue ==
    ASSUME Working, NEW l \in Lanes, head'[l] = head[l], tail'[l] = tail[l],
           \A i \in Slots : InWindow(l, i) => slot'[l][i] = slot[l][i]
    PROVE  QueueOf(l)' = QueueOf(l)
BY QueueIsSeq DEF QueueOf

\* A push appends the task to its lane.
LEMMA PushAppends ==
    ASSUME Working, NEW l \in Lanes, NEW t \in Tasks, ~Full(l),
           slot' = [slot EXCEPT ![l][head[l]] = t],
           head' = [head EXCEPT ![l] = Succ(head[l])], UNCHANGED tail
    PROVE  /\ Len(QueueOf(l)) < kMaxQueue - 1
           /\ QueueOf(l)' = Append(QueueOf(l), t)
           /\ \A m \in Lanes \ {l} : QueueOf(m)' = QueueOf(m)
<1> DEFINE h == head[l]
           b == tail[l]
           n == Waiting(h, b)
<1>1. h \in Slots /\ b \in Slots /\ head'[l] = Succ(h) /\ tail'[l] = b
  BY DEF Working, TypeOK
<1>2. Succ(h) # b BY DEF Full
<1>3. Waiting(Succ(h), b) = n + 1 /\ n < kMaxQueue - 1 /\ Index(b, n + 1) = h
  BY <1>1, <1>2, WaitingAfterPush
<1>4. n \in Nat BY <1>1, WaitingCases, CapacityAssumption
<1>5. ~Between(b, h, h) BY <1>1, CapacityAssumption DEF Between, Slots
<1>6. /\ \A i \in Slots \ {h} : slot'[l][i] = slot[l][i]
      /\ slot'[l][h] = t
      /\ \A m \in Lanes \ {l} : slot'[m] = slot[m] /\ head'[m] = head[m] /\ tail'[m] = tail[m]
  BY <1>1 DEF Working, TypeOK
<1>7. QueueOf(l) \in Seq(Tasks) /\ Len(QueueOf(l)) = n BY QueueIsSeq
<1>8. QueueOf(l)' = [k \in 1 .. n + 1 |-> slot'[l][Index(b, k)]]
  BY <1>1, <1>3 DEF QueueOf
<1>9. \A k \in 1 .. n : QueueOf(l)'[k] = QueueOf(l)[k]
  <2> SUFFICES ASSUME NEW k \in 1 .. n PROVE QueueOf(l)'[k] = QueueOf(l)[k]
      OBVIOUS
  <2>1. Index(b, k) \in Slots /\ InWindow(l, Index(b, k)) /\ QueueOf(l)[k] = slot[l][Index(b, k)]
    BY QueueIsSeq
  <2>2. Index(b, k) # h BY <1>5, <2>1 DEF InWindow
  <2>3. k \in 1 .. n + 1 BY <1>4
  <2> HIDE DEF n
  <2> QED BY <1>6, <1>8, <2>1, <2>2, <2>3
<1>10. QueueOf(l)'[n + 1] = t BY <1>3, <1>4, <1>6, <1>8
<1>11. QueueOf(l)' \in [1 .. n + 1 -> Tasks]
  <2>1. \A k \in 1 .. n : QueueOf(l)[k] \in Tasks BY <1>7
  <2> HIDE DEF n
  <2>2. \A k \in 1 .. n + 1 : QueueOf(l)'[k] \in Tasks BY <1>4, <1>9, <1>10, <2>1
  <2> QED BY <1>8, <2>2
<1>12. QueueOf(l)' = Append(QueueOf(l), t)
  BY <1>7, <1>9, <1>10, <1>11, IsAppend
<1>13. \A m \in Lanes \ {l} : QueueOf(m)' = QueueOf(m)
  BY <1>6, SameQueue
<1> QED BY <1>3, <1>7, <1>12, <1>13

\* A take removes the oldest task of its lane, and that is the task it holds.
LEMMA TakeRemoves ==
    ASSUME Working, NEW l \in Lanes, tail[l] # head[l],
           tail' = [tail EXCEPT ![l] = Succ(tail[l])], UNCHANGED <<slot, head>>
    PROVE  /\ QueueOf(l) # <<>>
           /\ slot[l][tail[l]] # None
           /\ Head(QueueOf(l)) = slot[l][tail[l]]
           /\ QueueOf(l)' = Tail(QueueOf(l))
           /\ \A m \in Lanes \ {l} : QueueOf(m)' = QueueOf(m)
<1> DEFINE h == head[l]
           b == tail[l]
           n == Waiting(h, b)
<1>1. h \in Slots /\ b \in Slots /\ tail'[l] = Succ(b) /\ head'[l] = h
  BY DEF Working, TypeOK
<1>2. /\ n \in 1 .. kMaxQueue - 1
      /\ Waiting(h, Succ(b)) = n - 1
      /\ Index(b, 1) = b
      /\ \A k \in 1 .. n - 1 : Index(Succ(b), k) = Index(b, k + 1)
  BY <1>1, WaitingAfterTake
<1>3. QueueOf(l) \in Seq(Tasks) /\ Len(QueueOf(l)) = n BY QueueIsSeq
<1>4. \A k \in 1 .. n : InWindow(l, Index(b, k)) /\ QueueOf(l)[k] = slot[l][Index(b, k)]
  BY QueueIsSeq
<1>5. QueueOf(l)' = [k \in 1 .. n - 1 |-> slot[l][Index(Succ(b), k)]]
  BY <1>1, <1>2 DEF QueueOf
<1> HIDE DEF n
<1>6. 1 \in 1 .. n /\ n \in Nat BY <1>2, CapacityAssumption
<1>7. \A k \in 1 .. n - 1 : k + 1 \in 1 .. n BY <1>6
<1>8. \A k \in 1 .. n - 1 : QueueOf(l)'[k] = QueueOf(l)[k + 1]
  BY <1>2, <1>4, <1>5, <1>7
<1>9. QueueOf(l)' \in [1 .. n - 1 -> Tasks]
  <2>1. \A k \in 1 .. n - 1 : QueueOf(l)[k + 1] \in Tasks BY <1>3, <1>7
  <2> QED BY <1>5, <1>8, <2>1
<1>10. QueueOf(l) # <<>> BY <1>3, <1>6
<1>11. QueueOf(l)' = Tail(QueueOf(l)) BY <1>3, <1>8, <1>9, <1>10, IsTail
<1>12. Head(QueueOf(l)) = slot[l][b] BY <1>2, <1>3, <1>4, <1>6, <1>10
<1>13. slot[l][b] # None
  <2>1. InWindow(l, b) BY <1>2, <1>4, <1>6
  <2> QED BY <1>1, <2>1 DEF Working, SlotsMatchWindow
<1>14. \A m \in Lanes \ {l} : QueueOf(m)' = QueueOf(m)
  <2>1. \A m \in Lanes \ {l} : tail'[m] = tail[m] BY DEF Working, TypeOK
  <2> QED BY <2>1, SameQueue
<1> QED BY <1>10, <1>11, <1>12, <1>13, <1>14

\* A step that neither moves a task nor uses the drain's slot shows nothing of itself.
LEMMA Stutters ==
    ASSUME UNCHANGED <<ringVars, log>>, TakenTask' = TakenTask, ShutDown' = ShutDown
    PROVE  UNCHANGED Lane!lvars
<1>1. \A l \in Lanes : QueueOf(l)' = QueueOf(l)
  BY DEF ringVars, QueueOf
<1> QED BY <1>1 DEF Lane!lvars

\* One step of the dispatcher is one step of the lanes, or none.
LEMMA LaneStep ==
    ASSUME Working, TypeOK', FrameShape', Next, ~ShutDown'
    PROVE  [Lane!Works /\ UNCHANGED ShutDown]_(Lane!lvars)
<1> USE NamesAssumption
<1>0. ~ShutDown /\ ShutDown' = ShutDown BY DEF Working, ShutDown
<1>1. ASSUME NEW l \in Lanes, Take(l) PROVE Lane!TakeOldest(l)
  <2>1. /\ tail' = [tail EXCEPT ![l] = Succ(tail[l])] /\ UNCHANGED <<slot, head, log, frame>>
        /\ running' = tail[l] /\ step = "look" /\ step' = "call" /\ frame = l
    BY <1>1 DEF Take, history
  <2>2. tail[l] # head[l] BY <1>1 DEF Take
  <2>3. /\ QueueOf(l) # <<>>
        /\ slot[l][tail[l]] # None
        /\ Head(QueueOf(l)) = slot[l][tail[l]]
        /\ QueueOf(l)' = Tail(QueueOf(l))
        /\ \A m \in Lanes \ {l} : QueueOf(m)' = QueueOf(m)
    BY <2>1, <2>2, TakeRemoves
  <2>4. TakenTask = None /\ TakenTask' = [lane |-> l, task |-> Head(QueueOf(l))]
    BY <2>1, <2>3 DEF TakenTask
  <2> QED BY <2>1, <2>3, <2>4 DEF Lane!TakeOldest
<1>2. ASSUME NEW l \in Lanes, Invoke(l) PROVE Lane!RunTaken
  <2>1. frame = l /\ step = "call" /\ step' = "body" /\ running \in Slots
    BY <1>2 DEF Invoke, Working, FrameShape, TypeOK
  <2>2. running # None BY <2>1, CapacityAssumption DEF Slots
  <2>3. slot[l][running] # None BY <2>1 DEF Working, SlotsMatchWindow
  <2>4. /\ log' = Append(log, [task |-> slot[l][running], via |-> l])
        /\ UNCHANGED ringVars
    BY <1>2, <2>3 DEF Invoke, Ran
  <2>5. TakenTask = [lane |-> l, task |-> slot[l][running]] /\ TakenTask' = None
    BY <2>1, <2>3 DEF TakenTask
  <2>6. TakenTask # None
    <3>1. slot[l][running] \in Tasks BY <2>1, <2>3 DEF Working, TypeOK
    <3>2. TakenTask \in [lane : Lanes, task : Tasks] BY <2>5, <3>1
    <3> QED BY <3>2 DEF Lanes
  <2>7. \A m \in Lanes : QueueOf(m)' = QueueOf(m) BY <2>4 DEF ringVars, QueueOf
  <2> QED BY <2>4, <2>5, <2>6, <2>7 DEF Lane!RunTaken
<1>3. ASSUME NEW l \in Lanes, Finish(l) PROVE UNCHANGED Lane!lvars
  <2>1. frame = l /\ step = "body" /\ step' # "call" /\ UNCHANGED <<head, tail, log>>
    BY <1>3 DEF Finish, history
  <2>2. running \in Slots BY <2>1 DEF Working, FrameShape, TypeOK
  <2>3. ~InWindow(l, running)
    BY <2>1, <2>2, CapacityAssumption DEF Working, RunningSlotIsReserved, Slots
  <2>4. \A m \in Lanes, i \in Slots : InWindow(m, i) => slot'[m][i] = slot[m][i]
    BY <1>3, <2>2, <2>3 DEF Finish, InvokerCleared, Working, TypeOK
  <2>5. \A m \in Lanes : QueueOf(m)' = QueueOf(m) BY <2>1, <2>4, SameQueue
  <2>6. TakenTask = None /\ TakenTask' = None BY <2>1 DEF TakenTask
  <2> QED BY <1>0, <2>1, <2>5, <2>6 DEF Lane!lvars
<1>4. ASSUME NEW th \in Threads, EnqueueRunsNow(th)
      PROVE  \E t \in Tasks : Lane!RunNow(t)
  <2>1. /\ call[th] # None /\ s_gameThreadId = th
        /\ log' = Append(log, [task |-> call[th].task, via |-> "direct"])
        /\ UNCHANGED <<ringVars, frameVars>>
    BY <1>4 DEF EnqueueRunsNow, OnGameThread, Ran
  <2>2. th = GameTid BY <2>1 DEF Working, TypeOK, Threads
  <2>3. step # "call" BY <2>1, <2>2 DEF Working, CallsOutsideDrain, FrameShape
  <2>4. TakenTask = None /\ TakenTask' = None BY <2>1, <2>3 DEF TakenTask, frameVars
  <2>5. call[th].task \in Tasks /\ ~Lane!Known(call[th].task) BY <2>1, CallIsNew
  <2>6. \A m \in Lanes : QueueOf(m)' = QueueOf(m) BY <2>1 DEF ringVars, QueueOf
  <2>7. Lane!RunNow(call[th].task) BY <2>1, <2>4, <2>5, <2>6 DEF Lane!RunNow
  <2> QED BY <2>5, <2>7
<1>5. ASSUME NEW th \in Threads, EnqueuePushes(th)
      PROVE  UNCHANGED Lane!lvars \/ \E l \in Lanes, t \in Tasks : Lane!Accept(l, t)
  <2>1. call[th] # None /\ UNCHANGED <<frameVars, log>> BY <1>5 DEF EnqueuePushes
  <2>2. call[th] \in Calls BY <2>1 DEF Working, TypeOK
  <2>3. PICK l \in Lanes, t \in Tasks : l = LaneOf(call[th].api) /\ t = call[th].task
    BY <2>2 DEF Calls, LaneOf, Apis, Lanes
  <2>4. ~Lane!Known(t)
    <3>1. ~Lane!Known(call[th].task) BY <2>1, CallIsNew
    <3> QED BY <2>3, <3>1
  <2>5. CASE Full(l)
    <3>1. UNCHANGED ringVars BY <1>5, <2>3, <2>5 DEF EnqueuePushes
    <3>2. TakenTask' = TakenTask BY <2>1, <3>1 DEF TakenTask, frameVars, ringVars
    <3> QED BY <1>0, <2>1, <3>1, <3>2, Stutters
  <2>6. CASE ~Full(l)
    <3>1. /\ slot' = [slot EXCEPT ![l][head[l]] = t]
          /\ head' = [head EXCEPT ![l] = Succ(head[l])] /\ UNCHANGED tail
      BY <1>5, <2>3, <2>6 DEF EnqueuePushes
    <3>2. /\ Len(QueueOf(l)) < kMaxQueue - 1
          /\ QueueOf(l)' = Append(QueueOf(l), t)
          /\ \A m \in Lanes \ {l} : QueueOf(m)' = QueueOf(m)
      BY <2>6, <3>1, PushAppends
    <3>3. TakenTask' = TakenTask
      <4>1. CASE step # "call"
        BY <2>1, <4>1 DEF TakenTask, frameVars
      <4>2. CASE step = "call"
        <5>1. frame \in Lanes /\ running \in Slots BY <4>2 DEF Working, FrameShape, TypeOK
        <5>2. tail[frame] = Succ(running)
          BY <5>1, CapacityAssumption DEF Working, RunningSlotIsReserved, Slots
        <5>3. ~(frame = l /\ running = head[l]) BY <2>6, <5>2 DEF Full
        <5>4. slot'[frame][running] = slot[frame][running]
          BY <3>1, <5>1, <5>3 DEF Working, TypeOK
        <5> QED BY <2>1, <5>4 DEF TakenTask, frameVars
      <4> QED BY <4>1, <4>2
    <3>4. Lane!Accept(l, t) BY <2>1, <2>4, <3>2, <3>3 DEF Lane!Accept
    <3> QED BY <3>4
  <2> QED BY <2>5, <2>6
<1>6. ASSUME NEW l \in Lanes, LaneEmpty(l) PROVE UNCHANGED Lane!lvars
  <2>1. UNCHANGED <<ringVars, log>> /\ step # "call" /\ step' # "call"
    BY <1>6 DEF LaneEmpty, history
  <2>2. TakenTask' = TakenTask BY <2>1 DEF TakenTask
  <2> QED BY <1>0, <2>1, <2>2, Stutters
<1>7. CASE DetourEnter \/ OriginalReturns \/ DetourLeave
  <2>1. UNCHANGED <<ringVars, log>> /\ step # "call" /\ step' # "call"
    BY <1>7 DEF DetourEnter, OriginalReturns, DetourLeave, history, Working, FrameShape, Lanes
  <2>2. TakenTask' = TakenTask BY <2>1 DEF TakenTask
  <2> QED BY <1>0, <2>1, <2>2, Stutters
<1>8. CASE UNCHANGED <<ringVars, frameVars, log>>
  <2>1. TakenTask' = TakenTask BY <1>8 DEF TakenTask, frameVars, ringVars
  <2> QED BY <1>0, <1>8, <2>1, Stutters
<1>9. ASSUME NEW th \in Threads, NEW api \in CalledApis, NEW t \in Tasks,
             EnqueueEnters(th, api, t) \/ EnqueueRefuses(th, api, t)
      PROVE  UNCHANGED <<ringVars, frameVars, log>>
  BY <1>9 DEF EnqueueEnters, EnqueueRefuses
<1>10. CASE InitializeHooks \/ InitializeFails \/ InitializeDone \/ GameOverwritesHook
            \/ Watchdog \/ ShutdownStopsWatchdog \/ ShutdownUnhooks \/ ShutdownDeletes
  BY <1>8, <1>10 DEF InitializeHooks, InitializeFails, InitializeDone, GameOverwritesHook,
                     Watchdog, WatchdogTests, WatchdogCompares, WatchdogPatches, ShutdownStopsWatchdog,
                     ShutdownUnhooks, ShutdownDeletes, history
<1>11. CASE ShutdownClears
  BY <1>11 DEF ShutdownClears, ShutDown
<1> QED
  BY <1>0, <1>1, <1>2, <1>3, <1>4, <1>5, <1>6, <1>7, <1>8, <1>9, <1>10, <1>11
     DEF Next, Frame, Drain, Submit, Shutdown, Lane!Works

\* Each lane is a bounded first-in first-out queue until Shutdown clears the
\* rings: the dispatcher implements TaskLanes.
THEOREM ImplementsLanes == Spec => LanesAreQueues
<1>1. Init => Lane!Init
  <2> SUFFICES ASSUME Init PROVE Lane!Init OBVIOUS
  <2>1. ASSUME NEW l \in Lanes PROVE QueueOf(l) = <<>>
    <3>1. head[l] = 0 /\ tail[l] = 0 /\ 0 \in Slots BY CapacityAssumption DEF Init, Slots
    <3>2. Waiting(head[l], tail[l]) = 0 BY <3>1, WaitingCases
    <3> QED BY <3>2 DEF QueueOf
  <2>2. TakenTask = None BY DEF Init, TakenTask
  <2>3. ~ShutDown /\ log = <<>> BY DEF Init, ShutDown
  <2> QED BY <2>1, <2>2, <2>3 DEF Lane!Init
<1>2. TypeOK /\ FrameShape /\ RunningSlotIsReserved /\ SlotsMatchWindow
      /\ SubmittedOnce /\ CallsOutsideDrain /\ TypeOK' /\ FrameShape' /\ [Next]_vars
        => [Lane!Next]_(Lane!lvars)
  <2> SUFFICES ASSUME TypeOK, FrameShape, RunningSlotIsReserved, SlotsMatchWindow,
                      SubmittedOnce, CallsOutsideDrain, TypeOK', FrameShape', [Next]_vars
               PROVE  [Lane!Next]_(Lane!lvars)
      OBVIOUS
  <2>1. CASE ShutDown'
    BY <2>1 DEF Lane!Next, Lane!Close
  <2>2. CASE ~ShutDown' /\ Next
    <3>1. ~ShutDown
      BY <2>2 DEF Next, Frame, Drain, Submit, Watchdog, Shutdown, ShutDown, lifeVars,
                  DetourEnter, LaneEmpty, Take, Invoke, Finish, OriginalReturns, DetourLeave,
                  EnqueueEnters, EnqueueRefuses, EnqueueRunsNow, EnqueuePushes,
                  InitializeHooks, InitializeFails, InitializeDone, GameOverwritesHook,
                  WatchdogTests, WatchdogCompares, WatchdogPatches, ShutdownStopsWatchdog, ShutdownUnhooks,
                  ShutdownClears, ShutdownDeletes
    <3>2. [Lane!Works /\ UNCHANGED ShutDown]_(Lane!lvars)
      BY <2>2, <3>1, LaneStep DEF Working
    <3> QED BY <3>1, <3>2 DEF Lane!Next
  <2>3. CASE UNCHANGED vars
    <3>1. UNCHANGED <<ringVars, log>> /\ TakenTask' = TakenTask /\ ShutDown' = ShutDown
      BY <2>3 DEF vars, ringVars, frameVars, lifeVars, history, TakenTask, ShutDown
    <3> QED BY <3>1, Stutters
  <2> QED BY <2>1, <2>2, <2>3
<1> QED
  BY <1>1, <1>2, TypeAndShape, RunningSlotReserved, SlotsMatch, TasksMoveOnce,
     GameThreadCalls, PTL DEF Spec, LanesAreQueues, Lane!Spec
=============================================================================
