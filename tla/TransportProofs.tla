--------------------------- MODULE TransportProofs ---------------------------
(***************************************************************************)
(* Theorems about the two modules of CtoS.cpp: the command rings of        *)
(* CommandLanes.tla, for every ring size, set of tasks and set of producer *)
(* threads, and the engine hook of EngineHook.tla, for every set of client *)
(* bytes and every bound on the queued commands.                           *)
(***************************************************************************)
EXTENDS CommandLanes, EngineHook, TLAPS

-----------------------------------------------------------------------------
(* The rings, their locks and their indices.                                *)

\* The steps of an enqueue function that hold its lane's lock.
Holding == {"test", "zero", "fill", "publish", "unlock"}

\* Types of the rings and of the threads' positions.
RingsTyped ==
    /\ ring \in [Lanes -> [Slots -> [fn : BOOLEAN, args : Tasks \cup {None}]]]
    /\ head \in [Lanes -> Nat] /\ tail \in [Lanes -> Nat]
    /\ writeLock \in [Lanes -> BOOLEAN]
    /\ call \in [Producers -> [at : {"idle", "spin"} \cup Holding, lane : Lanes,
                               task : Tasks \cup {None}]]
    /\ copy \in [Lanes -> Tasks \cup {None}]
    /\ submitted \in SUBSET Tasks

\* A lane's lock is held by one producer at most.
OneHolder ==
    /\ \A p \in Producers : call[p].at \in Holding => writeLock[call[p].lane]
    /\ \A p, q \in Producers :
          call[p].at \in Holding /\ call[q].at \in Holding /\ call[p].lane = call[q].lane => p = q

\* A ring holds no more than RingSize tasks, and a producer past its test has room.
RingBounded ==
    /\ \A l \in Lanes : tail[l] <= head[l] /\ head[l] - tail[l] <= RingSize
    /\ \A p \in Producers : call[p].at \in {"zero", "fill", "publish"} =>
          head[call[p].lane] - tail[call[p].lane] < RingSize

\* Who is in a call has a task.
CallsTyped == \A p \in Producers : call[p].at # "idle" => call[p].task \in Tasks

\* A consumer on its way past a slot has not yet moved the tail past it.
ConsumersInWindow ==
    /\ sender \in {"copy", "advance"} => tail["packet"] < head["packet"]
    /\ frame = "advance" => tail["game"] < head["game"]
    /\ frame = "running" => tail["botshub"] < head["botshub"] /\ s_botshubSavedIndex = tail["botshub"]

RingsInv == RingsTyped /\ OneHolder /\ RingBounded /\ CallsTyped /\ ConsumersInWindow

\* Division with remainder.
LEMMA DivMod ==
    \A n, i \in Int : n > 0 => \E q, r \in Int : i = n * q + r /\ r = i % n
<1> SUFFICES ASSUME NEW n \in Int, n > 0, NEW i \in Int
             PROVE  \E q \in Int, r \in Int : i = n * q + r /\ r = i % n
    OBVIOUS
<1> QED BY SMTT(30)

\* Two indices less than a ring apart name different slots.
LEMMA IndexApart ==
    ASSUME NEW i \in Nat, NEW j \in Nat, i < j, j - i < RingSize
    PROVE  Index(i) # Index(j)
<1> SUFFICES ASSUME Index(i) = Index(j) PROVE FALSE OBVIOUS
<1>1. RingSize \in Int /\ RingSize > 0 BY RingAssumption
<1>2. PICK a \in Int, r \in Int : i = RingSize * a + r /\ r = Index(i)
  <2>1. \E q, x \in Int : i = RingSize * q + x /\ x = i % RingSize
    <3>1. i \in Int OBVIOUS
    <3> QED BY <1>1, <3>1, DivMod, Zenon
  <2> QED BY <2>1, Zenon DEF Index
<1>3. PICK b \in Int, s \in Int : j = RingSize * b + s /\ s = Index(j)
  <2>1. \E q, x \in Int : j = RingSize * q + x /\ x = j % RingSize
    <3>1. j \in Int OBVIOUS
    <3> QED BY <1>1, <3>1, DivMod, Zenon
  <2> QED BY <2>1, Zenon DEF Index
<1>4. RingSize * a \in Int /\ RingSize * b \in Int /\ RingSize * (b - a) \in Int
  BY RingAssumption
<1>5. RingSize * (b - a) = RingSize * b - RingSize * a
  <2>1. \A n, x, y \in Int : n * (y - x) = n * y - n * x OBVIOUS
  <2> QED BY <1>1, <2>1
<1>6. j - i = RingSize * (b - a)
  <2>1. i = RingSize * a + r /\ j = RingSize * b + r BY <1>2, <1>3
  <2>2. j - i = RingSize * b - RingSize * a BY <1>4, <2>1
  <2> QED BY <1>5, <2>2
<1>7. /\ b - a >= 1 => RingSize * (b - a) >= RingSize
      /\ b - a <= 0 => RingSize * (b - a) <= 0
  <2>1. b - a \in Int OBVIOUS
  <2>2. ASSUME NEW d \in Int PROVE (d >= 1 => RingSize * d >= RingSize) /\ (d <= 0 => RingSize * d <= 0)
    BY RingAssumption
  <2> QED BY <2>1, <2>2
<1> QED BY <1>4, <1>6, <1>7, RingAssumption

\* The index of a task names a slot of the ring.
LEMMA IndexIsSlot == ASSUME NEW i \in Nat PROVE Index(i) \in Slots
BY RingAssumption DEF Index, Slots

\* No step of a thread or of the client breaks the ring invariant.
LEMMA RingsKept == RingsInv /\ [Next]_vars => RingsInv'
<1> SUFFICES ASSUME RingsInv, [Next]_vars PROVE RingsInv' OBVIOUS
<1>0. ASSUME NEW l \in Lanes PROVE tail[l] # head[l] => tail[l] < head[l]
  <2>1. tail[l] \in Nat /\ head[l] \in Nat /\ tail[l] <= head[l]
    BY DEF RingsInv, RingsTyped, RingBounded
  <2> QED BY <2>1
<1> USE NoneAssumption, RingAssumption
    DEF RingsInv, RingsTyped, OneHolder, RingBounded, CallsTyped, ConsumersInWindow, Holding
<1>1. ASSUME NEW p \in Producers, NEW l \in Lanes, NEW t \in Tasks, EnqueueBegins(p, l, t)
      PROVE  RingsInv'
  BY <1>1 DEF EnqueueBegins, At
<1>2. ASSUME NEW p \in Producers, EnqueueLocks(p) PROVE RingsInv'
  <2>1. /\ call' = [call EXCEPT ![p].at = "test"] /\ call[p].at = "spin"
        /\ ~writeLock[call[p].lane] /\ writeLock' = [writeLock EXCEPT ![call[p].lane] = TRUE]
        /\ UNCHANGED <<ring, head, tail, submitted, sender, frame, copy, s_botshubSavedIndex>>
    BY <1>2 DEF EnqueueLocks, At, Goes, LockFree
  <2>2. RingsTyped' BY <2>1
  <2>3. OneHolder' BY <2>1
  <2>4. RingBounded' BY <2>1
  <2>5. CallsTyped' /\ ConsumersInWindow' BY <2>1
  <2> QED BY <2>2, <2>3, <2>4, <2>5
<1>3. ASSUME NEW p \in Producers, EnqueueTests(p) PROVE RingsInv'
  <2>1. CASE Full(call[p].lane)
    <3>1. /\ call' = [call EXCEPT ![p] = NoCall] /\ call[p].at = "test"
          /\ writeLock' = [writeLock EXCEPT ![call[p].lane] = FALSE]
          /\ UNCHANGED <<ring, head, tail, submitted, sender, frame, copy, s_botshubSavedIndex>>
      BY <1>3, <2>1 DEF EnqueueTests, At
    <3>2. NoCall \in [at : {"idle", "spin"} \cup Holding, lane : Lanes, task : Tasks \cup {None}]
          /\ NoCall.at = "idle"
      BY DEF NoCall, Lanes
    <3> QED BY <3>1, <3>2
  <2>2. CASE ~Full(call[p].lane)
    <3>1. /\ call' = [call EXCEPT ![p].at = "zero"] /\ call[p].at = "test"
          /\ UNCHANGED <<writeLock, ring, head, tail, submitted, sender, frame, copy,
                          s_botshubSavedIndex>>
      BY <1>3, <2>2 DEF EnqueueTests, At, Goes
    <3>2. head[call[p].lane] - tail[call[p].lane] < RingSize BY <2>2 DEF Full
    <3> QED BY <3>1, <3>2
  <2> QED BY <2>1, <2>2
<1>4. ASSUME NEW p \in Producers, EnqueueZeroes(p) PROVE RingsInv'
  <2>1. ring' \in [Lanes -> [Slots -> [fn : BOOLEAN, args : Tasks \cup {None}]]]
    BY <1>4 DEF EnqueueZeroes, At
  <2>2. /\ call[p].at \in Holding /\ call' = [call EXCEPT ![p].at = "fill"]
        /\ call[p].at \in {"zero", "fill"}
        /\ UNCHANGED <<head, tail, writeLock, submitted, sender, frame, copy,
                        s_botshubSavedIndex>>
    BY <1>4 DEF EnqueueZeroes, At, Goes
  <2> QED BY <2>1, <2>2
<1>5. ASSUME NEW p \in Producers, EnqueueFills(p) PROVE RingsInv'
  <2>1. ring' \in [Lanes -> [Slots -> [fn : BOOLEAN, args : Tasks \cup {None}]]]
    BY <1>5 DEF EnqueueFills, At
  <2>2. /\ call[p].at \in Holding /\ call' = [call EXCEPT ![p].at = "publish"]
        /\ call[p].at \in {"zero", "fill"}
        /\ UNCHANGED <<head, tail, writeLock, submitted, sender, frame, copy,
                        s_botshubSavedIndex>>
    BY <1>5 DEF EnqueueFills, At, Goes
  <2> QED BY <2>1, <2>2
<1>6. ASSUME NEW p \in Producers, EnqueuePublishes(p) PROVE RingsInv'
  <2> DEFINE l == call[p].lane
  <2>1. /\ call[p].at = "publish" /\ l \in Lanes
        /\ head' = [head EXCEPT ![l] = head[l] + 1]
        /\ call' = [call EXCEPT ![p].at = "unlock"]
        /\ UNCHANGED <<ring, tail, writeLock, submitted, sender, frame, copy, s_botshubSavedIndex>>
    BY <1>6 DEF EnqueuePublishes, At, Goes
  <2>2. RingBounded'
    <3>1. head[l] - tail[l] < RingSize BY <2>1
    <3>2. \A q \in Producers : call'[q].at \in {"zero", "fill", "publish"} => call'[q].lane # l
      BY <2>1
    <3>3. ASSUME NEW m \in Lanes PROVE tail'[m] <= head'[m] /\ head'[m] - tail'[m] <= RingSize
      <4>1. CASE m = l BY <2>1, <3>1, <4>1
      <4>2. CASE m # l BY <2>1, <4>2
      <4> QED BY <4>1, <4>2
    <3>4. ASSUME NEW q \in Producers, call'[q].at \in {"zero", "fill", "publish"}
          PROVE  head'[call'[q].lane] - tail'[call'[q].lane] < RingSize
      <4>1. q # p BY <2>1, <3>4
      <4>2. call'[q] = call[q] /\ call[q].lane # l /\ call[q].lane \in Lanes
        BY <2>1, <3>2, <3>4, <4>1
      <4> QED BY <2>1, <3>4, <4>2
    <3> QED BY <3>3, <3>4
  <2>3. RingsTyped'
    <3>1. head' \in [Lanes -> Nat] BY <2>1
    <3>2. call' \in [Producers -> [at : {"idle", "spin"} \cup Holding, lane : Lanes,
                                   task : Tasks \cup {None}]]
      <4>1. PICK r \in [at : {"idle", "spin"} \cup Holding, lane : Lanes, task : Tasks \cup {None}] :
               r = call[p]
        OBVIOUS
      <4>2. [r EXCEPT !.at = "unlock"]
               \in [at : {"idle", "spin"} \cup Holding, lane : Lanes, task : Tasks \cup {None}]
        OBVIOUS
      <4> QED BY <2>1, <4>1, <4>2
    <3> QED BY <2>1, <3>1, <3>2
  <2>5. OneHolder' BY <2>1
  <2>6. CallsTyped' BY <2>1
  <2>4. ConsumersInWindow'
    <3> DEFINE Ahead(m) == tail[m] < head[m]
    <3>1. \A m \in Lanes : Ahead(m) => tail'[m] < head'[m]
      BY <2>1
    <3> QED BY <2>1, <3>1 DEF Lanes
  <2> QED BY <2>2, <2>3, <2>4, <2>5, <2>6
<1>7. ASSUME NEW p \in Producers, EnqueueUnlocks(p) PROVE RingsInv'
  BY <1>7 DEF EnqueueUnlocks, At, NoCall, Lanes
<1>8. CASE SenderWakes \/ SenderTests
  <2>1. /\ UNCHANGED <<ring, head, tail, producerVars, frame, copy, s_botshubSavedIndex>>
        /\ sender' \notin {"copy", "advance"} \/ (sender' = "copy" /\ tail["packet"] # head["packet"])
    BY <1>8 DEF SenderWakes, SenderTests
  <2>2. tail["packet"] # head["packet"] => tail["packet"] < head["packet"] BY <1>0 DEF Lanes
  <2> QED BY <2>1, <2>2 DEF producerVars
<1>9. CASE SenderCopies
  <2>1. TailSlot("packet").args \in Tasks \cup {None}
    BY IndexIsSlot DEF TailSlot, Lanes
  <2> QED BY <1>9, <2>1 DEF SenderCopies, producerVars
<1>10. CASE SenderAdvances
  <2>1. tail' = [tail EXCEPT !["packet"] = tail["packet"] + 1] /\ tail["packet"] < head["packet"]
        /\ UNCHANGED <<ring, head, producerVars, frame, copy, s_botshubSavedIndex>> /\ sender' = "sending"
    BY <1>10 DEF SenderAdvances
  <2> QED BY <2>1 DEF producerVars, Lanes
<1>11. CASE SenderSends
  BY <1>11 DEF SenderSends, producerVars
<1>12. CASE FrameDefers \/ FrameEnters
  BY <1>12 DEF FrameDefers, FrameEnters, producerVars
<1>13. CASE BotshubDispatch
  <2>1. CASE tail["botshub"] = head["botshub"] \/ ~TailSlot("botshub").fn
    BY <1>13, <2>1 DEF BotshubDispatch, producerVars
  <2>2. CASE tail["botshub"] # head["botshub"] /\ TailSlot("botshub").fn
    <3>1. /\ frame' = "running" /\ s_botshubSavedIndex' = tail["botshub"]
          /\ ring' = [ring EXCEPT !["botshub"][Index(tail["botshub"])].fn = FALSE]
          /\ tail' = tail
          /\ UNCHANGED <<head, producerVars, sender, copy>>
      BY <1>13, <2>2 DEF BotshubDispatch, TailDuringRun
    <3>2. ring' \in [Lanes -> [Slots -> [fn : BOOLEAN, args : Tasks \cup {None}]]]
      <4>1. PICK i \in Slots : i = Index(tail["botshub"]) BY IndexIsSlot DEF Lanes
      <4>2. ring' = [ring EXCEPT !["botshub"] = [ring["botshub"] EXCEPT
                        ![i] = [ring["botshub"][i] EXCEPT !.fn = FALSE]]]
        BY <3>1, <4>1
      <4>3. ring["botshub"] \in [Slots -> [fn : BOOLEAN, args : Tasks \cup {None}]] BY DEF Lanes
      <4>4. [ring["botshub"][i] EXCEPT !.fn = FALSE] \in [fn : BOOLEAN, args : Tasks \cup {None}]
        <5>1. PICK r \in [fn : BOOLEAN, args : Tasks \cup {None}] : r = ring["botshub"][i]
          BY <4>3
        <5>2. [r EXCEPT !.fn = FALSE] \in [fn : BOOLEAN, args : Tasks \cup {None}]
          OBVIOUS
        <5> QED BY <5>1, <5>2
      <4>5. [ring["botshub"] EXCEPT ![i] = [ring["botshub"][i] EXCEPT !.fn = FALSE]]
               \in [Slots -> [fn : BOOLEAN, args : Tasks \cup {None}]]
        BY <4>3, <4>4
      <4> QED BY <4>2, <4>5
    <3>3. tail["botshub"] < head["botshub"] BY <1>0, <2>2 DEF Lanes
    <3> QED BY <3>1, <3>2, <3>3 DEF producerVars
  <2> QED BY <2>1, <2>2
<1>14. CASE BotshubReturns
  <2>1. tail' = [tail EXCEPT !["botshub"] = tail["botshub"] + 1] /\ tail["botshub"] < head["botshub"]
        /\ UNCHANGED <<ring, head, producerVars, sender, copy, s_botshubSavedIndex>> /\ frame' = "out"
    BY <1>14 DEF BotshubReturns, TailAfterRun, Lanes
  <2> QED BY <2>1 DEF producerVars, Lanes
<1>15. CASE CommandCopies
  <2>1. TailSlot("game").args \in Tasks \cup {None}
    BY IndexIsSlot DEF TailSlot, Lanes
  <2>2. tail["game"] # head["game"] => tail["game"] < head["game"] BY <1>0 DEF Lanes
  <2>3. copy' \in [Lanes -> Tasks \cup {None}] BY <1>15, <2>1 DEF CommandCopies
  <2>4. /\ UNCHANGED <<ring, head, tail, producerVars, sender, s_botshubSavedIndex>>
        /\ frame' = "out" \/ (frame' = "advance" /\ tail["game"] # head["game"])
    BY <1>15 DEF CommandCopies
  <2> QED BY <2>2, <2>3, <2>4 DEF producerVars
<1>16. CASE CommandAdvances
  <2>1. tail' = [tail EXCEPT !["game"] = tail["game"] + 1] /\ tail["game"] < head["game"]
        /\ UNCHANGED <<ring, head, producerVars, sender, copy, s_botshubSavedIndex>> /\ frame' = "calling"
    BY <1>16 DEF CommandAdvances
  <2> QED BY <2>1 DEF producerVars, Lanes
<1>17. CASE CommandReturns
  BY <1>17 DEF CommandReturns, producerVars
<1>18. CASE UNCHANGED vars
  BY <1>18 DEF vars, producerVars
<1> QED BY <1>1, <1>2, <1>3, <1>4, <1>5, <1>6, <1>7, <1>8, <1>9, <1>10, <1>11, <1>12, <1>13,
           <1>14, <1>15, <1>16, <1>17, <1>18 DEF Next, Producer, SenderThread, InFrame

\* The locks of CtoS.cpp keep two producers off one slot, no ring holds more than
\* RingSize tasks, and the index a botshub command returns to is the one it left.
THEOREM RingsHold == Spec => []RingsInv
<1>1. Init => RingsInv
  BY RingAssumption, NoneAssumption
  DEF Init, RingsInv, RingsTyped, OneHolder, RingBounded, CallsTyped, ConsumersInWindow, Empty, NoCall, Lanes, Holding
<1> QED BY <1>1, RingsKept, PTL DEF Spec

-----------------------------------------------------------------------------
(* What the slots hold.                                                     *)

\* The indices of the published tasks that no consumer has finished with, and
\* the task in the slot of an index.
Window(l) == tail[l] .. head[l] - 1
Args(l, i) == ring[l][Index(i)].args

\* Published slots hold tasks; so do the places tasks are copied to.
WindowHoldsTasks == \A l \in Lanes : \A i \in Window(l) : Args(l, i) \in Tasks

FilledSlot ==
    \A p \in Producers : call[p].at = "publish" => Args(call[p].lane, head[call[p].lane]) = call[p].task

CopiedOut ==
    /\ sender = "advance" => copy["packet"] = Args("packet", tail["packet"])
    /\ sender = "sending" => copy["packet"] \in Tasks
    /\ frame = "advance" => copy["game"] = Args("game", tail["game"])
    /\ frame = "calling" => copy["game"] \in Tasks

LogTyped == log \in [Lanes -> Seq([task : Tasks, via : Lanes])]

ContentInv == WindowHoldsTasks /\ FilledSlot /\ CopiedOut /\ LogTyped

\* No step overwrites a slot from its publication until its consumer is done,
\* nor, except for its owner's own writes, the slot that is being filled.
LEMMA SlotKept ==
    ASSUME RingsInv, Next, NEW l \in Lanes, NEW i \in Window(l)
    PROVE  Args(l, i)' = Args(l, i)
<1>1. i \in Nat /\ Index(i) \in Slots /\ tail[l] <= i /\ i < head[l] /\ head[l] \in Nat
  <2>1. tail[l] \in Nat /\ head[l] \in Nat BY DEF RingsInv, RingsTyped
  <2> QED BY <2>1, IndexIsSlot DEF Window
<1>2. ASSUME NEW p \in Producers, call[p].at \in {"zero", "fill"},
             NEW r, ring' = [ring EXCEPT ![call[p].lane][Index(head[call[p].lane])] = r]
      PROVE  Args(l, i)' = Args(l, i)
  <2>1. CASE call[p].lane # l
    BY <1>1, <1>2, <2>1 DEF Args, RingsInv, RingsTyped
  <2>2. CASE call[p].lane = l
    <3>1. head[l] - tail[l] < RingSize BY <1>2, <2>2 DEF RingsInv, RingBounded
    <3>2. tail[l] \in Nat BY DEF RingsInv, RingsTyped
    <3>3. head[l] - i < RingSize BY <1>1, <3>1, <3>2, RingAssumption
    <3>4. Index(i) # Index(head[l]) BY <1>1, <3>3, IndexApart
    <3> QED BY <1>1, <1>2, <2>2, <3>4 DEF Args, RingsInv, RingsTyped
  <2> QED BY <2>1, <2>2
<1>3. ASSUME NEW p \in Producers, EnqueueZeroes(p) \/ EnqueueFills(p)
      PROVE  Args(l, i)' = Args(l, i)
  <2>1. PICK r : ring' = [ring EXCEPT ![call[p].lane][Index(head[call[p].lane])] = r]
    BY <1>3 DEF EnqueueZeroes, EnqueueFills
  <2>2. call[p].at \in {"zero", "fill"} BY <1>3 DEF EnqueueZeroes, EnqueueFills, At
  <2> QED BY <1>2, <2>1, <2>2
<1>4. CASE BotshubDispatch
  <2>1. CASE UNCHANGED ring BY <2>1 DEF Args
  <2>2. CASE ring' = [ring EXCEPT !["botshub"][Index(tail["botshub"])].fn = FALSE]
    <3>1. ring'[l][Index(i)].args = ring[l][Index(i)].args
      BY <1>1, <2>2 DEF RingsInv, RingsTyped
    <3> QED BY <3>1 DEF Args
  <2> QED BY <1>4, <2>1, <2>2 DEF BotshubDispatch
<1>5. CASE UNCHANGED ring
  BY <1>5 DEF Args
<1>6. ASSUME NEW p \in Producers, NEW m \in Lanes, NEW t \in Tasks,
             EnqueueBegins(p, m, t) \/ EnqueueLocks(p) \/ EnqueueTests(p)
             \/ EnqueuePublishes(p) \/ EnqueueUnlocks(p)
      PROVE  UNCHANGED ring
  BY <1>6 DEF EnqueueBegins, EnqueueLocks, EnqueueTests, EnqueuePublishes, EnqueueUnlocks
<1>7. ASSUME NEW p \in Producers,
             EnqueueLocks(p) \/ EnqueueTests(p) \/ EnqueuePublishes(p) \/ EnqueueUnlocks(p)
      PROVE  UNCHANGED ring
  BY <1>7 DEF EnqueueLocks, EnqueueTests, EnqueuePublishes, EnqueueUnlocks
<1>8. SenderThread \/ FrameDefers \/ FrameEnters \/ BotshubReturns \/ CommandCopies
      \/ CommandAdvances \/ CommandReturns => UNCHANGED ring
  BY DEF SenderThread, SenderWakes, SenderTests, SenderCopies, SenderAdvances, SenderSends,
         FrameDefers, FrameEnters, BotshubReturns, CommandCopies, CommandAdvances, CommandReturns
<1> QED BY <1>3, <1>4, <1>5, <1>6, <1>7, <1>8 DEF Next, Producer, InFrame

\* The window of a lane grows by its head and shrinks by its tail only.
LEMMA WindowStep ==
    ASSUME RingsInv, Next, NEW l \in Lanes, NEW i \in Window(l)'
    PROVE  \/ i \in Window(l)
           \/ i = head[l] /\ \E p \in Producers :
                 call[p].at = "publish" /\ call[p].lane = l /\ EnqueuePublishes(p)
<1> USE DEF Window
<1>0. tail[l] \in Nat /\ head[l] \in Nat BY DEF RingsInv, RingsTyped
<1>1. CASE UNCHANGED <<head, tail>> BY <1>1
<1>2. CASE UNCHANGED head /\ \E m \in Lanes : tail' = [tail EXCEPT ![m] = tail[m] + 1]
  <2>1. head'[l] = head[l] /\ tail'[l] \in {tail[l], tail[l] + 1}
    BY <1>2 DEF RingsInv, RingsTyped
  <2> QED BY <1>0, <2>1
<1>3. ASSUME NEW p \in Producers, EnqueuePublishes(p)
      PROVE  i \in Window(l) \/ (i = head[l] /\ call[p].at = "publish" /\ call[p].lane = l)
  <2>1. call[p].at = "publish" /\ UNCHANGED tail
        /\ head' = [head EXCEPT ![call[p].lane] = head[call[p].lane] + 1]
    BY <1>3 DEF EnqueuePublishes, At
  <2>2. CASE call[p].lane = l
    <3>1. head'[l] = head[l] + 1 /\ tail'[l] = tail[l] BY <2>1, <2>2 DEF RingsInv, RingsTyped
    <3> QED BY <1>0, <2>1, <2>2, <3>1
  <2>3. CASE call[p].lane # l
    <3>1. head'[l] = head[l] /\ tail'[l] = tail[l] BY <2>1, <2>3 DEF RingsInv, RingsTyped
    <3>2. i \in tail[l] .. head[l] - 1 BY <3>1
    <3> QED BY <3>2
  <2> QED BY <2>2, <2>3
<1>4. ASSUME NEW p \in Producers, NEW m \in Lanes, NEW t \in Tasks, EnqueueBegins(p, m, t)
      PROVE  UNCHANGED <<head, tail>>
  BY <1>4 DEF EnqueueBegins
<1>5. ASSUME NEW p \in Producers, Producer(p), ~EnqueuePublishes(p)
      PROVE  UNCHANGED <<head, tail>>
  BY <1>5 DEF Producer, EnqueueLocks, EnqueueTests, EnqueueZeroes, EnqueueFills, EnqueueUnlocks
<1>6. SenderThread =>
         UNCHANGED <<head, tail>>
         \/ (UNCHANGED head /\ \E m \in Lanes : tail' = [tail EXCEPT ![m] = tail[m] + 1])
  BY DEF SenderThread, SenderWakes, SenderTests, SenderCopies, SenderAdvances, SenderSends, Lanes
<1>7. FrameDefers \/ FrameEnters \/ BotshubDispatch \/ CommandCopies \/ CommandReturns
         => UNCHANGED <<head, tail>>
  <2>1. BotshubDispatch => UNCHANGED <<head, tail>>
    <3>1. BotshubDispatch => tail' \in {tail, [tail EXCEPT !["botshub"] = tail["botshub"]]} /\ UNCHANGED head
      BY DEF BotshubDispatch, TailDuringRun
    <3>2. [tail EXCEPT !["botshub"] = tail["botshub"]] = tail BY DEF RingsInv, RingsTyped
    <3> QED BY <3>1, <3>2
  <2> QED BY <2>1 DEF FrameDefers, FrameEnters, CommandCopies, CommandReturns
<1>8. CommandAdvances =>
         UNCHANGED head /\ \E m \in Lanes : tail' = [tail EXCEPT ![m] = tail[m] + 1]
  BY DEF CommandAdvances, Lanes
<1>9. BotshubReturns =>
         UNCHANGED head /\ \E m \in Lanes : tail' = [tail EXCEPT ![m] = tail[m] + 1]
  <2> SUFFICES ASSUME BotshubReturns
               PROVE  UNCHANGED head /\ tail' = [tail EXCEPT !["botshub"] = tail["botshub"] + 1]
      BY DEF Lanes
  <2>1. s_botshubSavedIndex = tail["botshub"] BY DEF BotshubReturns, RingsInv, ConsumersInWindow
  <2> QED BY <2>1 DEF BotshubReturns, TailAfterRun
<1> QED BY <1>1, <1>2, <1>3, <1>4, <1>5, <1>6, <1>7, <1>8, <1>9 DEF Next, InFrame

\* A window starts at the tail.
LEMMA TailInWindow ==
    ASSUME RingsInv, NEW l \in Lanes, tail[l] < head[l]
    PROVE  tail[l] \in Window(l)
BY DEF RingsInv, RingsTyped, Window

\* The log grows by a record of the lane's own.
LEMMA RanKeepsType ==
    ASSUME LogTyped, NEW l \in Lanes, NEW t \in Tasks, Ran(l, t)
    PROVE  LogTyped'
<1>1. log[l] \in Seq([task : Tasks, via : Lanes]) BY DEF LogTyped
<1>2. [task |-> t, via |-> l] \in [task : Tasks, via : Lanes] OBVIOUS
<1>3. Append(log[l], [task |-> t, via |-> l]) \in Seq([task : Tasks, via : Lanes])
  BY <1>1, <1>2
<1> QED BY <1>3 DEF Ran, LogTyped

\* Every task in a window stays a task: nobody writes a published slot.
LEMMA WindowKept == RingsInv /\ ContentInv /\ Next => WindowHoldsTasks'
<1> SUFFICES ASSUME RingsInv, ContentInv, Next, NEW l \in Lanes, NEW i \in Window(l)'
             PROVE  Args(l, i)' \in Tasks
    BY DEF WindowHoldsTasks
<1>1. CASE i \in Window(l)
  <2>1. Args(l, i)' = Args(l, i) BY <1>1, SlotKept
  <2> QED BY <1>1, <2>1 DEF ContentInv, WindowHoldsTasks
<1>2. ASSUME i = head[l], NEW p \in Producers, call[p].at = "publish", call[p].lane = l,
             EnqueuePublishes(p)
      PROVE  Args(l, i)' \in Tasks
  <2>1. Args(l, i) = call[p].task BY <1>2 DEF ContentInv, FilledSlot
  <2>2. call[p].task \in Tasks BY <1>2 DEF RingsInv, CallsTyped
  <2>3. UNCHANGED ring BY <1>2 DEF EnqueuePublishes
  <2> QED BY <2>1, <2>2, <2>3 DEF Args
<1> QED BY <1>1, <1>2, WindowStep

\* What a producer has filled stays until it publishes it.
LEMMA FilledKept == RingsInv /\ ContentInv /\ Next => FilledSlot'
<1> SUFFICES ASSUME RingsInv, ContentInv, Next, NEW q \in Producers, call'[q].at = "publish",
                    NEW l, l = call'[q].lane, NEW h, h = head'[l]
             PROVE  Args(l, h)' = call'[q].task
    BY DEF FilledSlot
<1> USE DEF RingsInv, RingsTyped
<1>1. CASE EnqueueFills(q)
  <2>1. /\ call[q].lane = l /\ l \in Lanes /\ call'[q].task = call[q].task /\ h = head[l]
        /\ ring' = [ring EXCEPT ![l][Index(h)] = [fn |-> TRUE, args |-> call[q].task]]
    BY <1>1 DEF EnqueueFills, Goes
  <2>2. Index(h) \in Slots BY <2>1, IndexIsSlot
  <2>3. ring'[l][Index(h)] = [fn |-> TRUE, args |-> call[q].task] BY <2>1, <2>2
  <2> QED BY <2>1, <2>3 DEF Args
<1>2. CASE call[q].at = "publish" /\ call'[q] = call[q]
  <2>1. l \in Lanes /\ l = call[q].lane BY <1>2
  <2>2. head[l] \in Nat /\ Index(head[l]) \in Slots BY <2>1, IndexIsSlot
  <2>3. Args(l, head[l]) = call[q].task BY <1>2, <2>1 DEF ContentInv, FilledSlot
  <2>4. ASSUME NEW p \in Producers, call[p].at \in Holding, p # q PROVE call[p].lane # l
    BY <1>2, <2>1, <2>4 DEF OneHolder, Holding
  <2>5. CASE UNCHANGED <<ring, head>>
    BY <1>2, <2>1, <2>3, <2>5 DEF Args
  <2>6. ASSUME NEW p \in Producers, EnqueueZeroes(p) \/ EnqueueFills(p)
        PROVE  Args(l, h)' = call'[q].task
    <3>1. p # q BY <1>2, <2>6 DEF EnqueueZeroes, EnqueueFills, At
    <3>2. call[p].lane # l /\ call[p].lane \in Lanes
      BY <2>4, <2>6, <3>1 DEF EnqueueZeroes, EnqueueFills, At, Holding
    <3>3. PICK r : ring' = [ring EXCEPT ![call[p].lane][Index(head[call[p].lane])] = r]
      BY <2>6 DEF EnqueueZeroes, EnqueueFills
    <3>4. ring'[l] = ring[l] BY <2>1, <3>2, <3>3
    <3>5. UNCHANGED head BY <2>6 DEF EnqueueZeroes, EnqueueFills
    <3> QED BY <1>2, <2>3, <3>4, <3>5 DEF Args
  <2>7. ASSUME NEW p \in Producers, EnqueuePublishes(p)
        PROVE  Args(l, h)' = call'[q].task
    <3>1. p # q
      <4>1. call'[p].at = "unlock" BY <2>7 DEF EnqueuePublishes, Goes
      <4> QED BY <4>1
    <3>2. call[p].lane # l BY <2>4, <2>7, <3>1 DEF EnqueuePublishes, At, Holding
    <3>3. UNCHANGED ring /\ head'[l] = head[l]
      BY <2>1, <2>7, <3>2 DEF EnqueuePublishes
    <3> QED BY <1>2, <2>3, <3>3 DEF Args
  <2>8. CASE BotshubDispatch
    <3>1. UNCHANGED head BY <2>8 DEF BotshubDispatch
    <3>2. CASE UNCHANGED ring BY <2>5, <3>1, <3>2
    <3>3. CASE ring' = [ring EXCEPT !["botshub"][Index(tail["botshub"])].fn = FALSE]
      <4>1. ring'[l][Index(h)].args = ring[l][Index(h)].args
        BY <2>1, <2>2, <3>1, <3>3
      <4> QED BY <1>2, <2>3, <3>1, <4>1 DEF Args
    <3> QED BY <2>8, <3>2, <3>3 DEF BotshubDispatch
  <2>9. ASSUME NEW p \in Producers, NEW m \in Lanes, NEW t \in Tasks,
               EnqueueBegins(p, m, t)
        PROVE  UNCHANGED <<ring, head>>
    BY <2>9 DEF EnqueueBegins
  <2>10. ASSUME NEW p \in Producers, EnqueueLocks(p) \/ EnqueueTests(p) \/ EnqueueUnlocks(p)
         PROVE  UNCHANGED <<ring, head>>
    BY <2>10 DEF EnqueueLocks, EnqueueTests, EnqueueUnlocks
  <2>11. SenderThread \/ FrameDefers \/ FrameEnters \/ BotshubReturns \/ CommandCopies
         \/ CommandAdvances \/ CommandReturns => UNCHANGED <<ring, head>>
    BY DEF SenderThread, SenderWakes, SenderTests, SenderCopies, SenderAdvances, SenderSends,
           FrameDefers, FrameEnters, BotshubReturns, CommandCopies, CommandAdvances, CommandReturns
  <2> QED BY <2>5, <2>6, <2>7, <2>8, <2>9, <2>10, <2>11 DEF Next, Producer, InFrame
<1>3. ASSUME NEW p \in Producers, p # q, NEW m \in Lanes, NEW t \in Tasks,
             EnqueueBegins(p, m, t)
      PROVE  call'[q] = call[q]
  BY <1>3 DEF EnqueueBegins
<1>4. ASSUME NEW p \in Producers, p # q, Producer(p)
      PROVE  call'[q] = call[q]
  BY <1>4 DEF Producer, EnqueueLocks, EnqueueTests, EnqueueZeroes, EnqueueFills,
              EnqueuePublishes, EnqueueUnlocks, Goes
<1>5. ASSUME NEW m \in Lanes, NEW t \in Tasks, EnqueueBegins(q, m, t) PROVE FALSE
  BY <1>5 DEF EnqueueBegins
<1>6. ASSUME Producer(q) PROVE EnqueueFills(q)
  BY <1>6 DEF Producer, EnqueueLocks, EnqueueTests, EnqueueZeroes,
              EnqueuePublishes, EnqueueUnlocks, Goes, NoCall
<1>7. SenderThread \/ FrameDefers \/ FrameEnters \/ InFrame => UNCHANGED call
  BY DEF SenderThread, SenderWakes, SenderTests, SenderCopies, SenderAdvances, SenderSends, InFrame,
         FrameDefers, FrameEnters, BotshubDispatch, BotshubReturns, CommandCopies, CommandAdvances,
         CommandReturns, producerVars
<1> QED BY <1>1, <1>2, <1>3, <1>4, <1>5, <1>6, <1>7 DEF Next

\* A copied task is the one in the slot, whatever the producers do meanwhile.
LEMMA CopiedKept == RingsInv /\ ContentInv /\ Next => CopiedOut' /\ LogTyped'
<1> SUFFICES ASSUME RingsInv, ContentInv, Next PROVE CopiedOut' /\ LogTyped' OBVIOUS
<1>0. "packet" \in Lanes /\ "game" \in Lanes /\ "botshub" \in Lanes BY DEF Lanes
<1>1. ASSUME NEW l \in Lanes, tail[l] < head[l] PROVE Args(l, tail[l]) \in Tasks
  BY <1>1, TailInWindow DEF ContentInv, WindowHoldsTasks
<1>2. ASSUME NEW l \in Lanes, NEW i, i = tail[l], tail[l] < head[l] PROVE Args(l, i)' = Args(l, i)
  <2>1. i \in Window(l) BY <1>2, TailInWindow
  <2> QED BY <2>1, SlotKept
<1>3. PICK i, j : i = tail["packet"] /\ j = tail["game"] OBVIOUS
<1>4. sender = "advance" => Args("packet", i)' = copy["packet"]
  BY <1>0, <1>2, <1>3 DEF ContentInv, CopiedOut, RingsInv, ConsumersInWindow
<1>5. frame = "advance" => Args("game", j)' = copy["game"]
  BY <1>0, <1>2, <1>3 DEF ContentInv, CopiedOut, RingsInv, ConsumersInWindow
<1> USE DEF ContentInv, CopiedOut
<1>6. CASE UNCHANGED <<sender, frame, copy, log, tail>>
  BY <1>3, <1>4, <1>5, <1>6 DEF LogTyped
<1>7. ASSUME NEW p \in Producers,
             Producer(p) \/ \E m \in Lanes, t \in Tasks : EnqueueBegins(p, m, t)
      PROVE  UNCHANGED <<sender, frame, copy, log, tail>>
  BY <1>7 DEF Producer, EnqueueBegins, EnqueueLocks, EnqueueTests, EnqueueZeroes, EnqueueFills,
              EnqueuePublishes, EnqueueUnlocks
<1>8. CASE SenderWakes \/ SenderTests
  <2>1. sender' \notin {"advance", "sending"} /\ UNCHANGED <<frame, copy, log, tail>>
    BY <1>8 DEF SenderWakes, SenderTests
  <2> QED BY <1>3, <1>5, <2>1 DEF LogTyped
<1>9. CASE SenderCopies
  <2>1. /\ sender' = "advance" /\ copy'["packet"] = Args("packet", i) /\ copy'["game"] = copy["game"]
        /\ UNCHANGED <<frame, tail, log, ring>>
    BY <1>0, <1>3, <1>9 DEF SenderCopies, TailSlot, Args, RingsInv, RingsTyped
  <2>2. Args("packet", i)' = Args("packet", i) BY <2>1 DEF Args
  <2> QED BY <1>3, <1>5, <2>1, <2>2 DEF LogTyped
<1>10. CASE SenderAdvances
  <2>1. /\ sender = "advance" /\ sender' = "sending" /\ UNCHANGED <<frame, copy, log>>
        /\ tail'["game"] = tail["game"]
    BY <1>0, <1>10 DEF SenderAdvances, RingsInv, RingsTyped
  <2>2. copy["packet"] \in Tasks
    BY <1>0, <1>1, <2>1 DEF RingsInv, ConsumersInWindow
  <2> QED BY <1>3, <1>5, <2>1, <2>2 DEF LogTyped
<1>11. CASE SenderSends
  <2>1. /\ sender = "sending" /\ sender' = "test" /\ UNCHANGED <<frame, tail>>
        /\ Ran("packet", copy["packet"]) /\ copy'["game"] = copy["game"]
    BY <1>0, <1>11 DEF SenderSends, RingsInv, RingsTyped
  <2>2. LogTyped' BY <1>0, <2>1, RanKeepsType
  <2> QED BY <1>3, <1>5, <2>1, <2>2
<1>12. CASE FrameDefers \/ FrameEnters \/ BotshubDispatch
  <2>1. frame' \notin {"advance", "calling"} /\ UNCHANGED <<sender, copy, log>> /\ tail'["packet"] = tail["packet"]
    BY <1>0, <1>12 DEF FrameDefers, FrameEnters, BotshubDispatch, RingsInv, RingsTyped
  <2> QED BY <1>3, <1>4, <2>1 DEF LogTyped
<1>13. CASE BotshubReturns
  <2>1. /\ frame = "running" /\ frame' = "out" /\ UNCHANGED <<sender, copy>>
        /\ tail'["packet"] = tail["packet"] /\ Ran("botshub", RunningSlot.args)
    BY <1>0, <1>13 DEF BotshubReturns, RingsInv, RingsTyped
  <2>2. RunningSlot.args \in Tasks
    BY <1>0, <1>1, <2>1 DEF RunningSlot, Args, RingsInv, ConsumersInWindow
  <2>3. LogTyped' BY <1>0, <2>1, <2>2, RanKeepsType
  <2> QED BY <1>3, <1>4, <2>1, <2>3
<1>14. CASE CommandCopies
  <2>1. UNCHANGED <<sender, tail, log, ring>> /\ copy'["packet"] = copy["packet"]
    BY <1>0, <1>14 DEF CommandCopies, RingsInv, RingsTyped
  <2>2. frame' = "out" \/ (frame' = "advance" /\ copy'["game"] = Args("game", j))
    BY <1>0, <1>3, <1>14 DEF CommandCopies, TailSlot, Args, RingsInv, RingsTyped
  <2>3. Args("game", j)' = Args("game", j) BY <2>1 DEF Args
  <2> QED BY <1>3, <1>4, <2>1, <2>2, <2>3 DEF LogTyped
<1>15. CASE CommandAdvances
  <2>1. /\ frame = "advance" /\ frame' = "calling" /\ UNCHANGED <<sender, copy, log>>
        /\ tail'["packet"] = tail["packet"]
    BY <1>0, <1>15 DEF CommandAdvances, RingsInv, RingsTyped
  <2>2. copy["game"] \in Tasks
    BY <1>0, <1>1, <2>1 DEF RingsInv, ConsumersInWindow
  <2> QED BY <1>3, <1>4, <2>1, <2>2 DEF LogTyped
<1>16. CASE CommandReturns
  <2>1. /\ frame = "calling" /\ frame' = "out" /\ UNCHANGED <<sender, tail>>
        /\ Ran("game", copy["game"]) /\ copy'["packet"] = copy["packet"]
    BY <1>0, <1>16 DEF CommandReturns, RingsInv, RingsTyped
  <2>2. LogTyped' BY <1>0, <2>1, RanKeepsType
  <2> QED BY <1>3, <1>4, <2>1, <2>2
<1> QED BY <1>6, <1>7, <1>8, <1>9, <1>10, <1>11, <1>12, <1>13, <1>14, <1>15, <1>16
           DEF Next, SenderThread, InFrame

\* What the slots and the copies hold, throughout.
LEMMA ContentHolds == Spec => []ContentInv
<1>1. Init => ContentInv
  <2> SUFFICES ASSUME Init PROVE ContentInv OBVIOUS
  <2>1. \A l \in Lanes : Window(l) = {} BY DEF Init, Window
  <2>2. LogTyped BY DEF Init, LogTyped
  <2>3. CopiedOut /\ FilledSlot BY DEF Init, CopiedOut, FilledSlot, NoCall
  <2> QED BY <2>1, <2>2, <2>3 DEF ContentInv, WindowHoldsTasks
<1>2. RingsInv /\ ContentInv /\ [Next]_vars => ContentInv'
  <2>1. RingsInv /\ ContentInv /\ Next => ContentInv'
    BY WindowKept, FilledKept, CopiedKept DEF ContentInv
  <2>2. ContentInv /\ UNCHANGED vars => ContentInv'
    BY DEF vars, producerVars, ContentInv, WindowHoldsTasks, Window, Args, FilledSlot, CopiedOut, LogTyped
  <2> QED BY <2>1, <2>2
<1> QED BY <1>1, <1>2, RingsHold, PTL DEF Spec

-----------------------------------------------------------------------------
(* Every task is accepted once.                                             *)

\* Task t waits in lane l, has been copied out of it, or has run.
Seen(l, t) ==
    \/ \E i \in Window(l) : Args(l, i) = t
    \/ copy[l] = t
    \/ \E n \in DOMAIN log[l] : log[l][n].task = t

\* The producer is in a call whose task it has not published.
Unpublished(p) == call[p].at \notin {"idle", "unlock"}

\* A lane has only seen tasks that were submitted, none that is still in a call.
TasksOnce ==
    /\ \A l \in Lanes, t \in Tasks : Seen(l, t) => t \in submitted
    /\ \A p \in Producers : Unpublished(p) =>
          call[p].task \in submitted /\ \A l \in Lanes : ~Seen(l, call[p].task)
    /\ \A p, q \in Producers :
          Unpublished(p) /\ Unpublished(q) /\ call[p].task = call[q].task => p = q

\* A lane comes to see a task only by its publication.
LEMMA SeenStep ==
    ASSUME RingsInv, ContentInv, Next, NEW l \in Lanes, NEW t \in Tasks, Seen(l, t)'
    PROVE  Seen(l, t) \/ \E p \in Producers :
              EnqueuePublishes(p) /\ call[p].at = "publish" /\ call[p].lane = l /\ call[p].task = t
<1>0. "packet" \in Lanes /\ "game" \in Lanes /\ "botshub" \in Lanes BY DEF Lanes
<1>1. ASSUME NEW i \in Window(l)', Args(l, i)' = t
      PROVE  Seen(l, t) \/ \E p \in Producers :
                EnqueuePublishes(p) /\ call[p].at = "publish" /\ call[p].lane = l /\ call[p].task = t
  <2>1. CASE i \in Window(l)
    <3>1. Args(l, i) = t BY <1>1, <2>1, SlotKept
    <3> QED BY <2>1, <3>1 DEF Seen
  <2>2. ASSUME i = head[l], NEW p \in Producers, call[p].at = "publish", call[p].lane = l,
               EnqueuePublishes(p)
        PROVE  call[p].task = t
    <3>1. Args(l, i) = call[p].task BY <2>2 DEF ContentInv, FilledSlot
    <3>2. UNCHANGED ring BY <2>2 DEF EnqueuePublishes
    <3> QED BY <1>1, <3>1, <3>2 DEF Args
  <2> QED BY <2>1, <2>2, WindowStep
\* What the slot at the tail of a ring that is not empty holds has been seen.
<1>2. ASSUME NEW m \in Lanes, tail[m] < head[m] PROVE Seen(m, Args(m, tail[m]))
  BY <1>2, TailInWindow DEF Seen
<1>3. ASSUME copy'[l] = t PROVE Seen(l, t)
  <2>1. CASE copy'[l] = copy[l] BY <1>3, <2>1 DEF Seen
  <2>2. CASE SenderCopies
    <3>1. tail["packet"] < head["packet"] BY <2>2 DEF SenderCopies, RingsInv, ConsumersInWindow
    <3>2. copy' = [copy EXCEPT !["packet"] = Args("packet", tail["packet"])]
      BY <2>2 DEF SenderCopies, TailSlot, Args
    <3>3. CASE l = "packet"
      BY <1>0, <1>2, <1>3, <3>1, <3>2, <3>3 DEF RingsInv, RingsTyped
    <3>4. CASE l # "packet"
      BY <2>1, <3>2, <3>4 DEF RingsInv, RingsTyped
    <3> QED BY <3>3, <3>4
  <2>3. CASE CommandCopies
    <3>1. CASE UNCHANGED copy BY <2>1, <3>1
    <3>2. CASE tail["game"] # head["game"]
      <4>1. tail["game"] < head["game"]
        <5>1. /\ tail["game"] \in Nat /\ head["game"] \in Nat
              /\ tail["game"] <= head["game"]
          BY <1>0 DEF RingsInv, RingsTyped, RingBounded
        <5> QED BY <3>2, <5>1
      <4>2. copy' = [copy EXCEPT !["game"] = Args("game", tail["game"])]
        BY <2>3, <3>2 DEF CommandCopies, TailSlot, Args
      <4>3. CASE l = "game"
        BY <1>0, <1>2, <1>3, <4>1, <4>2, <4>3 DEF RingsInv, RingsTyped
      <4>4. CASE l # "game"
        BY <2>1, <4>2, <4>4 DEF RingsInv, RingsTyped
      <4> QED BY <4>3, <4>4
    <3> QED BY <2>3, <3>1, <3>2 DEF CommandCopies
  <2>4. CASE \E m \in Lanes : copy' = [copy EXCEPT ![m] = None]
    BY <1>3, <2>1, <2>4, NoneAssumption DEF RingsInv, RingsTyped
  <2>5. CASE UNCHANGED copy BY <2>1, <2>5
  <2>6. ASSUME NEW p \in Producers,
               Producer(p) \/ \E m \in Lanes, u \in Tasks : EnqueueBegins(p, m, u)
        PROVE  UNCHANGED copy
    BY <2>6 DEF Producer, EnqueueBegins, EnqueueLocks, EnqueueTests, EnqueueZeroes, EnqueueFills,
                EnqueuePublishes, EnqueueUnlocks
  <2>7. SenderThread => SenderCopies \/ UNCHANGED copy \/ copy' = [copy EXCEPT !["packet"] = None]
    BY DEF SenderThread, SenderWakes, SenderTests, SenderAdvances, SenderSends
  <2>8. FrameDefers \/ FrameEnters \/ InFrame
           => CommandCopies \/ UNCHANGED copy \/ copy' = [copy EXCEPT !["game"] = None]
    BY DEF FrameDefers, FrameEnters, InFrame, BotshubDispatch, BotshubReturns, CommandAdvances,
           CommandReturns
  <2> QED BY <1>0, <2>2, <2>3, <2>4, <2>5, <2>6, <2>7, <2>8 DEF Next
<1>4. ASSUME NEW n \in DOMAIN log'[l], log'[l][n].task = t PROVE Seen(l, t)
  <2>1. CASE log'[l] = log[l] BY <1>4, <2>1 DEF Seen
  <2>2. ASSUME NEW m \in Lanes, NEW u, Ran(m, u), Seen(m, u) PROVE Seen(l, t)
    <3>1. log' = [log EXCEPT ![m] = Append(log[m], [task |-> u, via |-> m])] BY <2>2 DEF Ran
    <3>2. log[m] \in Seq([task : Tasks, via : Lanes]) BY DEF ContentInv, LogTyped
    <3>3. CASE l # m BY <2>1, <3>1, <3>3 DEF ContentInv, LogTyped
    <3>4. CASE l = m
      <4>1. log'[l] = Append(log[l], [task |-> u, via |-> l]) BY <3>1, <3>4 DEF ContentInv, LogTyped
      <4>2. (n \in DOMAIN log[l] /\ log'[l][n] = log[l][n]) \/ log'[l][n] = [task |-> u, via |-> l]
        BY <1>4, <3>2, <3>4, <4>1
      <4>3. CASE n \in DOMAIN log[l] /\ log'[l][n] = log[l][n] BY <1>4, <4>3 DEF Seen
      <4>4. CASE log'[l][n] = [task |-> u, via |-> l] BY <1>4, <2>2, <3>4, <4>4
      <4> QED BY <4>2, <4>3, <4>4
    <3> QED BY <3>3, <3>4
  <2>3. CASE SenderSends
    BY <1>0, <2>2, <2>3 DEF SenderSends, Seen
  <2>4. CASE CommandReturns
    BY <1>0, <2>2, <2>4 DEF CommandReturns, Seen
  <2>5. CASE BotshubReturns
    <3>1. tail["botshub"] < head["botshub"] /\ RunningSlot.args = Args("botshub", tail["botshub"])
      BY <2>5 DEF BotshubReturns, RunningSlot, Args, RingsInv, ConsumersInWindow
    <3>2. Seen("botshub", RunningSlot.args) BY <1>0, <1>2, <3>1
    <3> QED BY <1>0, <2>2, <2>5, <3>2 DEF BotshubReturns
  <2>6. ASSUME NEW p \in Producers,
               Producer(p) \/ \E m \in Lanes, u \in Tasks : EnqueueBegins(p, m, u)
        PROVE  UNCHANGED log
    BY <2>6 DEF Producer, EnqueueBegins, EnqueueLocks, EnqueueTests, EnqueueZeroes, EnqueueFills,
                EnqueuePublishes, EnqueueUnlocks
  <2>7. SenderThread \/ FrameDefers \/ FrameEnters \/ InFrame
           => SenderSends \/ CommandReturns \/ BotshubReturns \/ UNCHANGED log
    BY DEF SenderThread, SenderWakes, SenderTests, SenderCopies, SenderAdvances, InFrame,
           FrameDefers, FrameEnters, BotshubDispatch, CommandCopies, CommandAdvances
  <2> QED BY <2>1, <2>3, <2>4, <2>5, <2>6, <2>7 DEF Next
<1> QED BY <1>1, <1>3, <1>4 DEF Seen

\* A call that has not been published has just begun, or was so before.
LEMMA CallStep ==
    ASSUME RingsInv, Next, NEW p \in Producers, Unpublished(p)'
    PROVE  \/ \E l \in Lanes, t \in Tasks : EnqueueBegins(p, l, t) /\ call'[p].task = t
           \/ Unpublished(p) /\ call'[p].task = call[p].task
<1> USE DEF RingsInv, RingsTyped, Unpublished
<1>1. ASSUME NEW q \in Producers, NEW l \in Lanes, NEW t \in Tasks, EnqueueBegins(q, l, t)
      PROVE  (q = p /\ call'[p].task = t) \/ call'[p] = call[p]
  BY <1>1 DEF EnqueueBegins
<1>2. ASSUME NEW q \in Producers, Producer(q), q # p PROVE call'[p] = call[p]
  BY <1>2 DEF Producer, EnqueueLocks, EnqueueTests, EnqueueZeroes, EnqueueFills,
              EnqueuePublishes, EnqueueUnlocks, Goes
<1>3. ASSUME Producer(p) PROVE Unpublished(p) /\ call'[p].task = call[p].task
  <2>1. CASE EnqueueTests(p)
    BY <2>1 DEF EnqueueTests, At, Goes, NoCall
  <2>2. CASE EnqueueUnlocks(p)
    BY <2>2 DEF EnqueueUnlocks, NoCall
  <2>3. CASE EnqueueLocks(p) \/ EnqueueZeroes(p) \/ EnqueueFills(p) \/ EnqueuePublishes(p)
    BY <2>3 DEF EnqueueLocks, EnqueueZeroes, EnqueueFills, EnqueuePublishes, At, Goes
  <2> QED BY <1>3, <2>1, <2>2, <2>3 DEF Producer
<1>4. SenderThread \/ FrameDefers \/ FrameEnters \/ InFrame => UNCHANGED call
  BY DEF SenderThread, SenderWakes, SenderTests, SenderCopies, SenderAdvances, SenderSends, InFrame,
         FrameDefers, FrameEnters, BotshubDispatch, BotshubReturns, CommandCopies, CommandAdvances,
         CommandReturns, producerVars
<1> QED BY <1>1, <1>2, <1>3, <1>4 DEF Next

\* A task that was handed in stays handed in.
LEMMA SubmittedGrows ==
    ASSUME Next
    PROVE  submitted \subseteq submitted'
BY DEF Next, Producer, SenderThread, SenderWakes, SenderTests, SenderCopies, SenderAdvances,
       SenderSends, InFrame, FrameDefers, FrameEnters, BotshubDispatch, BotshubReturns,
       CommandCopies, CommandAdvances, CommandReturns, producerVars, EnqueueBegins, EnqueueLocks,
       EnqueueTests, EnqueueZeroes, EnqueueFills, EnqueuePublishes, EnqueueUnlocks

\* No step lets a lane see a task a second time.
LEMMA OnceKept == RingsInv /\ ContentInv /\ TasksOnce /\ Next => TasksOnce'
<1> SUFFICES ASSUME RingsInv, ContentInv, TasksOnce, Next PROVE TasksOnce' OBVIOUS
<1>0. submitted \subseteq submitted' BY SubmittedGrows
<1>1. ASSUME NEW l \in Lanes, NEW t \in Tasks, Seen(l, t)' PROVE t \in submitted
  <2>1. CASE Seen(l, t) BY <2>1 DEF TasksOnce
  <2>2. ASSUME NEW q \in Producers, call[q].at = "publish", call[q].task = t
        PROVE  t \in submitted
    BY <2>2 DEF TasksOnce, Unpublished
  <2> QED BY <1>1, <2>1, <2>2, SeenStep
\* A call that begins has a task nobody submitted before.
<1>2. ASSUME NEW p \in Producers, NEW l \in Lanes, NEW t \in Tasks, EnqueueBegins(p, l, t)
      PROVE  t \notin submitted /\ t \in submitted'
  BY <1>2 DEF EnqueueBegins, NextTask
<1>3. ASSUME NEW p \in Producers, Unpublished(p)'
      PROVE  /\ call'[p].task \in Tasks
             /\ call'[p].task \in submitted'
             /\ \/ Unpublished(p) /\ call'[p].task = call[p].task /\ call[p].task \in submitted
                \/ /\ call'[p].task \notin submitted
                   /\ \E l \in Lanes : EnqueueBegins(p, l, call'[p].task)
  <2>1. CASE Unpublished(p) /\ call'[p].task = call[p].task
    BY <1>0, <2>1 DEF TasksOnce, RingsInv, CallsTyped, Unpublished
  <2>2. CASE \E l \in Lanes, t \in Tasks : EnqueueBegins(p, l, t) /\ call'[p].task = t
    BY <1>2, <2>2
  <2> QED BY <1>3, <2>1, <2>2, CallStep
<1>4. ASSUME NEW p \in Producers, Unpublished(p)', NEW l \in Lanes,
             NEW t, t = call'[p].task, Seen(l, t)'
      PROVE  FALSE
  <2>1. t \in Tasks /\ t \in submitted BY <1>1, <1>3, <1>4
  <2>2. Unpublished(p) /\ t = call[p].task BY <1>3, <1>4, <2>1
  <2>3. ~Seen(l, t) BY <2>2 DEF TasksOnce
  <2>4. PICK q \in Producers : EnqueuePublishes(q) /\ call[q].at = "publish" /\ call[q].task = t
    BY <1>4, <2>1, <2>3, SeenStep
  <2>5. q = p BY <2>2, <2>4 DEF TasksOnce, Unpublished
  <2>6. call'[q].at = "unlock" BY <2>4 DEF EnqueuePublishes, Goes, RingsInv, RingsTyped
  <2> QED BY <1>4, <2>5, <2>6 DEF Unpublished
<1>5. ASSUME NEW p \in Producers, NEW q \in Producers, Unpublished(p)', Unpublished(q)',
             call'[p].task = call'[q].task
      PROVE  p = q
  <2>1. CASE call'[p].task \in submitted
    BY <1>3, <1>5, <2>1 DEF TasksOnce
  <2>2. CASE call'[p].task \notin submitted
    <3>1. PICK l \in Lanes, m \in Lanes :
             EnqueueBegins(p, l, call'[p].task) /\ EnqueueBegins(q, m, call'[q].task)
      BY <1>3, <1>5, <2>2
    <3>2. call[q].at = "idle" BY <3>1 DEF EnqueueBegins, At
    <3>3. q # p => call'[q] = call[q] BY <3>1 DEF EnqueueBegins, RingsInv, RingsTyped
    <3> QED BY <1>5, <3>2, <3>3 DEF Unpublished
  <2> QED BY <2>1, <2>2
<1>6. \A l \in Lanes, t \in Tasks : Seen(l, t)' => t \in submitted' BY <1>0, <1>1
<1>7. \A p \in Producers : Unpublished(p)' => call'[p].task \in submitted' BY <1>3
<1>8. \A p \in Producers : Unpublished(p)' => (\A l \in Lanes : ~Seen(l, call[p].task))'
  <2> SUFFICES ASSUME NEW p \in Producers, Unpublished(p)', NEW t, t = call'[p].task
               PROVE  (\A l \in Lanes : ~Seen(l, t))'
      BY DEF Seen
  <2> QED BY <1>4
<1> QED BY <1>5, <1>6, <1>7, <1>8 DEF TasksOnce

-----------------------------------------------------------------------------
(* The refinement of module TaskLanes, ring by ring.                        *)

\* A sequence with one element more at its end.
LEMMA IsAppend ==
    ASSUME NEW S, NEW s \in Seq(S), NEW e \in S, NEW g \in [1 .. Len(s) + 1 -> S],
           \A k \in 1 .. Len(s) : g[k] = s[k], g[Len(s) + 1] = e
    PROVE  g = Append(s, e)
OBVIOUS

\* A sequence without its first element.
LEMMA IsTail ==
    ASSUME NEW S, NEW s \in Seq(S), s # <<>>, NEW g \in [1 .. Len(s) - 1 -> S],
           \A k \in 1 .. Len(s) - 1 : g[k] = s[k + 1]
    PROVE  g = Tail(s)
<1>1. g \in Seq(S) /\ Len(g) = Len(s) - 1 OBVIOUS
<1>2. Tail(s) \in Seq(S) /\ Len(Tail(s)) = Len(s) - 1 OBVIOUS
<1>3. \A k \in 1 .. Len(s) - 1 : Tail(s)[k] = s[k + 1] OBVIOUS
<1> QED BY <1>1, <1>2, <1>3

\* The lane of one ring, for every ring at once.
Lane(l) == INSTANCE TaskLanes WITH
    Lanes <- {l}, Capacity <- RingSize, closed <- FALSE,
    queue <- [x \in {l} |-> Waiting(x)], taken <- Taken(l), log <- log[l]

LanesInv == RingsInv /\ ContentInv /\ TasksOnce

\* The waiting tasks of a ring, as a sequence.
LEMMA WaitingIsSeq ==
    ASSUME LanesInv, NEW l \in Lanes
    PROVE  /\ First(l) \in Nat /\ head[l] \in Nat /\ First(l) <= head[l] /\ tail[l] <= First(l)
           /\ tail[l] \in Nat /\ head[l] - First(l) <= head[l] - tail[l]
           /\ \A k \in 1 .. head[l] - First(l) :
                 First(l) + k - 1 \in Window(l) /\ Waiting(l)[k] = Args(l, First(l) + k - 1)
           /\ Waiting(l) \in Seq(Tasks) /\ Len(Waiting(l)) = head[l] - First(l)
<1>1. tail[l] \in Nat /\ head[l] \in Nat /\ tail[l] <= head[l]
  BY DEF LanesInv, RingsInv, RingsTyped, RingBounded
<1>2. First(l) = tail[l] \/ (First(l) = tail[l] + 1 /\ tail[l] < head[l])
  BY DEF LanesInv, RingsInv, ConsumersInWindow, First
<1>3. /\ First(l) \in Nat /\ First(l) <= head[l] /\ tail[l] <= First(l)
      /\ head[l] - First(l) <= head[l] - tail[l]
  BY <1>1, <1>2
<1>4. PICK f \in Nat, n \in Nat : f = First(l) /\ n = head[l] - f /\ tail[l] <= f
  BY <1>1, <1>3
<1>5. \A k \in 1 .. n : f + k - 1 \in Window(l)
  BY <1>1, <1>4 DEF Window
<1>6. \A k \in 1 .. n : Args(l, f + k - 1) \in Tasks
  BY <1>5 DEF LanesInv, ContentInv, WindowHoldsTasks
<1>7. Waiting(l) = [k \in 1 .. n |-> Args(l, f + k - 1)]
  BY <1>4 DEF Waiting, Args
<1>8. Waiting(l) \in Seq(Tasks) /\ Len(Waiting(l)) = n BY <1>6, <1>7
<1> QED BY <1>1, <1>3, <1>4, <1>5, <1>7, <1>8

\* A step that moves neither end leaves the waiting tasks alone.
LEMMA WaitingSame ==
    ASSUME LanesInv, Next, NEW l \in Lanes, First(l)' = First(l), head'[l] = head[l]
    PROVE  Waiting(l)' = Waiting(l)
<1>1. PICK f, n : f = First(l) /\ n = head[l] - f OBVIOUS
<1>2. \A k \in 1 .. n : Args(l, f + k - 1)' = Args(l, f + k - 1)
  <2> SUFFICES ASSUME NEW k \in 1 .. n, NEW i, i = f + k - 1 PROVE Args(l, i)' = Args(l, i)
      OBVIOUS
  <2>1. i \in Window(l) BY <1>1, WaitingIsSeq
  <2> QED BY <2>1, SlotKept DEF LanesInv
<1>3. Waiting(l) = [k \in 1 .. n |-> Args(l, f + k - 1)] BY <1>1 DEF Waiting, Args
<1>4. Waiting(l)' = [k \in 1 .. n |-> Args(l, f + k - 1)'] BY <1>1 DEF Waiting, Args
<1> QED BY <1>2, <1>3, <1>4

\* A publication appends the task of the call.
LEMMA PublishAppends ==
    ASSUME LanesInv, Next, NEW p \in Producers, EnqueuePublishes(p),
           NEW l \in Lanes, l = call[p].lane, NEW t, t = call[p].task
    PROVE  /\ t \in Tasks /\ Len(Waiting(l)) < RingSize
           /\ Waiting(l)' = Append(Waiting(l), t)
<1>1. call[p].at = "publish" /\ head' = [head EXCEPT ![l] = head[l] + 1]
      /\ UNCHANGED <<ring, tail, frame>>
  BY DEF EnqueuePublishes, At
<1>2. t \in Tasks BY <1>1 DEF LanesInv, RingsInv, CallsTyped
<1>3. head[l] - tail[l] < RingSize BY <1>1 DEF LanesInv, RingsInv, RingBounded
<1>4. PICK f \in Nat, h \in Nat : f = First(l) /\ h = head[l] /\ f <= h
  BY WaitingIsSeq
<1>5. Waiting(l) \in Seq(Tasks) /\ Len(Waiting(l)) = h - f BY <1>4, WaitingIsSeq
<1>6. Len(Waiting(l)) < RingSize
  <2>1. tail[l] \in Nat /\ tail[l] <= f BY <1>4, WaitingIsSeq
  <2> QED BY <1>3, <1>4, <1>5, <2>1, RingAssumption
<1>7. Args(l, h) = t BY <1>1, <1>4 DEF LanesInv, ContentInv, FilledSlot
<1>8. First(l)' = f /\ head'[l] = h + 1
  BY <1>1, <1>4 DEF First, LanesInv, RingsInv, RingsTyped
<1>9. Waiting(l)' = [k \in 1 .. h + 1 - f |-> Args(l, f + k - 1)]
  BY <1>1, <1>8 DEF Waiting, Args
<1>10. \A k \in 1 .. h - f : Waiting(l)[k] = Args(l, f + k - 1) /\ Waiting(l)[k] \in Tasks
  <2>1. \A k \in 1 .. h - f : Waiting(l)[k] = Args(l, f + k - 1) BY <1>4, WaitingIsSeq
  <2>2. \A k \in 1 .. Len(Waiting(l)) : Waiting(l)[k] \in Tasks BY <1>5
  <2> QED BY <1>5, <2>1, <2>2
<1>11. \A k \in 1 .. h - f : Waiting(l)'[k] = Waiting(l)[k]
  BY <1>4, <1>9, <1>10
<1>12. Waiting(l)'[h - f + 1] = t
  <2>1. h - f + 1 \in 1 .. h + 1 - f /\ f + (h - f + 1) - 1 = h BY <1>4
  <2>2. Waiting(l)'[h - f + 1] = Args(l, f + (h - f + 1) - 1) BY <1>9, <2>1
  <2> QED BY <1>7, <2>1, <2>2
<1>13. PICK n \in Nat : n = h - f BY <1>4
<1>14. h + 1 - f = n + 1 BY <1>4, <1>13
<1>15. Waiting(l)' \in [1 .. n + 1 -> Tasks]
  <2>1. \A k \in 1 .. n + 1 : Waiting(l)'[k] \in Tasks
    BY <1>2, <1>10, <1>11, <1>12, <1>13
  <2> QED BY <1>9, <1>14, <2>1
<1> QED BY <1>2, <1>5, <1>6, <1>11, <1>12, <1>13, <1>15, IsAppend

\* Moving the first index on takes the oldest waiting task.
LEMMA FirstMovesOn ==
    ASSUME LanesInv, Next, NEW l \in Lanes, First(l)' = First(l) + 1, head'[l] = head[l],
           First(l) < head[l]
    PROVE  /\ Waiting(l) # <<>>
           /\ Head(Waiting(l)) = Args(l, First(l)) /\ Args(l, First(l)) \in Tasks
           /\ Waiting(l)' = Tail(Waiting(l))
<1>1. PICK f \in Nat, h \in Nat : f = First(l) /\ h = head[l] /\ f < h
  BY WaitingIsSeq
<1>2. PICK n \in Nat : n = h - f /\ n >= 1 BY <1>1
<1>3. Waiting(l) \in Seq(Tasks) /\ Len(Waiting(l)) = n BY <1>1, <1>2, WaitingIsSeq
<1>4. \A k \in 1 .. n : f + k - 1 \in Window(l) /\ Waiting(l)[k] = Args(l, f + k - 1)
  BY <1>1, <1>2, WaitingIsSeq
<1>5. Waiting(l) # <<>> /\ 1 \in 1 .. n BY <1>2, <1>3
<1>6. Head(Waiting(l)) = Waiting(l)[1] BY <1>3, <1>5
<1>7. f + 1 - 1 = f BY <1>1
<1>8. Waiting(l)[1] = Args(l, f) BY <1>4, <1>5, <1>7
<1>9. Waiting(l)[1] \in Tasks BY <1>3, <1>5
<1>10. \A k \in 1 .. n - 1 : Args(l, f + 1 + k - 1)' = Waiting(l)[k + 1]
  <2> SUFFICES ASSUME NEW k \in 1 .. n - 1, NEW i, i = f + 1 + k - 1
               PROVE  Args(l, i)' = Waiting(l)[k + 1]
      OBVIOUS
  <2>1. k + 1 \in 1 .. n /\ i = f + (k + 1) - 1 BY <1>1, <1>2
  <2>2. i \in Window(l) /\ Waiting(l)[k + 1] = Args(l, i) BY <1>4, <2>1
  <2> QED BY <2>2, SlotKept DEF LanesInv
<1>11. Waiting(l)' = [k \in 1 .. n - 1 |-> Args(l, f + 1 + k - 1)']
  <2>1. h - (f + 1) = n - 1 BY <1>1, <1>2
  <2> QED BY <1>1, <2>1 DEF Waiting, Args
<1>12. \A k \in 1 .. n - 1 : Waiting(l)'[k] = Waiting(l)[k + 1] /\ Waiting(l)[k + 1] \in Tasks
  <2>1. \A k \in 1 .. n - 1 : k + 1 \in 1 .. n BY <1>2
  <2> QED BY <1>3, <1>10, <1>11, <2>1
<1>13. Waiting(l)' \in [1 .. n - 1 -> Tasks] BY <1>11, <1>12
<1>14. Waiting(l)' = Tail(Waiting(l)) BY <1>3, <1>5, <1>12, <1>13, IsTail
<1> QED BY <1>1, <1>5, <1>6, <1>8, <1>9, <1>14

\* A lane none of whose parts a step moves does not see the step.
LEMMA LaneStutters ==
    ASSUME LanesInv, Next, NEW l \in Lanes, First(l)' = First(l), head'[l] = head[l],
           Taken(l)' = Taken(l), log'[l] = log[l]
    PROVE  UNCHANGED Lane(l)!lvars
<1>1. Waiting(l)' = Waiting(l) BY WaitingSame
<1> QED BY <1>1 DEF Lane!lvars

\* What the client's thread is running does not change while it runs.
LEMMA RunningKept ==
    ASSUME LanesInv, Next, frame = "running", UNCHANGED s_botshubSavedIndex
    PROVE  RunningSlot.args' = RunningSlot.args
<1>1. PICK i : i = tail["botshub"] OBVIOUS
<1>2. s_botshubSavedIndex = i /\ tail["botshub"] < head["botshub"]
  BY <1>1 DEF LanesInv, RingsInv, ConsumersInWindow
<1>3. i \in Window("botshub") BY <1>1, <1>2, TailInWindow DEF LanesInv, Lanes
<1>4. Args("botshub", i)' = Args("botshub", i) BY <1>3, SlotKept DEF LanesInv, Lanes
<1> QED BY <1>2, <1>4 DEF RunningSlot, Args

\* A step of a producer is a task accepted, or nothing, in each lane.
LEMMA ProducerStep ==
    ASSUME LanesInv, Next, NEW p \in Producers, NEW l \in Lanes,
           Producer(p) \/ \E m \in Lanes, t \in Tasks : EnqueueBegins(p, m, t)
    PROVE  [Lane(l)!Next]_(Lane(l)!lvars)
<1>1. UNCHANGED <<tail, frame, sender, copy, s_botshubSavedIndex, log>>
  BY DEF Producer, EnqueueBegins, EnqueueLocks, EnqueueTests, EnqueueZeroes, EnqueueFills,
         EnqueuePublishes, EnqueueUnlocks
<1>2. First(l)' = First(l) BY <1>1 DEF First
<1>3. Taken(l)' = Taken(l)
  <2>1. Busy(l)' = Busy(l) BY <1>1 DEF Busy
  <2>2. CASE l = "botshub" /\ Busy(l)
    <3>1. frame = "running" BY <2>2 DEF Busy
    <3>2. RunningSlot.args' = RunningSlot.args BY <1>1, <3>1, RunningKept
    <3> QED BY <2>1, <2>2, <3>2 DEF Taken
  <2>3. CASE l # "botshub" BY <1>1, <2>1, <2>3 DEF Taken
  <2>4. CASE ~Busy(l) BY <2>1, <2>4 DEF Taken
  <2> QED BY <2>2, <2>3, <2>4
<1>4. CASE head'[l] = head[l]
  <2>1. UNCHANGED Lane(l)!lvars BY <1>1, <1>2, <1>3, <1>4, LaneStutters
  <2> QED BY <2>1
<1>5. ASSUME EnqueuePublishes(p), call[p].lane = l PROVE Lane(l)!Next
  <2>1. PICK t : t = call[p].task OBVIOUS
  <2>2. t \in Tasks /\ Len(Waiting(l)) < RingSize /\ Waiting(l)' = Append(Waiting(l), t)
    BY <1>5, <2>1, PublishAppends
  <2>3. ~Seen(l, t)
    BY <1>5, <2>1 DEF EnqueuePublishes, At, LanesInv, TasksOnce, Unpublished
  <2>4. ~Lane(l)!Known(t)
    <3>1. \A k \in DOMAIN Waiting(l) : Waiting(l)[k] # t
      <4>1. \A k \in 1 .. head[l] - First(l) : Waiting(l)[k] # t
        BY <2>3, WaitingIsSeq DEF Seen
      <4> QED BY <4>1 DEF Waiting
    <3>2. Taken(l) # None => Taken(l).task # t
      <4>1. CASE l = "botshub" /\ Busy(l)
        <5>1. frame = "running" BY <4>1 DEF Busy
        <5>2. s_botshubSavedIndex = tail["botshub"] /\ tail["botshub"] \in Window("botshub")
          BY <5>1, TailInWindow DEF LanesInv, RingsInv, ConsumersInWindow, Lanes
        <5>3. RunningSlot.args # t BY <2>3, <4>1, <5>2 DEF Seen, RunningSlot, Args
        <5> QED BY <4>1, <5>3 DEF Taken
      <4>2. CASE l # "botshub" /\ Busy(l)
        BY <2>3, <4>2 DEF Taken, Seen
      <4>3. CASE ~Busy(l) BY <4>3 DEF Taken
      <4> QED BY <4>1, <4>2, <4>3
    <3>3. \A n \in DOMAIN log[l] : log[l][n].task # t BY <2>3 DEF Seen
    <3> QED BY <3>1, <3>2, <3>3 DEF Lane!Known
  <2>5. Lane(l)!Accept(l, t) BY <1>1, <1>3, <2>2, <2>4 DEF Lane!Accept
  <2> QED BY <2>2, <2>5 DEF Lane!Next, Lane!Works
<1>6. ~EnqueuePublishes(p) => UNCHANGED head
  BY DEF Producer, EnqueueBegins, EnqueueLocks, EnqueueTests, EnqueueZeroes, EnqueueFills,
         EnqueueUnlocks
<1>7. EnqueuePublishes(p) /\ call[p].lane # l => head'[l] = head[l]
  BY DEF EnqueuePublishes, LanesInv, RingsInv, RingsTyped
<1> QED BY <1>4, <1>5, <1>6, <1>7

\* A taken task of a lane is a record, never None.
LEMMA TakenIsTask ==
    ASSUME NEW l \in Lanes, Taken(l).task \in Tasks, Busy(l)
    PROVE  Taken(l) # None
<1>1. Taken(l) \in [lane : Lanes, task : Tasks] BY DEF Taken
<1> QED BY <1>1, NoneAssumption DEF Lanes

\* The packet sender: taking is moving the tail, running is PacketSend.
LEMMA SenderStep ==
    ASSUME LanesInv, Next, SenderThread, NEW l \in Lanes
    PROVE  [Lane(l)!Next]_(Lane(l)!lvars)
<1> USE DEF LanesInv, RingsInv, RingsTyped
<1>0. UNCHANGED <<head, frame, s_botshubSavedIndex, ring>>
  BY DEF SenderThread, SenderWakes, SenderTests, SenderCopies, SenderAdvances, SenderSends, producerVars
<1>1. CASE l # "packet"
  <2>1. tail'[l] = tail[l] /\ copy'[l] = copy[l] /\ log'[l] = log[l]
    BY <1>1 DEF SenderThread, SenderWakes, SenderTests, SenderCopies, SenderAdvances, SenderSends, Ran,
                ContentInv, LogTyped
  <2>2. First(l)' = First(l) BY <1>0, <2>1 DEF First
  <2>3. Taken(l)' = Taken(l)
    BY <1>0, <1>1, <2>1 DEF Taken, Busy, RunningSlot, Lanes
  <2> QED BY <1>0, <2>1, <2>2, <2>3, LaneStutters
<1>2. ASSUME l = "packet", SenderWakes \/ SenderTests \/ SenderCopies
      PROVE  UNCHANGED Lane(l)!lvars
  <2>1. sender # "sending" /\ sender' # "sending" /\ UNCHANGED <<tail, log>>
    BY <1>2 DEF SenderWakes, SenderTests, SenderCopies
  <2>2. Taken(l) = None /\ Taken(l)' = None BY <1>2, <2>1 DEF Taken, Busy
  <2>3. First(l)' = First(l) BY <1>2, <2>1 DEF First
  <2> QED BY <1>0, <2>1, <2>2, <2>3, LaneStutters
<1>3. ASSUME l = "packet", SenderAdvances PROVE Lane(l)!Next
  <2>1. /\ sender = "advance" /\ sender' = "sending" /\ UNCHANGED <<copy, log>>
        /\ tail'[l] = tail[l] + 1
    BY <1>3 DEF SenderAdvances, Lanes
  <2>2. First(l) = tail[l] /\ First(l)' = First(l) + 1 BY <1>3, <2>1 DEF First
  <2>3. First(l) < head[l] BY <1>3, <2>1, <2>2 DEF ConsumersInWindow
  <2>4. copy[l] = Args(l, First(l)) BY <1>3, <2>1, <2>2 DEF ContentInv, CopiedOut
  <2>5. /\ Waiting(l) # <<>> /\ Head(Waiting(l)) = Args(l, First(l))
        /\ Waiting(l)' = Tail(Waiting(l))
    BY <1>0, <2>2, <2>3, FirstMovesOn
  <2>6. Taken(l) = None /\ Taken(l)' = [lane |-> l, task |-> Head(Waiting(l))]
    BY <1>3, <2>1, <2>4, <2>5 DEF Taken, Busy
  <2>7. Lane(l)!TakeOldest(l) BY <2>1, <2>5, <2>6 DEF Lane!TakeOldest
  <2> QED BY <2>7 DEF Lane!Next, Lane!Works
<1>4. ASSUME l = "packet", SenderSends PROVE Lane(l)!Next
  <2>1. /\ sender = "sending" /\ sender' = "test" /\ UNCHANGED tail /\ copy[l] \in Tasks
        /\ log'[l] = Append(log[l], [task |-> copy[l], via |-> l])
    BY <1>4 DEF SenderSends, Ran, ContentInv, LogTyped, CopiedOut
  <2>2. Taken(l) = [lane |-> l, task |-> copy[l]] /\ Taken(l)' = None /\ Busy(l)
    BY <1>4, <2>1 DEF Taken, Busy
  <2>3. Taken(l) # None BY <2>1, <2>2, TakenIsTask
  <2>4. Waiting(l)' = Waiting(l)
    <3>1. First(l)' = First(l) BY <1>4, <2>1 DEF First
    <3> QED BY <1>0, <3>1, WaitingSame
  <2>5. Lane(l)!RunTaken BY <2>1, <2>2, <2>3, <2>4 DEF Lane!RunTaken
  <2> QED BY <2>5 DEF Lane!Next, Lane!Works
<1> QED BY <1>1, <1>2, <1>3, <1>4 DEF SenderThread

\* A ring whose tail is not its head has its tail in its window.
LEMMA NonEmpty ==
    ASSUME LanesInv, NEW l \in Lanes, tail[l] # head[l]
    PROVE  tail[l] < head[l]
<1>1. tail[l] \in Nat /\ head[l] \in Nat /\ tail[l] <= head[l]
  BY DEF LanesInv, RingsInv, RingsTyped, RingBounded
<1> QED BY <1>1

\* The engine's thread: it dispatches a botshub command in place, and copies a
\* game command out before it runs it.
LEMMA FrameStep ==
    ASSUME LanesInv, Next, FrameDefers \/ FrameEnters \/ InFrame, NEW l \in Lanes
    PROVE  [Lane(l)!Next]_(Lane(l)!lvars)
<1> USE DEF LanesInv, RingsInv, RingsTyped
<1>0. "botshub" \in Lanes /\ "game" \in Lanes BY DEF Lanes
<1>1. UNCHANGED <<head, sender>>
  BY DEF FrameDefers, FrameEnters, InFrame, BotshubDispatch, BotshubReturns, CommandCopies,
         CommandAdvances, CommandReturns
<1>2. CASE l = "packet"
  <2>1. tail'[l] = tail[l] /\ copy'[l] = copy[l] /\ log'[l] = log[l]
    BY <1>2 DEF FrameDefers, FrameEnters, InFrame, BotshubDispatch, BotshubReturns, CommandCopies,
                CommandAdvances, CommandReturns, Ran, ContentInv, LogTyped
  <2>2. First(l)' = First(l) /\ Taken(l)' = Taken(l)
    BY <1>1, <1>2, <2>1 DEF First, Taken, Busy
  <2> QED BY <1>1, <2>1, <2>2, LaneStutters
<1>3. CASE FrameDefers \/ FrameEnters
  <2>1. frame = "out" /\ frame' \in {"command", "botshub"} /\ UNCHANGED <<tail, copy, log>>
    BY <1>3 DEF FrameDefers, FrameEnters
  <2>2. First(l)' = First(l) /\ Taken(l)' = Taken(l)
    BY <1>1, <2>1 DEF First, Taken, Busy, Lanes
  <2> QED BY <1>1, <2>1, <2>2, LaneStutters
<1>4. CASE BotshubDispatch /\ l = "botshub"
  <2>1. frame = "botshub" /\ UNCHANGED <<copy, log>> BY <1>4 DEF BotshubDispatch
  <2>2. Taken(l) = None /\ First(l) = tail[l] BY <1>4, <2>1 DEF Taken, Busy, First
  <2>3. CASE tail["botshub"] = head["botshub"] \/ ~TailSlot("botshub").fn
    <3>1. frame' = "command" /\ UNCHANGED tail BY <1>4, <2>3 DEF BotshubDispatch
    <3>2. First(l)' = First(l) /\ Taken(l)' = Taken(l)
      BY <1>4, <2>2, <3>1 DEF First, Taken, Busy
    <3>3. UNCHANGED Lane(l)!lvars BY <1>1, <2>1, <3>1, <3>2, LaneStutters
    <3> QED BY <3>3
  <2>4. CASE tail["botshub"] # head["botshub"] /\ TailSlot("botshub").fn
    <3>1. frame' = "running" /\ s_botshubSavedIndex' = tail[l] /\ tail'[l] = tail[l]
      BY <1>4, <2>4 DEF BotshubDispatch, TailDuringRun
    <3>2. tail[l] < head[l] BY <1>4, <2>4, NonEmpty
    <3>3. First(l)' = First(l) + 1 /\ First(l) < head[l]
      BY <1>4, <2>2, <3>1, <3>2 DEF First
    <3>4. /\ Waiting(l) # <<>> /\ Head(Waiting(l)) = Args(l, First(l))
          /\ Waiting(l)' = Tail(Waiting(l))
      BY <1>1, <3>3, FirstMovesOn
    <3>5. RunningSlot.args' = Args(l, First(l))
      <4>1. PICK i : i = tail[l] OBVIOUS
      <4>2. i \in Window(l) BY <3>2, <4>1, TailInWindow
      <4>3. Args(l, i)' = Args(l, i) BY <4>2, SlotKept
      <4> QED BY <1>4, <2>2, <3>1, <4>1, <4>3 DEF RunningSlot, Args
    <3>6. Taken(l)' = [lane |-> l, task |-> Head(Waiting(l))]
      BY <1>4, <3>1, <3>4, <3>5 DEF Taken, Busy
    <3>7. Lane(l)!TakeOldest(l) BY <2>1, <2>2, <3>4, <3>6 DEF Lane!TakeOldest
    <3> QED BY <3>7 DEF Lane!Next, Lane!Works
  <2> QED BY <2>3, <2>4
<1>5. CASE BotshubReturns /\ l = "botshub"
  <2>1. /\ frame = "running" /\ frame' = "out" /\ UNCHANGED ring
        /\ log' = [log EXCEPT ![l] = Append(log[l], [task |-> RunningSlot.args, via |-> l])]
    BY <1>5 DEF BotshubReturns, Ran
  <2>2. s_botshubSavedIndex = tail[l] /\ tail[l] < head[l] BY <1>5, <2>1 DEF ConsumersInWindow
  <2>3. tail'[l] = tail[l] + 1 BY <1>5, <2>2 DEF BotshubReturns, TailAfterRun
  <2>4. First(l)' = First(l) BY <1>5, <2>1, <2>3 DEF First
  <2>5. Waiting(l)' = Waiting(l) BY <1>1, <2>4, WaitingSame
  <2>6. RunningSlot.args \in Tasks
    <3>1. tail[l] \in Window(l) BY <2>2, TailInWindow
    <3>2. Args(l, tail[l]) \in Tasks BY <3>1 DEF ContentInv, WindowHoldsTasks
    <3> QED BY <1>5, <2>2, <3>2 DEF RunningSlot, Args
  <2>7. Taken(l) = [lane |-> l, task |-> RunningSlot.args] /\ Busy(l) /\ Taken(l)' = None
    BY <1>5, <2>1 DEF Taken, Busy
  <2>8. Taken(l) # None BY <2>6, <2>7, TakenIsTask
  <2>9. log'[l] = Append(log[l], [task |-> Taken(l).task, via |-> Taken(l).lane])
    BY <2>1, <2>7 DEF ContentInv, LogTyped
  <2>10. Lane(l)!RunTaken BY <2>5, <2>7, <2>8, <2>9 DEF Lane!RunTaken
  <2> QED BY <2>10 DEF Lane!Next, Lane!Works
<1>6. CASE CommandCopies /\ l # "packet"
  <2>1. frame = "command" /\ frame' \in {"out", "advance"} /\ UNCHANGED <<tail, log>>
    BY <1>6 DEF CommandCopies
  <2>2. First(l)' = First(l) /\ Taken(l) = None /\ Taken(l)' = None
    BY <1>6, <2>1 DEF First, Taken, Busy, Lanes
  <2> QED BY <1>1, <2>1, <2>2, LaneStutters
<1>7. CASE CommandAdvances /\ l = "game"
  <2>1. frame = "advance" /\ frame' = "calling" /\ UNCHANGED <<copy, log>> /\ tail'[l] = tail[l] + 1
    BY <1>7 DEF CommandAdvances
  <2>2. First(l) = tail[l] /\ First(l)' = First(l) + 1 BY <1>7, <2>1 DEF First
  <2>3. First(l) < head[l] BY <1>7, <2>1, <2>2 DEF ConsumersInWindow
  <2>4. copy[l] = Args(l, First(l)) BY <1>7, <2>1, <2>2 DEF ContentInv, CopiedOut
  <2>5. /\ Waiting(l) # <<>> /\ Head(Waiting(l)) = Args(l, First(l))
        /\ Waiting(l)' = Tail(Waiting(l))
    BY <1>1, <2>2, <2>3, FirstMovesOn
  <2>6. Taken(l) = None /\ Taken(l)' = [lane |-> l, task |-> Head(Waiting(l))]
    BY <1>7, <2>1, <2>4, <2>5 DEF Taken, Busy
  <2>7. Lane(l)!TakeOldest(l) BY <2>1, <2>5, <2>6 DEF Lane!TakeOldest
  <2> QED BY <2>7 DEF Lane!Next, Lane!Works
<1>8. CASE CommandReturns /\ l = "game"
  <2>1. /\ frame = "calling" /\ frame' = "out" /\ UNCHANGED tail /\ copy[l] \in Tasks
        /\ log'[l] = Append(log[l], [task |-> copy[l], via |-> l])
    BY <1>8 DEF CommandReturns, Ran, ContentInv, LogTyped, CopiedOut
  <2>2. Taken(l) = [lane |-> l, task |-> copy[l]] /\ Taken(l)' = None /\ Busy(l)
    BY <1>8, <2>1 DEF Taken, Busy
  <2>3. Taken(l) # None BY <2>1, <2>2, TakenIsTask
  <2>4. Waiting(l)' = Waiting(l)
    <3>1. First(l)' = First(l) BY <1>8, <2>1 DEF First
    <3> QED BY <1>1, <3>1, WaitingSame
  <2>5. Lane(l)!RunTaken BY <2>1, <2>2, <2>3, <2>4 DEF Lane!RunTaken
  <2> QED BY <2>5 DEF Lane!Next, Lane!Works
<1>9. CASE l = "game" /\ (BotshubDispatch \/ BotshubReturns)
  <2>1. /\ frame \in {"botshub", "running"} /\ frame' \in {"command", "running", "out"}
        /\ tail'[l] = tail[l] /\ log'[l] = log[l]
    BY <1>9 DEF BotshubDispatch, BotshubReturns, Ran, ContentInv, LogTyped
  <2>2. First(l)' = First(l) /\ Taken(l) = None /\ Taken(l)' = None
    BY <1>9, <2>1 DEF First, Taken, Busy
  <2> QED BY <1>1, <2>1, <2>2, LaneStutters
<1>10. CASE l = "botshub" /\ (CommandAdvances \/ CommandReturns)
  <2>1. /\ frame \in {"advance", "calling"} /\ frame' \in {"calling", "out"}
        /\ tail'[l] = tail[l] /\ log'[l] = log[l]
    BY <1>10 DEF CommandAdvances, CommandReturns, Ran, ContentInv, LogTyped
  <2>2. First(l)' = First(l) /\ Taken(l) = None /\ Taken(l)' = None
    BY <1>10, <2>1 DEF First, Taken, Busy
  <2> QED BY <1>1, <2>1, <2>2, LaneStutters
<1> QED BY <1>2, <1>3, <1>4, <1>5, <1>6, <1>7, <1>8, <1>9, <1>10 DEF InFrame, Lanes

\* The three parts of the invariant together, throughout.
LEMMA TasksOnceHolds == Spec => []LanesInv
<1>1. Init => TasksOnce
  <2> SUFFICES ASSUME Init PROVE TasksOnce OBVIOUS
  <2>1. ASSUME NEW l \in Lanes, NEW t \in Tasks PROVE ~Seen(l, t)
    <3>1. Window(l) = {} BY DEF Init, Window
    <3>2. copy[l] = None /\ log[l] = <<>> BY DEF Init
    <3> QED BY <3>1, <3>2, NoneAssumption DEF Seen
  <2>2. \A p \in Producers : ~Unpublished(p) BY DEF Init, Unpublished, NoCall
  <2> QED BY <2>1, <2>2 DEF TasksOnce
<1>2. RingsInv /\ ContentInv /\ TasksOnce /\ [Next]_vars => TasksOnce'
  <2>1. TasksOnce /\ UNCHANGED vars => TasksOnce'
    BY DEF vars, producerVars, TasksOnce, Seen, Unpublished, Window, Args
  <2> QED BY <2>1, OnceKept
<1> QED BY <1>1, <1>2, RingsHold, ContentHolds, PTL DEF Spec, LanesInv

\* The lane of a ring starts empty.
LEMMA LaneStarts ==
    ASSUME NEW l \in Lanes, Init
    PROVE  Lane(l)!Init
<1>1. First(l) = 0 /\ head[l] = 0 /\ log[l] = <<>> BY DEF Init, First
<1>2. Waiting(l) = <<>> BY <1>1 DEF Waiting
<1>3. Taken(l) = None BY DEF Init, Taken, Busy, Lanes
<1> QED BY <1>1, <1>2, <1>3 DEF Lane!Init

\* Every step of the rings is a step of each lane, or nothing to it.
LEMMA LaneFollows ==
    ASSUME NEW l \in Lanes, LanesInv, [Next]_vars
    PROVE  [Lane(l)!Next]_(Lane(l)!lvars)
<1>1. CASE Next BY <1>1, ProducerStep, SenderStep, FrameStep DEF Next
<1>2. CASE UNCHANGED vars
  BY <1>2 DEF vars, producerVars, Lane!lvars, Waiting, First, Taken, Busy, RunningSlot
<1> QED BY <1>1, <1>2

\* Each ring of CtoS.cpp implements a bounded first-in first-out lane, with
\* consumers that take no lock, for any number of producers.
THEOREM RingsAreQueues == Spec => LanesAreQueues
<1>0. "packet" \in Lanes /\ "game" \in Lanes /\ "botshub" \in Lanes BY DEF Lanes
<1>1. Init => PacketLane!Init
  <2>1. Init => Lane("packet")!Init BY <1>0, LaneStarts
  <2> QED BY <2>1 DEF Lane!Init, PacketLane!Init
<1>2. LanesInv /\ [Next]_vars => [PacketLane!Next]_(PacketLane!lvars)
  <2>1. LanesInv /\ [Next]_vars => [Lane("packet")!Next]_(Lane("packet")!lvars)
    BY <1>0, LaneFollows
  <2> QED BY <2>1 DEF Lane!Next, PacketLane!Next, Lane!lvars, PacketLane!lvars, Lane!Works,
          PacketLane!Works, Lane!Close, PacketLane!Close, Lane!Accept, PacketLane!Accept,
          Lane!Known, PacketLane!Known, Lane!TakeOldest, PacketLane!TakeOldest,
          Lane!RunTaken, PacketLane!RunTaken, Lane!RunNow, PacketLane!RunNow
<1>3. Init => GameLane!Init
  <2>1. Init => Lane("game")!Init BY <1>0, LaneStarts
  <2> QED BY <2>1 DEF Lane!Init, GameLane!Init
<1>4. LanesInv /\ [Next]_vars => [GameLane!Next]_(GameLane!lvars)
  <2>1. LanesInv /\ [Next]_vars => [Lane("game")!Next]_(Lane("game")!lvars)
    BY <1>0, LaneFollows
  <2> QED BY <2>1 DEF Lane!Next, GameLane!Next, Lane!lvars, GameLane!lvars, Lane!Works,
          GameLane!Works, Lane!Close, GameLane!Close, Lane!Accept, GameLane!Accept,
          Lane!Known, GameLane!Known, Lane!TakeOldest, GameLane!TakeOldest,
          Lane!RunTaken, GameLane!RunTaken, Lane!RunNow, GameLane!RunNow
<1>5. Init => BotshubLane!Init
  <2>1. Init => Lane("botshub")!Init BY <1>0, LaneStarts
  <2> QED BY <2>1 DEF Lane!Init, BotshubLane!Init
<1>6. LanesInv /\ [Next]_vars => [BotshubLane!Next]_(BotshubLane!lvars)
  <2>1. LanesInv /\ [Next]_vars => [Lane("botshub")!Next]_(Lane("botshub")!lvars)
    BY <1>0, LaneFollows
  <2> QED BY <2>1 DEF Lane!Next, BotshubLane!Next, Lane!lvars, BotshubLane!lvars, Lane!Works,
          BotshubLane!Works, Lane!Close, BotshubLane!Close, Lane!Accept, BotshubLane!Accept,
          Lane!Known, BotshubLane!Known, Lane!TakeOldest, BotshubLane!TakeOldest,
          Lane!RunTaken, BotshubLane!RunTaken, Lane!RunNow, BotshubLane!RunNow
<1> QED
  BY <1>1, <1>2, <1>3, <1>4, <1>5, <1>6, TasksOnceHolds, PTL
  DEF Spec, LanesAreQueues, PacketLane!Spec, GameLane!Spec, BotshubLane!Spec

-----------------------------------------------------------------------------
(* What an idle ring means.                                                 *)

\* A botshub command that was accepted has run, or is still in its ring's window.
AcceptedKept ==
    \A a \in accepted : a.via = "botshub" =>
        a.task \in Done("botshub") \/ \E i \in Window("botshub") : Args("botshub", i) = a.task

\* What ran stays in the history.
LEMMA DoneKept ==
    ASSUME ContentInv, Next, NEW l \in Lanes, NEW t \in Done(l)
    PROVE  t \in Done(l)'
<1>1. CASE UNCHANGED log BY <1>1 DEF Done
<1>2. CASE \E m \in Lanes : \E e : log' = [log EXCEPT ![m] = Append(log[m], e)]
  <2>0. PICK m \in Lanes : \E e : log' = [log EXCEPT ![m] = Append(log[m], e)] BY <1>2
  <2>1. PICK e : log' = [log EXCEPT ![m] = Append(log[m], e)] BY <2>0
  <2>2. CASE m # l
    <3>1. log'[l] = log[l] BY <2>1, <2>2 DEF ContentInv, LogTyped
    <3> QED BY <3>1 DEF Done
  <2>3. CASE m = l
    <3>1. log'[l] = Append(log[l], e) /\ log[l] \in Seq([task : Tasks, via : Lanes])
      BY <2>1, <2>3 DEF ContentInv, LogTyped
    <3>2. PICK i \in DOMAIN log[l] : t = log[l][i].task BY DEF Done
    <3>3. i \in DOMAIN log'[l] /\ log'[l][i] = log[l][i] BY <3>1, <3>2
    <3> QED BY <3>2, <3>3 DEF Done
  <2> QED BY <2>2, <2>3
<1>3. ASSUME NEW p \in Producers, Producer(p) PROVE UNCHANGED log
  BY <1>3 DEF Producer, EnqueueLocks, EnqueueTests, EnqueueZeroes, EnqueueFills,
              EnqueuePublishes, EnqueueUnlocks
<1>4. ASSUME NEW p \in Producers, NEW m \in Lanes, NEW u \in Tasks, EnqueueBegins(p, m, u)
      PROVE  UNCHANGED log
  BY <1>4 DEF EnqueueBegins
<1>5. SenderWakes \/ SenderTests \/ SenderCopies \/ SenderAdvances \/ FrameDefers \/ FrameEnters
      \/ BotshubDispatch \/ CommandCopies \/ CommandAdvances => UNCHANGED log
  BY DEF SenderWakes, SenderTests, SenderCopies, SenderAdvances, FrameDefers, FrameEnters,
         BotshubDispatch, CommandCopies, CommandAdvances
<1>6. SenderSends \/ BotshubReturns \/ CommandReturns =>
         \E m \in Lanes : \E e : log' = [log EXCEPT ![m] = Append(log[m], e)]
  BY DEF SenderSends, BotshubReturns, CommandReturns, Ran, Lanes
<1> QED BY <1>1, <1>2, <1>3, <1>4, <1>5, <1>6 DEF Next, SenderThread, InFrame

\* The botshub ring gives a slot back when its command has returned, no sooner.
LEMMA BotshubGivenBack ==
    ASSUME RingsInv, ContentInv, Next, NEW i \in Window("botshub"), i \notin Window("botshub")'
    PROVE  Args("botshub", i) \in Done("botshub")'
<1>0. "botshub" \in Lanes BY DEF Lanes
<1>1. tail["botshub"] \in Nat /\ head["botshub"] \in Nat BY <1>0 DEF RingsInv, RingsTyped
<1>2. CASE head'["botshub"] \in {head["botshub"], head["botshub"] + 1} /\ tail'["botshub"] = tail["botshub"]
  BY <1>1, <1>2 DEF Window
<1>3. CASE BotshubReturns
  <2>1. s_botshubSavedIndex = tail["botshub"] /\ UNCHANGED head
    BY <1>3 DEF BotshubReturns, RingsInv, ConsumersInWindow
  <2>2. tail'["botshub"] = tail["botshub"] + 1
    BY <1>0, <1>3, <2>1 DEF BotshubReturns, TailAfterRun, RingsInv, RingsTyped
  <2>3. i = tail["botshub"] BY <1>1, <2>1, <2>2 DEF Window
  <2>4. RunningSlot.args = Args("botshub", i) BY <2>1, <2>3 DEF RunningSlot, Args
  <2>5. PICK e : e = [task |-> Args("botshub", i), via |-> "botshub"] OBVIOUS
  <2>6. /\ log["botshub"] \in Seq([task : Tasks, via : Lanes])
        /\ log'["botshub"] = Append(log["botshub"], e)
    BY <1>0, <1>3, <2>4, <2>5 DEF BotshubReturns, Ran, ContentInv, LogTyped
  <2>7. PICK s : s = log["botshub"] /\ s \in Seq([task : Tasks, via : Lanes]) BY <2>6
  <2>8. Len(s) + 1 \in DOMAIN Append(s, e) /\ Append(s, e)[Len(s) + 1] = e
    <3>1. i \in Window("botshub") OBVIOUS
    <3>2. Args("botshub", i) \in Tasks BY <1>0, <3>1 DEF ContentInv, WindowHoldsTasks
    <3>3. e \in [task : Tasks, via : Lanes] BY <1>0, <2>5, <3>2
    <3> QED BY <2>7, <3>3
  <2> QED BY <2>5, <2>6, <2>7, <2>8 DEF Done
<1>4. ASSUME NEW p \in Producers,
             Producer(p) \/ \E m \in Lanes, u \in Tasks : EnqueueBegins(p, m, u)
      PROVE  /\ head'["botshub"] \in {head["botshub"], head["botshub"] + 1}
             /\ tail'["botshub"] = tail["botshub"]
  <2>1. CASE EnqueuePublishes(p)
    BY <1>0, <2>1 DEF EnqueuePublishes, RingsInv, RingsTyped
  <2>2. CASE ~EnqueuePublishes(p)
    BY <1>4, <2>2 DEF Producer, EnqueueBegins, EnqueueLocks, EnqueueTests, EnqueueZeroes,
                      EnqueueFills, EnqueueUnlocks
  <2> QED BY <2>1, <2>2
<1>5. SenderThread \/ CommandAdvances =>
         head'["botshub"] = head["botshub"] /\ tail'["botshub"] = tail["botshub"]
  BY <1>0 DEF SenderThread, SenderWakes, SenderTests, SenderCopies, SenderAdvances, SenderSends,
         CommandAdvances, RingsInv, RingsTyped
<1>6. FrameDefers \/ FrameEnters \/ CommandCopies \/ CommandReturns \/ BotshubDispatch =>
         head'["botshub"] = head["botshub"] /\ tail'["botshub"] = tail["botshub"]
  BY <1>0 DEF FrameDefers, FrameEnters, CommandCopies, CommandReturns, BotshubDispatch,
         TailDuringRun, RingsInv, RingsTyped
<1> QED BY <1>2, <1>3, <1>4, <1>5, <1>6 DEF Next, InFrame

\* A step keeps every accepted botshub command in one of the two places.
LEMMA AcceptedStep ==
    ASSUME RingsInv, ContentInv, AcceptedKept, Next
    PROVE  AcceptedKept'
<1> SUFFICES ASSUME NEW a \in accepted', a.via = "botshub", NEW t, t = a.task
             PROVE  \/ t \in Done("botshub")'
                    \/ \E i \in Window("botshub")' : Args("botshub", i)' = t
    BY DEF AcceptedKept
<1>0. "botshub" \in Lanes BY DEF Lanes
<1>1. CASE a \in accepted
  <2>1. CASE t \in Done("botshub") BY <1>0, <2>1, DoneKept
  <2>2. ASSUME NEW i \in Window("botshub"), Args("botshub", i) = t
        PROVE  \/ t \in Done("botshub")'
               \/ \E j \in Window("botshub")' : Args("botshub", j)' = t
    <3>1. CASE i \in Window("botshub")'
      <4>1. Args("botshub", i)' = Args("botshub", i) BY <1>0, SlotKept
      <4> QED BY <2>2, <3>1, <4>1
    <3>2. CASE i \notin Window("botshub")' BY <2>2, <3>2, BotshubGivenBack
    <3> QED BY <3>1, <3>2
  <2> QED BY <1>1, <2>1, <2>2 DEF AcceptedKept
<1>2. ASSUME NEW p \in Producers, EnqueuePublishes(p), a \notin accepted
      PROVE  \E i \in Window("botshub")' : Args("botshub", i)' = t
  <2>1. /\ call[p].at = "publish" /\ UNCHANGED <<ring, tail>>
        /\ a = [task |-> call[p].task, via |-> call[p].lane]
        /\ head' = [head EXCEPT ![call[p].lane] = head[call[p].lane] + 1]
    BY <1>2 DEF EnqueuePublishes, At
  <2>2. call[p].lane = "botshub" /\ call[p].task = t BY <2>1
  <2>3. Args("botshub", head["botshub"]) = t BY <2>1, <2>2 DEF ContentInv, FilledSlot
  <2>4. PICK h : h = head["botshub"] OBVIOUS
  <2>5. Args("botshub", h)' = t BY <2>1, <2>3, <2>4 DEF Args
  <2>6. h \in Window("botshub")'
    <3>1. tail["botshub"] \in Nat /\ h \in Nat /\ tail["botshub"] <= h
      BY <1>0, <2>4 DEF RingsInv, RingsTyped, RingBounded
    <3>2. head'["botshub"] = h + 1 /\ tail'["botshub"] = tail["botshub"]
      BY <1>0, <2>1, <2>2, <2>4 DEF RingsInv, RingsTyped
    <3> QED BY <3>1, <3>2 DEF Window
  <2> QED BY <2>5, <2>6
<1>3. ASSUME NEW p \in Producers, Producer(p), ~EnqueuePublishes(p) PROVE UNCHANGED accepted
  BY <1>3 DEF Producer, EnqueueLocks, EnqueueTests, EnqueueZeroes, EnqueueFills, EnqueueUnlocks
<1>4. ASSUME NEW p \in Producers, NEW m \in Lanes, NEW u \in Tasks, EnqueueBegins(p, m, u)
      PROVE  UNCHANGED accepted
  BY <1>4 DEF EnqueueBegins
<1>5. SenderThread \/ FrameDefers \/ FrameEnters \/ InFrame => UNCHANGED accepted
  BY DEF SenderThread, SenderWakes, SenderTests, SenderCopies, SenderAdvances, SenderSends,
         FrameDefers, FrameEnters, InFrame, BotshubDispatch, BotshubReturns, CommandCopies,
         CommandAdvances, CommandReturns, producerVars
<1> QED BY <1>1, <1>2, <1>3, <1>4, <1>5 DEF Next

\* An idle botshub ring means that every accepted command has finished: what
\* WaitForBotshubQueueIdle relies on, for rings of every size.
THEOREM IdleMeansDone == Spec => []BotshubIdleMeansDone
<1>1. Init => AcceptedKept BY DEF Init, AcceptedKept
<1>2. RingsInv /\ ContentInv /\ AcceptedKept /\ [Next]_vars => AcceptedKept'
  <2>1. AcceptedKept /\ UNCHANGED vars => AcceptedKept'
    BY DEF vars, producerVars, AcceptedKept, Done, Window, Args
  <2> QED BY <2>1, AcceptedStep
<1>3. RingsInv /\ AcceptedKept => BotshubIdleMeansDone
  <2> SUFFICES ASSUME RingsInv, AcceptedKept, IsBotshubQueueIdle PROVE BotshubIdleMeansDone
      BY DEF BotshubIdleMeansDone
  <2>1. head["botshub"] \in Nat BY DEF RingsInv, RingsTyped, Lanes
  <2>2. Window("botshub") = {} BY <2>1 DEF IsBotshubQueueIdle, Window
  <2> QED BY <2>2 DEF AcceptedKept, BotshubIdleMeansDone
<1> QED BY <1>1, <1>2, <1>3, TasksOnceHolds, PTL DEF Spec, LanesInv

-----------------------------------------------------------------------------
(* The engine hook.                                                         *)

\* The flag is up from the first step of Suspend to the last of Resume.
FlagFollowsBot == s_engineSuspended <=> bot # "playing"

\* Once the sleep of Suspend is over, the watchdog is between two cycles.
WatchdogQuiet == bot \in {"transition", "reread", "patched"} => watchdog = "sleep"

\* The hooked address never holds anything but the jump or the client's bytes.
SiteIsKnown == site \in {Patch, client}

\* The saved bytes are out of date only while the client may still change its own.
SavedUntilTransition == bot # "transition" => s_engineSavedBytes = client

HookInv ==
    /\ TypeOK /\ FlagFollowsBot /\ WatchdogQuiet /\ SiteIsKnown
    /\ HookOffWhileSuspended /\ SavedUntilTransition

-----------------------------------------------------------------------------

\* Serving a command keeps the counter of waiting ones within its bound.
LEMMA TakenOneInBound ==
    ASSUME NEW n \in 0 .. MaxPending
    PROVE  TakenOne(n) \in 0 .. MaxPending
BY BoundAssumption DEF TakenOne

\* The hook starts well typed.
LEMMA HookInitTyped == HookInit => TypeOK
<1> SUFFICES ASSUME HookInit PROVE TypeOK OBVIOUS
<1>1. pending \in 0 .. MaxPending BY BoundAssumption DEF HookInit
<1>2. s_engineSuspended \in BOOLEAN BY Zenon DEF HookInit
<1> QED BY <1>1, <1>2 DEF HookInit, TypeOK

\* Every step keeps the types, whatever the sleep of Suspend covers.
LEMMA HookTypeKept ==
    ASSUME TypeOK, [HookNext]_hookVars
    PROVE  TypeOK'
<1> USE BytesAssumption, BoundAssumption DEF TypeOK
<1>1. CASE ClientRestores BY <1>1 DEF ClientRestores
<1>2. CASE ClientChanges BY <1>2 DEF ClientChanges
<1>3. CASE DetourEnters BY <1>3 DEF DetourEnters
<1>4. CASE DetourLeaves BY <1>4, TakenOneInBound DEF DetourLeaves
<1>5. CASE WatchdogWakes BY <1>5 DEF WatchdogWakes
<1>6. CASE WatchdogCompares BY <1>6 DEF WatchdogCompares
<1>7. CASE WatchdogRepairs BY <1>7 DEF WatchdogRepairs
<1>8. CASE WatchdogThrottles BY <1>8 DEF WatchdogThrottles
<1>9. CASE BotQueues BY <1>9 DEF BotQueues
<1>10. CASE SuspendFlags BY <1>10 DEF SuspendFlags
<1>11. CASE SuspendRestores BY <1>11 DEF SuspendRestores
<1>12. CASE ResumeReads BY <1>12 DEF ResumeReads, SavedAgain
<1>13. CASE ResumePatches BY <1>13 DEF ResumePatches
<1>14. CASE ResumeUnflags BY <1>14 DEF ResumeUnflags
<1>15. CASE UNCHANGED hookVars BY <1>15 DEF hookVars
<1> QED
  BY <1>1, <1>2, <1>3, <1>4, <1>5, <1>6, <1>7, <1>8, <1>9, <1>10, <1>11, <1>12,
     <1>13, <1>14, <1>15 DEF HookNext, Watchdog, InTransition

\* The state of the hook keeps its type.
THEOREM HookTyped == HookSpec => []TypeOK
<1> QED BY HookInitTyped, HookTypeKept, PTL DEF HookSpec

\* If the sleep of Suspend outlasts a watchdog cycle, the invariant is inductive.
LEMMA HookInvKept ==
    ASSUME SleepCoversCycle, HookInv, [HookNext]_hookVars
    PROVE  HookInv'
<1> USE BytesAssumption DEF HookInv, TypeOK, FlagFollowsBot, WatchdogQuiet, SiteIsKnown,
        HookOffWhileSuspended, SavedUntilTransition
<1>0. TypeOK' BY HookTypeKept
\* A client in transition may change its bytes; they are never the jump.
<1>1. CASE ClientRestores BY <1>0, <1>1 DEF ClientRestores
<1>2. CASE ClientChanges BY <1>0, <1>2 DEF ClientChanges
<1>3. CASE DetourEnters BY <1>0, <1>3 DEF DetourEnters
<1>4. CASE DetourLeaves BY <1>0, <1>4 DEF DetourLeaves
\* The flag keeps the watchdog asleep.
<1>5. CASE WatchdogWakes BY <1>0, <1>5 DEF WatchdogWakes, SuspensionSeen
<1>6. CASE WatchdogCompares BY <1>0, <1>6 DEF WatchdogCompares
<1>7. CASE WatchdogRepairs BY <1>0, <1>7 DEF WatchdogRepairs
<1>8. CASE WatchdogThrottles BY <1>0, <1>8 DEF WatchdogThrottles
<1>9. CASE BotQueues BY <1>0, <1>9 DEF BotQueues
<1>10. CASE SuspendFlags BY <1>0, <1>10 DEF SuspendFlags
\* What Suspend puts back is the client's, and the watchdog's cycle is over.
<1>11. CASE SuspendRestores BY <1>0, <1>11 DEF SuspendRestores
\* What Resume reads is the client's, because the hook is out.
<1>12. CASE ResumeReads BY <1>0, <1>12 DEF ResumeReads, SavedAgain
<1>13. CASE ResumePatches BY <1>0, <1>13 DEF ResumePatches
<1>14. CASE ResumeUnflags BY <1>0, <1>14 DEF ResumeUnflags
<1>15. CASE UNCHANGED hookVars BY <1>15 DEF hookVars
<1> QED
  BY <1>1, <1>2, <1>3, <1>4, <1>5, <1>6, <1>7, <1>8, <1>9, <1>10, <1>11, <1>12,
     <1>13, <1>14, <1>15 DEF HookNext, Watchdog, InTransition

\* The invariant of the hook, under the same condition.
LEMMA HookInvHolds ==
    ASSUME SleepCoversCycle
    PROVE  HookSpec => []HookInv
<1>1. HookInit => HookInv
  BY HookInitTyped, BytesAssumption
  DEF HookInit, HookInv, FlagFollowsBot, WatchdogQuiet, SiteIsKnown,
      HookOffWhileSuspended, SavedUntilTransition
<1>2. HookInv /\ [HookNext]_hookVars => HookInv' BY HookInvKept
<1> QED BY <1>1, <1>2, PTL DEF HookSpec

\* If the sleep of SuspendEngineHook (CtoS.cpp:733) outlasts the cycle of the
\* watchdog, the client runs a map transition on its own code.
THEOREM HookOff ==
    ASSUME SleepCoversCycle
    PROVE  HookSpec => []HookOffWhileSuspended
<1>1. HookInv => HookOffWhileSuspended BY DEF HookInv
<1> QED BY <1>1, HookInvHolds, PTL

\* Under the same condition the bytes a suspension restores are the client's
\* own: ResumeEngineHook (CtoS.cpp:749) never saves the jump.
THEOREM SavedBytes ==
    ASSUME SleepCoversCycle
    PROVE  HookSpec => []SavedAreClientBytes
<1>1. HookInv => SavedAreClientBytes BY DEF HookInv, SavedUntilTransition, SavedAreClientBytes
<1> QED BY <1>1, HookInvHolds, PTL
=============================================================================
