---------------------------- MODULE AgentLoopProofs ----------------------------
(***************************************************************************)
(* Theorems about AgentLoop.tla, for every set of profiles, worlds and       *)
(* messages and all limits: its types, what the hand-over to Froggy says     *)
(* of the two models, and which snapshot a plan is for.                     *)
(***************************************************************************)
EXTENDS AgentLoop, TLAPS

\* An unhealthy executor has used up its fallback and its failures in a row.
ExecutorSpent == execBad => fallback /\ timeouts = TimeoutLimit

\* The type invariant by the parts that actions leave alone together.
Places == {"unsaid", "inbox", "pending", "given", "heard", "lost"}
Plans == [for : Worlds \cup {None}, idle : BOOLEAN, work : BOOLEAN, expired : BOOLEAN]
OutsideOK == profile \in Profiles /\ world \in Worlds
LatestOK == latest \in Worlds \cup {None}
ChatOK == chat \in [Messages -> Places]
CycleOK ==
    /\ pc \in {"observe", "supervise", "decide", "planning", "execute", "executing", "stopped"}
    /\ snap \in Worlds \cup {None}
    /\ (pc \in {"supervise", "decide", "planning", "execute", "executing"} => snap # None)
HeardOK == drained \in Events \cup {None} /\ advice \in Advice \cup {None}
PlanOK == plan \in Plans
CallOK ==
    /\ planner \in {"idle", "asking", "tools"} /\ key \in Worlds \cup {None}
    /\ (planner # "idle" => key # None) /\ attempt \in 0 .. 1 /\ plannerBad \in BOOLEAN
ExecutorOK ==
    /\ timeouts \in 0 .. TimeoutLimit /\ fallback \in BOOLEAN /\ execBad \in BOOLEAN
    /\ ExecutorSpent
MemoryOK ==
    /\ lastMap \in MapsOf \cup {None} /\ recent \in BOOLEAN
    /\ signature \in (MapsOf \X Reasons) \cup {None}
StallsOK == stalls \in 0 .. StallLimit
HandedOK == handed \in BOOLEAN

Inv == /\ OutsideOK /\ LatestOK /\ ChatOK /\ CycleOK /\ HeardOK /\ PlanOK /\ CallOK
       /\ ExecutorOK /\ MemoryOK /\ StallsOK /\ HandedOK

\* The numbers among the constants.
LEMMA Limits == StallLimit \in Nat \ {0} /\ TimeoutLimit \in Nat \ {0} /\ None \notin Worlds
BY AgentAssumption

-----------------------------------------------------------------------------
(* Parts that several actions share.                                        *)

\* A message only changes its place.
LEMMA MovedTypes ==
    ASSUME ChatOK, NEW from, NEW to \in Places
    PROVE  Moved(from, to) \in [Messages -> Places]
BY DEF Moved, ChatOK

\* Clearing the pending messages, whatever becomes of those in the prompt.
LEMMA ClearedTypes ==
    ASSUME ChatOK, NEW end \in Places
    PROVE  Cleared(end) \in [Messages -> Places]
BY DEF Cleared, ChatOK, Places

\* The messages of a call that is over.
LEMMA GivenTypes ==
    ASSUME Inv, chat' \in {Moved("given", "heard"), Moved("given", "lost")}
    PROVE  ChatOK'
BY MovedTypes DEF Inv, ChatOK, Places

\* A plan is a plan for the snapshot it was asked for.
LEMMA NewPlanTypes ==
    ASSUME NEW w \in Worlds
    PROVE  NewPlan(w) \subseteq Plans
BY DEF NewPlan, Plans

\* The count of stalls stops at its limit.
LEMMA StalledTypes ==
    ASSUME StallsOK, NEW counts \in BOOLEAN, Stalled(counts)
    PROVE  StallsOK'
BY Limits DEF Stalled, StallsOK

\* _reason answers one of the reasons, or none.
LEMMA ReasonTypes ==
    ASSUME HeardOK, NEW trouble \in BOOLEAN
    PROVE  Reason(trouble) \in Reasons \cup {None}
<1>1. drained # None => drained \in Reasons
    BY DEF HeardOK, Events, Reasons, HardEvents, BypassDebounce
<1>2. {"map_changed", "plan_expired", "condition", "executor_stalled"} \subseteq Reasons
    BY DEF Reasons, HardEvents, BypassDebounce
<1> QED BY <1>1, <1>2 DEF Reason

\* The controller's bookkeeping.
LEMMA EvaluatedTypes ==
    ASSUME HeardOK, MemoryOK, StallsOK, snap \in Worlds, NEW trouble \in BOOLEAN,
           NEW same \in BOOLEAN, Evaluated(Reason(trouble), same)
    PROVE  MemoryOK' /\ StallsOK'
<1> DEFINE reason == Reason(trouble)
<1>1. snap.map \in MapsOf
    BY DEF MapsOf
<1>2. lastMap' \in MapsOf \cup {None}
    BY <1>1 DEF Evaluated, MemoryOK
<1>3. CASE Accepts(reason, same)
  <2>1. reason \in Reasons
    BY <1>3, ReasonTypes DEF Accepts
  <2>2. <<snap.map, reason>> \in MapsOf \X Reasons
    <3> HIDE DEF reason
    <3> QED BY <1>1, <2>1
  <2>3. recent' = TRUE /\ stalls' = 0 /\ signature' \in {<<snap.map, reason>>, signature}
    BY <1>3 DEF Evaluated
  <2>4. signature' \in (MapsOf \X Reasons) \cup {None}
    BY <2>2, <2>3 DEF MemoryOK
  <2>5. StallsOK'
    BY <2>3, Limits DEF StallsOK
  <2> QED BY <1>2, <2>3, <2>4, <2>5 DEF MemoryOK
<1>4. CASE ~Accepts(reason, same)
  <2>1. recent' = recent /\ stalls' = stalls /\ signature' = signature
    BY <1>4 DEF Evaluated
  <2> QED BY <1>2, <2>1 DEF MemoryOK, StallsOK
<1> QED BY <1>3, <1>4

\* What an action leaves alone keeps its type.
LEMMA Unchanged ==
    ASSUME Inv
    PROVE  /\ UNCHANGED <<profile, world>> => OutsideOK'
           /\ UNCHANGED latest => LatestOK'
           /\ UNCHANGED chat => ChatOK'
           /\ UNCHANGED <<pc, snap>> => CycleOK'
           /\ UNCHANGED <<drained, advice>> => HeardOK'
           /\ UNCHANGED plan => PlanOK'
           /\ UNCHANGED <<planner, key, attempt, plannerBad>> => CallOK'
           /\ UNCHANGED <<timeouts, fallback, execBad>> => ExecutorOK'
           /\ UNCHANGED <<lastMap, recent, signature>> => MemoryOK'
           /\ UNCHANGED stalls => StallsOK'
           /\ UNCHANGED handed => HandedOK'
BY DEF Inv, OutsideOK, LatestOK, ChatOK, CycleOK, HeardOK, PlanOK, CallOK, ExecutorOK,
       ExecutorSpent, MemoryOK, StallsOK, HandedOK

\* The snapshot is there in the steps that use it.
LEMMA SnapThere ==
    ASSUME Inv, pc \in {"supervise", "decide", "execute", "executing"}
    PROVE  snap \in Worlds
BY DEF Inv, CycleOK

\* The newest snapshot is the one before or the game as it is.
LEMMA SeenTypes ==
    ASSUME Inv, latest' \in {latest, world}
    PROVE  LatestOK'
BY DEF Inv, LatestOK, OutsideOK

\* A cycle that is over needs no snapshot.
LEMMA CycleOverTypes ==
    ASSUME NEW next \in {"observe", "stopped"}, CycleOver(next)
    PROVE  CycleOK'
BY DEF CycleOver, CycleOK

\* A planner call that is over leaves no attempt behind.
LEMMA CallOverTypes ==
    ASSUME CallOver, plannerBad' \in BOOLEAN
    PROVE  CallOK'
BY DEF CallOver, CallOK

\* An executor's success clears its failures.
LEMMA RecoversTypes ==
    ASSUME Inv, Recovers, UNCHANGED fallback
    PROVE  ExecutorOK'
<1>1. fallback' \in BOOLEAN
    BY DEF Inv, ExecutorOK
<1>2. execBad' = FALSE /\ timeouts' = 0
    BY DEF Recovers
<1>3. timeouts' \in 0 .. TimeoutLimit
    BY <1>2, Limits
<1> QED BY <1>1, <1>2, <1>3 DEF ExecutorOK, ExecutorSpent

-----------------------------------------------------------------------------
\* Each action keeps every part's type.
LEMMA InvKept ==
    ASSUME Inv, [Next]_vars
    PROVE  Inv'
<1> USE Unchanged DEF game, input, cycle, call, executor, controller
<1>1. CASE Observe
  <2>1. ChatOK'
    BY <1>1, MovedTypes DEF Observe, Inv, Places, ChatOK
  <2>2. LatestOK'
    BY <1>1, SeenTypes DEF Observe
  <2>3. CycleOK'
    BY <1>1, <2>2 DEF Observe, Inv, CycleOK, LatestOK
  <2>4. HeardOK'
    BY <1>1 DEF Observe, Inv, HeardOK
  <2> QED BY <1>1, <2>1, <2>2, <2>3, <2>4 DEF Observe, Inv
<1>2. CASE Supervise
  <2>1. snap \in Worlds
    BY <1>2, SnapThere DEF Supervise
  <2>2. PlanOK'
    BY <1>2, <2>1, NewPlanTypes DEF Supervise, Inv, PlanOK
  <2>3. LatestOK'
    BY <1>2, SeenTypes DEF Supervise
  <2>4. CycleOK'
    BY <1>2, <2>1 DEF Supervise, Inv, CycleOK
  <2>5. HeardOK'
    BY <1>2 DEF Supervise, Inv, HeardOK
  <2> QED BY <1>2, <2>2, <2>3, <2>4, <2>5 DEF Supervise, Inv
<1>3. CASE LeavesPlan \/ PlansInCycle \/ PlansBeside \/ PlannerInFlight
  <2>1. PICK wakes \in BOOLEAN, next \in {"execute", "planning"} : Decide(wakes, next)
    BY <1>3 DEF LeavesPlan, PlansInCycle, PlansBeside, PlannerInFlight
  <2>2. snap \in Worlds
    BY <2>1, SnapThere DEF Decide
  <2>3. MemoryOK' /\ StallsOK'
    <3>1. PICK trouble \in BOOLEAN, same \in BOOLEAN : Evaluated(Reason(trouble), same)
      BY <2>1 DEF Decide
    <3> QED BY <2>2, <3>1, EvaluatedTypes DEF Inv
  <2>4. /\ pc = "decide" /\ pc' = next /\ drained' = None /\ advice' = None
        /\ UNCHANGED <<profile, world, latest, snap, plan, timeouts, fallback, execBad, handed>>
    BY <2>1 DEF Decide
  <2>5. ChatOK'
    <3>1. \/ UNCHANGED chat
          \/ chat' = Cleared("given")
          \/ chat' = Moved("pending", "lost")
      BY <1>3 DEF LeavesPlan, PlansInCycle, PlansBeside, PlannerInFlight
    <3> QED BY <3>1, MovedTypes, ClearedTypes DEF Inv, ChatOK, Places
  <2>6. CallOK'
    <3>1. CASE StartsCall
      BY <2>2, <3>1, Limits DEF StartsCall, Inv, CallOK
    <3>2. StartsCall \/ UNCHANGED <<planner, key, attempt, plannerBad>>
      BY <1>3 DEF LeavesPlan, PlansInCycle, PlansBeside, PlannerInFlight
    <3> QED BY <3>1, <3>2
  <2>7. CycleOK' /\ HeardOK'
    BY <2>2, <2>4, Limits DEF CycleOK, HeardOK
  <2> QED BY <2>3, <2>4, <2>5, <2>6, <2>7 DEF Inv
<1>4. CASE ReplanReturns
  <2>1. ChatOK'
    <3>1. chat' \in {Cleared("heard"), Cleared("lost")}
      BY <1>4 DEF ReplanReturns
    <3> QED BY <3>1, ClearedTypes DEF Inv, ChatOK, Places
  <2>2. pc = "planning" /\ pc' = "execute" /\ snap' = snap
    BY <1>4 DEF ReplanReturns
  <2>3. CycleOK'
    BY <2>2 DEF Inv, CycleOK
  <2> QED BY <1>4, <2>1, <2>3 DEF ReplanReturns, Inv
<1>5. CASE HandoffToFroggy
    BY <1>5, CycleOverTypes DEF HandoffToFroggy, Inv, HandedOK
<1>6. CASE ExecutorIdles
  <2>1. StallsOK'
    BY <1>6, StalledTypes DEF ExecutorIdles, Inv
  <2> QED BY <1>6, <2>1, CycleOverTypes DEF ExecutorIdles, Inv
<1>7. CASE ExecutorAsks
  <2>1. CycleOK'
    BY <1>7 DEF ExecutorAsks, Inv, CycleOK
  <2> QED BY <1>7, <2>1 DEF ExecutorAsks, Inv
<1>8. CASE ExecutorAnswers
  <2>1. StallsOK'
    BY <1>8, StalledTypes DEF ExecutorAnswers, Inv
  <2>2. LatestOK' /\ ExecutorOK' /\ CycleOK'
    BY <1>8, SeenTypes, RecoversTypes, CycleOverTypes DEF ExecutorAnswers
  <2> QED BY <1>8, <2>1, <2>2 DEF ExecutorAnswers, Inv
<1>9. CASE ExecutorRaises
    BY <1>9, RecoversTypes, CycleOverTypes DEF ExecutorRaises, Inv
<1>10. CASE ExecutorFails
  <2>1. StallsOK'
    BY <1>10, StalledTypes DEF ExecutorFails, Inv
  <2>2. ExecutorOK'
    <3>1. CASE timeouts + 1 < TimeoutLimit /\ timeouts' = timeouts + 1 /\ UNCHANGED <<fallback, execBad>>
      <4>1. timeouts' \in 0 .. TimeoutLimit /\ timeouts # TimeoutLimit
        BY <3>1, Limits DEF Inv, ExecutorOK
      <4> QED BY <3>1, <4>1 DEF Inv, ExecutorOK, ExecutorSpent
    <3>2. CASE ~fallback /\ timeouts' = 0 /\ fallback' = TRUE /\ UNCHANGED execBad
      <4>1. timeouts' \in 0 .. TimeoutLimit
        BY <3>2, Limits
      <4> QED BY <3>2, <4>1 DEF Inv, ExecutorOK, ExecutorSpent
    <3>3. CASE fallback /\ timeouts' = TimeoutLimit /\ execBad' = TRUE /\ UNCHANGED fallback
      <4>1. timeouts' \in 0 .. TimeoutLimit
        BY <3>3, Limits
      <4> QED BY <3>3, <4>1 DEF Inv, ExecutorOK, ExecutorSpent
    <3> QED BY <1>10, <3>1, <3>2, <3>3 DEF ExecutorFails
  <2> QED BY <1>10, <2>1, <2>2, CycleOverTypes DEF ExecutorFails, Inv
<1>11. CASE PlannerAccepts
  <2>1. key \in Worlds
    BY <1>11 DEF PlannerAccepts, Inv, CallOK
  <2>2. PlanOK'
    BY <1>11, <2>1, NewPlanTypes DEF PlannerAccepts, PlanOK
  <2>3. CallOK'
    BY <1>11 DEF PlannerAccepts, Inv, CallOK
  <2> QED BY <1>11, <2>2, <2>3 DEF PlannerAccepts, Inv
<1>12. CASE PlannerDiscards
  <2>1. CallOK'
    BY <1>12, CallOverTypes DEF PlannerDiscards, Inv, CallOK
  <2> QED BY <1>12, <2>1, GivenTypes DEF PlannerDiscards, Inv
<1>13. CASE PlannerFinishes
    BY <1>13, CallOverTypes, SeenTypes, GivenTypes DEF PlannerFinishes, Inv
<1>14. CASE PlannerRetries
  <2>1. CallOK'
    BY <1>14 DEF PlannerRetries, Inv, CallOK
  <2> QED BY <1>14, <2>1 DEF PlannerRetries, Inv
<1>15. CASE PlannerGivesUp
    BY <1>15, CallOverTypes, GivenTypes DEF PlannerGivesUp, Inv
<1>16. CASE PlannerRaises
  <2>1. CallOK'
    BY <1>16, CallOverTypes DEF PlannerRaises, Inv, CallOK
  <2>2. CycleOK' /\ ChatOK'
    <3>1. CASE pc = "planning"
      BY <1>16, <3>1, CycleOverTypes DEF PlannerRaises, MessagesAfterError
    <3>2. CASE pc # "planning"
      BY <1>16, <3>2, GivenTypes DEF PlannerRaises
    <3> QED BY <3>1, <3>2
  <2> QED BY <1>16, <2>1, <2>2 DEF PlannerRaises, Inv
<1>17. CASE LoopEnds
  <2>1. CycleOK'
    BY <1>17 DEF LoopEnds, Inv, CycleOK
  <2> QED BY <1>17, <2>1 DEF LoopEnds, Inv
<1>18. CASE WorldMoves
  <2>1. OutsideOK'
    BY <1>18 DEF WorldMoves, Inv, OutsideOK
  <2> QED BY <1>18, <2>1 DEF WorldMoves, Inv
<1>19. CASE DebounceEnds
  <2>1. MemoryOK'
    BY <1>19 DEF DebounceEnds, Inv, MemoryOK
  <2> QED BY <1>19, <2>1 DEF DebounceEnds, Inv
<1>20. CASE PlanExpires
  <2>1. PlanOK'
    BY <1>20 DEF PlanExpires, Inv, PlanOK, Plans
  <2> QED BY <1>20, <2>1 DEF PlanExpires, Inv
<1>21. CASE \E m \in Messages : Say(m)
  <2>1. ChatOK'
    BY <1>21 DEF Say, Inv, ChatOK, Places
  <2> QED BY <1>21, <2>1 DEF Say, Inv
<1>22. CASE UNCHANGED vars
    BY <1>22 DEF vars, Inv
<1> QED
    BY <1>1, <1>2, <1>3, <1>4, <1>5, <1>6, <1>7, <1>8, <1>9, <1>10, <1>11, <1>12, <1>13,
       <1>14, <1>15, <1>16, <1>17, <1>18, <1>19, <1>20, <1>21, <1>22
       DEF Next, LoopStep, PlannerStep, PlannerTrouble, Environment

\* The loop starts with its types.
LEMMA InvAtStart == Init => Inv
<1> SUFFICES ASSUME Init PROVE Inv
    OBVIOUS
<1>1. OutsideOK /\ LatestOK /\ ChatOK /\ CycleOK /\ HeardOK
    BY DEF Init, OutsideOK, LatestOK, ChatOK, CycleOK, HeardOK, Places
<1>2. PlanOK /\ HandedOK
    BY DEF Init, PlanOK, HandedOK, Plans
<1>3. CallOK
  <2>1. attempt \in 0 .. 1
    BY DEF Init
  <2> QED BY <2>1 DEF Init, CallOK
<1>4. timeouts \in 0 .. TimeoutLimit /\ StallsOK
    BY Limits DEF Init, StallsOK
<1>5. ExecutorOK
    BY <1>4 DEF Init, ExecutorOK, ExecutorSpent
<1>6. MemoryOK
    BY DEF Init, MemoryOK
<1> QED BY <1>1, <1>2, <1>3, <1>4, <1>5, <1>6 DEF Inv

\* The loop's state keeps its type; a stalled count and a count of failures never
\* pass their limits, and a planner call always has the snapshot it was made for.
THEOREM TypeCorrect == Spec => []TypeOK
<1>1. Inv => TypeOK
    BY DEF Inv, OutsideOK, LatestOK, ChatOK, CycleOK, HeardOK, PlanOK, CallOK, ExecutorOK,
       MemoryOK, StallsOK, HandedOK, Places, Plans, TypeOK
<1> QED BY <1>1, InvAtStart, InvKept, PTL DEF Spec

\* The hand-over follows the planner's failure and TimeoutLimit failures in a row
\* of the model that had already replaced the executor's.
THEOREM HandoffEarned == Spec => HandoffIsEarned
<1>1. Inv /\ [Next]_vars => [handed' /\ ~handed => plannerBad /\ fallback /\ timeouts = TimeoutLimit]_vars
  <2> SUFFICES ASSUME Inv, Next, handed', ~handed
               PROVE  plannerBad /\ fallback /\ timeouts = TimeoutLimit
      OBVIOUS
  <2>1. HandoffToFroggy
    BY DEF Next, LoopStep, PlannerStep, PlannerTrouble, Environment, Observe, Supervise,
       LeavesPlan, PlansInCycle, PlansBeside, PlannerInFlight, Decide, ReplanReturns,
       ExecutorIdles, ExecutorAsks, ExecutorAnswers, ExecutorRaises, ExecutorFails,
       PlannerAccepts, PlannerDiscards, PlannerFinishes, PlannerRetries, PlannerGivesUp,
       PlannerRaises, WorldMoves, Say, PlanExpires, DebounceEnds, LoopEnds
  <2> QED BY <2>1 DEF HandoffToFroggy, BothUnhealthy, Inv, ExecutorOK, ExecutorSpent
<1> QED BY <1>1, InvAtStart, InvKept, PTL DEF Spec, HandoffIsEarned

-----------------------------------------------------------------------------
(* Plans.                                                                   *)

\* A call made in the cycle ends before its cycle goes on, and plans for the
\* snapshot the cycle holds.
CallInCycle == ~profile.async /\ planner # "idle" => pc = "planning" /\ key = snap

\* No step but the one that ends the call leaves "planning".
LEMMA CallInCycleKept ==
    ASSUME CallInCycle, [Next]_vars
    PROVE  CallInCycle'
<1> USE DEF CallInCycle, game, input, cycle, call, executor, controller
<1>1. CASE Observe \/ Supervise BY <1>1 DEF Observe, Supervise
<1>2. CASE LeavesPlan \/ PlansBeside \/ PlannerInFlight
  BY <1>2 DEF LeavesPlan, PlansBeside, PlannerInFlight, Decide
<1>3. CASE PlansInCycle BY <1>3 DEF PlansInCycle, Decide, StartsCall
<1>4. CASE ReplanReturns BY <1>4 DEF ReplanReturns
<1>5. CASE HandoffToFroggy \/ ExecutorIdles \/ ExecutorAsks
  BY <1>5 DEF HandoffToFroggy, ExecutorIdles, ExecutorAsks
<1>6. CASE ExecutorAnswers \/ ExecutorRaises \/ ExecutorFails
  BY <1>6 DEF ExecutorAnswers, ExecutorRaises, ExecutorFails
<1>7. CASE PlannerAccepts \/ PlannerRetries BY <1>7 DEF PlannerAccepts, PlannerRetries
<1>8. CASE PlannerDiscards \/ PlannerFinishes \/ PlannerGivesUp \/ PlannerRaises
  BY <1>8 DEF PlannerDiscards, PlannerFinishes, PlannerGivesUp, PlannerRaises, CallOver
<1>9. CASE WorldMoves \/ (\E m \in Messages : Say(m)) \/ PlanExpires \/ DebounceEnds \/ LoopEnds
  BY <1>9 DEF WorldMoves, Say, PlanExpires, DebounceEnds, LoopEnds
<1>10. CASE UNCHANGED vars BY <1>10 DEF vars
<1> QED BY <1>1, <1>2, <1>3, <1>4, <1>5, <1>6, <1>7, <1>8, <1>9, <1>10
  DEF Next, LoopStep, PlannerStep, PlannerTrouble, Environment

\* Only PlannerAccepts makes a call that asks one that runs its tools.
LEMMA OnlyAcceptedWrites ==
    ASSUME Next, planner = "asking", planner' = "tools"
    PROVE  PlannerAccepts
BY DEF Next, LoopStep, PlannerStep, PlannerTrouble, Environment, Observe, Supervise,
   LeavesPlan, PlansInCycle, PlansBeside, PlannerInFlight, Decide, StartsCall, ReplanReturns,
   HandoffToFroggy, ExecutorIdles, ExecutorAsks, ExecutorAnswers, ExecutorRaises,
   ExecutorFails, PlannerDiscards, PlannerFinishes, PlannerRetries, PlannerGivesUp,
   PlannerRaises, CallOver, WorldMoves, Say, PlanExpires, DebounceEnds, LoopEnds, call

\* A plan is written for the latest snapshot the bridge has when planner and loop
\* run side by side, since accept_plan compares the two, and otherwise for the
\* snapshot of the cycle that waits for it.
THEOREM PlansForTheSeen == Spec => PlanIsForWhatIsSeen
<1>1. CallInCycle /\ [Next]_vars
      => [plan' # plan /\ planner' = "tools" /\ planner = "asking"
            => plan'.for = IF profile.async THEN latest ELSE snap]_vars
  <2> SUFFICES ASSUME CallInCycle, Next, planner' = "tools", planner = "asking"
               PROVE  plan'.for = IF profile.async THEN latest ELSE snap
    OBVIOUS
  <2>1. PlannerAccepts BY OnlyAcceptedWrites
  <2>2. plan'.for = key /\ ~Stale BY <2>1 DEF PlannerAccepts, NewPlan
  <2> QED BY <2>2 DEF Stale, CallInCycle
<1>2. Init => CallInCycle BY DEF Init, CallInCycle
<1> QED BY <1>1, <1>2, CallInCycleKept, PTL DEF Spec, PlanIsForWhatIsSeen
=============================================================================
