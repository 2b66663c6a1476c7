---------------------------- MODULE FroggyRunProofs ----------------------------
(***************************************************************************)
(* Theorems about FroggyRun.tla: what the bot thread counts as a completed   *)
(* run, for every set of states the bridge may ask for and all its limits.  *)
(***************************************************************************)
EXTENDS FroggyRun, TLAPS

\* A run that is not marked has no credit.
CreditFollowsMark == credits \in 0 .. 1 /\ (~marked => credits = 0)

Done == objective /\ progress

\* The dungeon loop reports a completed run only with the boss's reward claimed.
LoopTellsTruth == pc = "looped" /\ completed => Done

\* While another handler runs, only the bridge can have stored awaiting_return.
OthersDoNotWait ==
    current \notin {None, "awaiting_return"} /\ state = "awaiting_return" => meddled

\* The waiting state, stored or being handled, follows a finished run.
WaitFollowsDone ==
    (pc = "fetch" /\ state = "awaiting_return") \/ current = "awaiting_return"
        => marked \/ meddled \/ Done

\* The parts of HandleDungeon run as the handler of in_dungeon, and the wait for
\* the way back as that of awaiting_return.
HandlerKnown ==
    /\ pc \in {"prepare", "enter", "entered", "loop", "loop_enter", "route", "routed", "looped"}
          => current = "in_dungeon"
    /\ pc = "leaving" => current = "awaiting_return"
    /\ pc \in {"fetch", "ended"} => current = None
    /\ current \in Handled \cup {None}

RunInv == LoopTellsTruth /\ OthersDoNotWait /\ WaitFollowsDone /\ HandlerKnown

-----------------------------------------------------------------------------
(* Types.                                                                   *)

\* A handler may return any state of its own list.
LEMMA ReturnTypes ==
    ASSUME TypeOK, NEW next \in States, Return(next)
    PROVE  pc' = "fetch" /\ current' = None /\ state' \in States
BY DEF Return, TypeOK

\* The failure count stays below its threshold.
LEMMA FailuresBounded ==
    ASSUME TypeOK, RecordFailure
    PROVE  map' \in Maps /\ failures' \in 0 .. (Threshold - 1)
<1> USE FroggyAssumption DEF TypeOK
<1>1. CASE failures + 1 < Threshold BY <1>1 DEF RecordFailure
<1>2. CASE ~(failures + 1 < Threshold) BY <1>2 DEF RecordFailure, Maps
<1> QED BY <1>1, <1>2

\* Each action keeps the run's types.
LEMMA TypeKept ==
    ASSUME TypeOK, [Next]_vars
    PROVE  TypeOK'
<1> USE FroggyAssumption DEF TypeOK, run
<1>1. CASE Fetch \/ LeaveLoop BY <1>1 DEF Fetch, LeaveLoop
<1>2. CASE HandlerThrows
  <2>1. Return("error") BY <1>2 DEF HandlerThrows
  <2>2. "error" \in States BY DEF States, Handled
  <2> QED BY <1>2, <2>1, <2>2, ReturnTypes DEF HandlerThrows
<1>3. CASE InTownHandlers
  <2>1. PICK next \in States : Return(next)
    BY <1>3 DEF InTownHandlers, CharSelect, TownTravels, TownSetsUp, Travel, Loot, Merchant,
       Maintenance, ErrorRecovery, States, Handled, Maps, Bogroot
  <2>2. UNCHANGED <<stop, run, meddled>> /\ map' \in Maps
    BY <1>3 DEF InTownHandlers, CharSelect, TownTravels, TownSetsUp, Travel, Loot, Merchant,
       Maintenance, ErrorRecovery, Maps
  <2> QED BY <2>1, <2>2, ReturnTypes
<1>4. CASE DungeonHandler \/ AwaitingHandler
  <2>1. \/ pc' = "fetch" /\ current' = None /\ state' \in States
        \/ /\ pc' \in {"prepare", "enter", "entered", "loop", "leaving"}
           /\ UNCHANGED <<state, current>>
    BY <1>4, ReturnTypes DEF DungeonHandler, AwaitingHandler, AtEntry, NotAtEntry, PrepareFails,
       Prepared, Enter, StartRun, NoRun, LoopCompleted, LoopFailed, AwaitReturn, AwaitInBogroot,
       Leave, NextRun, States, Handled
  <2>2. map' \in Maps /\ failures' \in 0 .. (Threshold - 1)
    <3>1. CASE PrepareFails BY <3>1, FailuresBounded DEF PrepareFails
    <3>2. CASE ~PrepareFails
      <4>1. failures' \in {failures, 0}
        BY <1>4, <3>2 DEF DungeonHandler, AwaitingHandler, AtEntry, NotAtEntry, Prepared, Enter,
           StartRun, NoRun, LoopCompleted, LoopFailed, AwaitReturn, AwaitInBogroot, Leave
      <4>2. map' \in {map, "lvl1", "gadds"}
        BY <1>4, <3>2 DEF DungeonHandler, AwaitingHandler, AtEntry, NotAtEntry, Prepared, Enter,
           StartRun, NoRun, LoopCompleted, LoopFailed, AwaitReturn, AwaitInBogroot, Leave
      <4> QED BY <4>1, <4>2 DEF Maps
    <3> QED BY <3>1, <3>2
  <2>3. /\ marked' \in {marked, TRUE, FALSE} /\ objective' \in {objective, FALSE}
        /\ progress' \in {progress, FALSE} /\ completed' \in {completed, FALSE}
        /\ meddled' \in {meddled, state = "awaiting_return"} /\ UNCHANGED stop
    BY <1>4 DEF DungeonHandler, AwaitingHandler, AtEntry, NotAtEntry, PrepareFails, Prepared,
       Enter, StartRun, NoRun, LoopCompleted, LoopFailed, AwaitReturn, AwaitInBogroot, Leave,
       MarkCompleted, NotMarked
  <2>4. credits' \in 0 .. 2 /\ refreshes' \in {refreshes, 0}
    BY <1>4 DEF DungeonHandler, AwaitingHandler, AtEntry, NotAtEntry, PrepareFails, Prepared,
       Enter, StartRun, NoRun, LoopCompleted, LoopFailed, AwaitReturn, AwaitInBogroot, Leave,
       MarkCompleted, NotMarked
  <2>5. /\ marked' \in BOOLEAN /\ objective' \in BOOLEAN /\ progress' \in BOOLEAN
        /\ completed' \in BOOLEAN /\ meddled' \in BOOLEAN
        /\ stop' \in BOOLEAN
    BY <2>3, Zenon
  <2>6. refreshes' \in 0 .. MaxRefresh BY <2>4
  <2>7. /\ pc' \in {"fetch", "prepare", "enter", "entered", "loop", "leaving"}
        /\ state' \in States /\ current' \in Handled \cup {None}
    BY <2>1
  <2> QED BY <2>2, <2>4, <2>5, <2>6, <2>7
<1>5. CASE DungeonLoop
  <2>1. pc' \in {"loop", "loop_enter", "route", "routed", "looped"} /\ completed' \in BOOLEAN
    BY <1>5 DEF DungeonLoop, LoopInLevel, LoopRefreshes, LoopReenters, LoopAtEntryEnds,
       LoopElsewhere, FollowRoute, Routed, LoopEnds, LoopTo, EntryReturnCompletes
  <2>2. map' \in Maps /\ failures' \in 0 .. (Threshold - 1) /\ refreshes' \in 0 .. MaxRefresh
    <3>1. CASE LoopRefreshes
      <4>1. refreshes' \in 0 .. MaxRefresh
        <5>1. refreshes < MaxRefresh /\ refreshes' = refreshes + 1
          BY <3>1 DEF LoopRefreshes, Refreshed
        <5>2. refreshes \in 0 .. MaxRefresh OBVIOUS
        <5> HIDE DEF TypeOK
        <5> QED BY <5>1, <5>2
      <4>2. (failures' = 0 /\ map' = map) \/ RecordFailure BY <3>1 DEF LoopRefreshes
      <4> QED BY <4>1, <4>2, FailuresBounded
    <3>2. CASE ~LoopRefreshes
      BY <1>5, <3>2 DEF DungeonLoop, LoopInLevel, LoopReenters, LoopAtEntryEnds, LoopElsewhere,
         FollowRoute, Routed, Maps
    <3> QED BY <3>1, <3>2
  <2>3. objective' \in BOOLEAN /\ progress' \in BOOLEAN
    BY <1>5 DEF DungeonLoop, LoopInLevel, LoopRefreshes, LoopReenters, LoopAtEntryEnds,
       LoopElsewhere, FollowRoute, Routed, Reached
  <2>4. UNCHANGED <<state, stop, current, marked, credits, meddled>>
    BY <1>5 DEF DungeonLoop, LoopInLevel, LoopRefreshes, LoopReenters, LoopAtEntryEnds,
       LoopElsewhere, FollowRoute, Routed
  <2> QED BY <2>1, <2>2, <2>3, <2>4
<1>6. CASE PartyMoves BY <1>6 DEF PartyMoves
<1>7. CASE SetBotState BY <1>7 DEF SetBotState
<1>8. CASE StopBot BY <1>8 DEF StopBot, States
<1>9. CASE UNCHANGED vars BY <1>9 DEF vars
<1> QED BY <1>1, <1>2, <1>3, <1>4, <1>5, <1>6, <1>7, <1>8, <1>9 DEF Next, BotStep

\* The bot thread's variables keep their types for every set of requests and
\* all limits of refreshes and failures.
THEOREM TypeCorrect == Spec => []TypeOK
<1>1. Init => TypeOK
  <2> SUFFICES ASSUME Init PROVE TypeOK OBVIOUS
  <2>1. 0 \in 0 .. MaxRefresh /\ 0 \in 0 .. (Threshold - 1) /\ 0 \in 0 .. 2 BY FroggyAssumption
  <2>2. "in_town" \in States /\ "char_select" \in States BY DEF States, Handled
  <2> QED BY <2>1, <2>2 DEF Init, TypeOK
<1>2. TypeOK /\ [Next]_vars => TypeOK' BY TypeKept
<1> QED BY <1>1, <1>2, PTL DEF Spec

-----------------------------------------------------------------------------
(* Credits.                                                                 *)

\* Whoever marks the run, the credit is given once.
LEMMA MarkKeepsCredit ==
    ASSUME CreditFollowsMark, MarkCompleted \/ NotMarked
    PROVE  CreditFollowsMark'
BY DEF CreditFollowsMark, MarkCompleted, NotMarked

\* No step credits a run that is marked.
LEMMA CreditKept ==
    ASSUME CreditFollowsMark, [Next]_vars
    PROVE  CreditFollowsMark'
<1>1. CASE StartRun BY <1>1 DEF StartRun, CreditFollowsMark
<1>2. CASE LoopCompleted BY <1>2, MarkKeepsCredit DEF LoopCompleted
<1>3. CASE AwaitReturn BY <1>3, MarkKeepsCredit DEF AwaitReturn
<1>4. CASE Leave BY <1>4, MarkKeepsCredit DEF Leave
<1>5. CASE ~(StartRun \/ LoopCompleted \/ AwaitReturn \/ Leave)
  <2>1. UNCHANGED <<marked, credits>>
    BY <1>5 DEF Next, BotStep, InTownHandlers, DungeonHandler, DungeonLoop, AwaitingHandler, Fetch,
       LeaveLoop, HandlerThrows, CharSelect, TownTravels, TownSetsUp, Travel, Loot, Merchant,
       Maintenance, ErrorRecovery, AtEntry, NotAtEntry, PrepareFails, Prepared, Enter, NoRun,
       LoopFailed, LoopInLevel, LoopRefreshes, LoopReenters, LoopAtEntryEnds, LoopElsewhere,
       FollowRoute, Routed, AwaitInBogroot, PartyMoves, SetBotState, StopBot, run, vars
  <2> QED BY <2>1 DEF CreditFollowsMark
<1> QED BY <1>1, <1>2, <1>3, <1>4, <1>5

\* However the dungeon loop, the waiting handler and the requests of the bridge
\* follow one another, a run is counted once (MarkFroggyRunCompleted).
THEOREM OneCredit == Spec => []OneCreditPerRun
<1>1. Init => CreditFollowsMark BY DEF Init, CreditFollowsMark
<1>2. CreditFollowsMark /\ [Next]_vars => CreditFollowsMark' BY CreditKept
<1>3. CreditFollowsMark => OneCreditPerRun BY DEF CreditFollowsMark, OneCreditPerRun
<1> QED BY <1>1, <1>2, <1>3, PTL DEF Spec

-----------------------------------------------------------------------------
(* What the credit is for.                                                  *)

\* A handler runs for a state that is not None.
LEMMA NoneIsNoState == None \notin Handled
BY FroggyAssumption DEF States

\* A handler that returns a state other than awaiting_return keeps the facts
\* about the waiting state, whatever the bridge stored meanwhile.
LEMMA ReturnKeeps ==
    ASSUME RunInv, pc \notin {"fetch", "ended"}, NEW next, next # "awaiting_return",
           current # None, current # "awaiting_return", Return(next),
           UNCHANGED <<objective, progress, meddled>>, marked => marked'
    PROVE  RunInv'
<1>1. current' = None /\ pc' = "fetch" BY DEF Return
<1>2. state' = "awaiting_return" => state = "awaiting_return" BY DEF Return
<1>3. state' = "awaiting_return" => meddled' BY <1>2 DEF RunInv, OthersDoNotWait
<1>4. None # "awaiting_return" BY NoneIsNoState DEF Handled
<1>5. LoopTellsTruth' BY <1>1 DEF LoopTellsTruth
<1>6. OthersDoNotWait' BY <1>1 DEF OthersDoNotWait
<1>7. WaitFollowsDone' BY <1>1, <1>3, <1>4 DEF WaitFollowsDone
<1>8. HandlerKnown' BY <1>1 DEF HandlerKnown
<1> QED BY <1>5, <1>6, <1>7, <1>8 DEF RunInv

\* A step inside the handler of in_dungeon that leaves the stored state alone.
LEMMA InsideKeeps ==
    ASSUME RunInv, current = "in_dungeon", UNCHANGED <<state, current, meddled>>,
           pc' \in {"prepare", "enter", "entered", "loop", "loop_enter", "route", "routed", "looped"},
           pc' = "looped" /\ completed' => objective' /\ progress'
    PROVE  RunInv'
<1>1. current' # None /\ current' \in Handled BY NoneIsNoState DEF RunInv, HandlerKnown, Handled
<1> QED BY <1>1
  DEF RunInv, LoopTellsTruth, OthersDoNotWait, WaitFollowsDone, HandlerKnown, Done

\* The handlers outside the dungeon never return awaiting_return.
LEMMA TownKeeps ==
    ASSUME RunInv, InTownHandlers
    PROVE  RunInv'
<1> USE NoneIsNoState
<1> DEFINE Others == {"char_select", "in_town", "traveling", "looting", "merchant", "maintenance",
                      "error"}
<1>1. pc = "handle" /\ current \in Others /\ UNCHANGED <<run, meddled>>
  BY DEF InTownHandlers, CharSelect, TownTravels, TownSetsUp, Travel, Loot, Merchant, Maintenance,
     ErrorRecovery, Handling
<1>2. PICK next \in States \ {"awaiting_return"} : Return(next)
  BY DEF InTownHandlers, CharSelect, TownTravels, TownSetsUp, Travel, Loot, Merchant, Maintenance,
     ErrorRecovery, States, Handled
<1>3. current # None /\ current # "awaiting_return" BY <1>1 DEF Handled
<1>4. UNCHANGED <<objective, progress, meddled, marked>> BY <1>1 DEF run
<1> QED BY <1>1, <1>2, <1>3, <1>4, ReturnKeeps

\* HandleDungeon before and after the loop.
LEMMA DungeonKeeps ==
    ASSUME RunInv, DungeonHandler
    PROVE  RunInv'
<1> USE NoneIsNoState DEF run
<1>0. "in_dungeon" \in Handled /\ "in_dungeon" # None BY DEF Handled
<1>1. CASE AtEntry
  <2>1. pc = "handle" /\ current = "in_dungeon" /\ UNCHANGED run /\ UNCHANGED meddled
    BY <1>1 DEF AtEntry, Handling
  <2>2. CASE pc' = "prepare" /\ UNCHANGED <<state, current>> BY <2>1, <2>2, InsideKeeps
  <2>3. CASE \E next \in {"merchant", "in_dungeon"} : Return(next)
    BY <1>0, <2>1, <2>3, ReturnKeeps
  <2> QED BY <1>1, <2>2, <2>3 DEF AtEntry
<1>2. CASE NotAtEntry BY <1>2, InsideKeeps DEF NotAtEntry, Handling
<1>3. CASE PrepareFails
  BY <1>0, <1>3, ReturnKeeps DEF PrepareFails, RunInv, HandlerKnown
<1>4. CASE Prepared BY <1>4, InsideKeeps DEF Prepared, RunInv, HandlerKnown
<1>5. CASE Enter
  <2>1. pc = "enter" /\ current = "in_dungeon" /\ UNCHANGED run /\ UNCHANGED meddled
    BY <1>5 DEF Enter, RunInv, HandlerKnown
  <2>2. CASE pc' = "entered" /\ UNCHANGED <<state, current>> BY <2>1, <2>2, InsideKeeps
  <2>3. CASE Return("in_dungeon") BY <1>0, <2>1, <2>3, ReturnKeeps
  <2> QED BY <1>5, <2>2, <2>3 DEF Enter
\* A new run: what the bridge stored before counts as its request.
<1>6. CASE StartRun
  <2>1. current = "in_dungeon" BY <1>6 DEF StartRun, RunInv, HandlerKnown
  <2> QED BY <1>0, <1>6, <2>1
    DEF StartRun, RunInv, LoopTellsTruth, OthersDoNotWait, WaitFollowsDone, HandlerKnown
<1>7. CASE NoRun
  <2>1. pc = "entered" /\ current = "in_dungeon" /\ UNCHANGED run /\ UNCHANGED meddled
    BY <1>7 DEF NoRun, RunInv, HandlerKnown
  <2>2. PICK next \in {"in_town", "in_dungeon"} : Return(next) BY <1>7 DEF NoRun
  <2> QED BY <1>0, <2>1, <2>2, ReturnKeeps
\* The loop's success is the only way to awaiting_return, and it is a true one.
<1>8. CASE LoopCompleted
  <2>1. /\ pc = "looped" /\ current = "in_dungeon" /\ Done
        /\ UNCHANGED <<objective, progress, meddled>>
    BY <1>8 DEF LoopCompleted, RunInv, HandlerKnown, LoopTellsTruth
  <2>2. marked => marked' BY <1>8 DEF LoopCompleted, MarkCompleted, NotMarked
  <2>3. CASE \E next \in {"merchant", "in_dungeon", "in_town"} : Return(next)
    BY <1>0, <2>1, <2>2, <2>3, ReturnKeeps
  <2>4. CASE Return("awaiting_return")
    <3>1. pc' = "fetch" /\ current' = None BY <2>4 DEF Return
    <3> QED BY <2>1, <3>1
      DEF RunInv, LoopTellsTruth, OthersDoNotWait, WaitFollowsDone, HandlerKnown, Done
  <2> QED BY <1>8, <2>3, <2>4 DEF LoopCompleted, NextRun
<1>9. CASE LoopFailed
  BY <1>0, <1>9, ReturnKeeps DEF LoopFailed, RunInv, HandlerKnown
<1> QED BY <1>1, <1>2, <1>3, <1>4, <1>5, <1>6, <1>7, <1>8, <1>9 DEF DungeonHandler

\* RunDungeonLoop: every end it calls completed has the objective and level 2.
LEMMA LoopKeeps ==
    ASSUME RunInv, DungeonLoop
    PROVE  RunInv'
<1> USE DEF LoopTo, LoopEnds
<1>1. current = "in_dungeon" /\ UNCHANGED <<state, current, meddled>>
  BY DEF DungeonLoop, LoopInLevel, LoopRefreshes, LoopReenters, LoopAtEntryEnds, LoopElsewhere,
     FollowRoute, Routed, RunInv, HandlerKnown
<1>2. pc' \in {"prepare", "enter", "entered", "loop", "loop_enter", "route", "routed", "looped"}
  BY DEF DungeonLoop, LoopInLevel, LoopRefreshes, LoopReenters, LoopAtEntryEnds, LoopElsewhere,
     FollowRoute, Routed
<1>3. pc' = "looped" /\ completed' => objective' /\ progress'
  <2>1. CASE LoopInLevel BY <2>1 DEF LoopInLevel
  <2>2. CASE LoopRefreshes BY <2>2 DEF LoopRefreshes
  <2>3. CASE LoopReenters BY <2>3 DEF LoopReenters
  <2>4. CASE LoopAtEntryEnds BY <2>4 DEF LoopAtEntryEnds, EntryReturnCompletes
  <2>5. CASE LoopElsewhere BY <2>5 DEF LoopElsewhere
  <2>6. CASE FollowRoute BY <2>6 DEF FollowRoute
  <2>7. CASE Routed BY <2>7 DEF Routed, EntryReturnCompletes, Reached
  <2> QED BY <2>1, <2>2, <2>3, <2>4, <2>5, <2>6, <2>7 DEF DungeonLoop
<1> QED BY <1>1, <1>2, <1>3, InsideKeeps

\* The wait for the way back, however it ends, leaves a run that was finished.
LEMMA AwaitKeeps ==
    ASSUME RunInv, AwaitingHandler
    PROVE  RunInv'
<1> USE NoneIsNoState DEF run
<1>1. current = "awaiting_return" /\ UNCHANGED <<objective, progress, meddled>>
  BY DEF AwaitingHandler, AwaitReturn, AwaitInBogroot, Leave, Handling, RunInv, HandlerKnown
<1>2. marked => marked'
  BY DEF AwaitingHandler, AwaitReturn, AwaitInBogroot, Leave, MarkCompleted, NotMarked
<1>3. marked \/ meddled \/ Done BY <1>1 DEF RunInv, WaitFollowsDone
<1>4. marked' \/ meddled' \/ Done' BY <1>1, <1>2, <1>3 DEF Done
<1>5. (pc' = "fetch" /\ current' = None) \/ (pc' = "leaving" /\ current' = "awaiting_return")
  BY <1>1 DEF AwaitingHandler, AwaitReturn, AwaitInBogroot, Leave, Return, NextRun
<1>6. "awaiting_return" \in Handled BY DEF Handled
<1> QED BY <1>4, <1>5, <1>6
  DEF RunInv, LoopTellsTruth, OthersDoNotWait, WaitFollowsDone, HandlerKnown

\* Every step of the bot thread, the game, the bridge and the DLL keeps the facts.
LEMMA RunKept ==
    ASSUME RunInv, [Next]_vars
    PROVE  RunInv'
<1> USE NoneIsNoState DEF run
<1>0. None # "awaiting_return" BY DEF Handled
<1>1. CASE Fetch
  <2>1. pc' = "handle" /\ current' = state /\ state' = state /\ state \in Handled
    BY <1>1 DEF Fetch
  <2>2. UNCHANGED <<objective, progress, marked, meddled>> /\ pc = "fetch" BY <1>1 DEF Fetch
  <2>3. LoopTellsTruth' BY <2>1 DEF LoopTellsTruth
  <2>4. OthersDoNotWait' BY <2>1 DEF OthersDoNotWait
  <2>5. WaitFollowsDone' BY <2>1, <2>2 DEF RunInv, WaitFollowsDone, Done
  <2>6. HandlerKnown' BY <2>1 DEF HandlerKnown
  <2> QED BY <2>3, <2>4, <2>5, <2>6 DEF RunInv
<1>2. CASE LeaveLoop
  <2>1. pc' = "ended" /\ current = None /\ UNCHANGED <<state, current, run, meddled>>
    BY <1>2 DEF LeaveLoop, RunInv, HandlerKnown
  <2> QED BY <1>0, <2>1
    DEF RunInv, LoopTellsTruth, OthersDoNotWait, WaitFollowsDone, HandlerKnown
\* What a handler throws is an error state, or leaves the bridge's request.
<1>3. CASE HandlerThrows
  <2>1. pc \notin {"fetch", "ended"} /\ Return("error") /\ UNCHANGED <<run, meddled>>
    BY <1>3 DEF HandlerThrows
  <2>2. CASE current \notin {None, "awaiting_return"}
    BY <2>1, <2>2, ReturnKeeps
  <2>3. CASE current \in {None, "awaiting_return"}
    <3>1. pc' = "fetch" /\ current' = None /\ state' = "error" BY <2>1, <2>3 DEF Return, Handled
    <3> QED BY <1>0, <3>1
      DEF RunInv, LoopTellsTruth, OthersDoNotWait, WaitFollowsDone, HandlerKnown
  <2> QED BY <2>2, <2>3
<1>4. CASE InTownHandlers BY <1>4, TownKeeps
<1>5. CASE DungeonHandler BY <1>5, DungeonKeeps
<1>6. CASE DungeonLoop BY <1>6, LoopKeeps
<1>7. CASE AwaitingHandler BY <1>7, AwaitKeeps
<1>8. CASE PartyMoves \/ UNCHANGED vars
  <2>1. UNCHANGED <<state, pc, current, run, meddled>> BY <1>8 DEF PartyMoves, vars
  <2> QED BY <2>1
    DEF RunInv, LoopTellsTruth, OthersDoNotWait, WaitFollowsDone, HandlerKnown, Done
\* A request for awaiting_return is remembered.
<1>9. CASE SetBotState
  <2>1. /\ UNCHANGED <<pc, current, run>>
        /\ meddled' = (meddled \/ state' = "awaiting_return")
    BY <1>9 DEF SetBotState
  <2>2. LoopTellsTruth' /\ HandlerKnown'
    BY <2>1 DEF RunInv, LoopTellsTruth, HandlerKnown, Done
  <2>3. OthersDoNotWait' BY <2>1 DEF OthersDoNotWait
  <2>4. WaitFollowsDone' BY <2>1 DEF RunInv, WaitFollowsDone, Done
  <2> QED BY <2>2, <2>3, <2>4 DEF RunInv
<1>10. CASE StopBot
  <2>1. state' = "stopping" /\ UNCHANGED <<pc, current, run, meddled>> BY <1>10 DEF StopBot
  <2> QED BY <2>1
    DEF RunInv, LoopTellsTruth, OthersDoNotWait, WaitFollowsDone, HandlerKnown, Done
<1> QED BY <1>1, <1>2, <1>3, <1>4, <1>5, <1>6, <1>7, <1>8, <1>9, <1>10 DEF Next, BotStep

\* The steps that mark a run do so after its objective, or for the bridge.
LEMMA MarksDone ==
    ASSUME RunInv, [Next]_vars, marked', ~marked
    PROVE  (objective /\ progress) \/ meddled
<1>1. CASE LoopCompleted
  BY <1>1 DEF LoopCompleted, RunInv, LoopTellsTruth, Done
<1>2. CASE AwaitReturn \/ Leave
  <2>1. current = "awaiting_return"
    BY <1>2 DEF AwaitReturn, Leave, Handling, RunInv, HandlerKnown
  <2> QED BY <2>1 DEF RunInv, WaitFollowsDone, Done
<1>3. CASE StartRun BY <1>3 DEF StartRun
<1>4. CASE ~(StartRun \/ LoopCompleted \/ AwaitReturn \/ Leave)
  <2>1. UNCHANGED marked
    BY <1>4 DEF Next, BotStep, InTownHandlers, DungeonHandler, DungeonLoop, AwaitingHandler, Fetch,
       LeaveLoop, HandlerThrows, CharSelect, TownTravels, TownSetsUp, Travel, Loot, Merchant,
       Maintenance, ErrorRecovery, AtEntry, NotAtEntry, PrepareFails, Prepared, Enter, NoRun,
       LoopFailed, LoopInLevel, LoopRefreshes, LoopReenters, LoopAtEntryEnds, LoopElsewhere,
       FollowRoute, Routed, AwaitInBogroot, PartyMoves, SetBotState, StopBot, run, vars
  <2> QED BY <2>1
<1> QED BY <1>1, <1>2, <1>3, <1>4

\* A run counts as completed only once its boss waypoint ended with the reward
\* claimed and level 2 was reached, or the bridge asked for awaiting_return
\* (HandleDungeon, RunDungeonLoop, HandleAwaitReturn, HandleSetBotState).
THEOREM CompletedAfterBoss == Spec => CompletedOnlyAfterBoss
<1>1. Init => RunInv
  BY NoneIsNoState DEF Init, RunInv, LoopTellsTruth, OthersDoNotWait, WaitFollowsDone,
     HandlerKnown, Handled
<1>2. RunInv /\ [Next]_vars => RunInv' BY RunKept
<1>3. RunInv /\ [Next]_vars => [(marked' /\ ~marked) => (objective /\ progress) \/ meddled]_vars
  BY MarksDone
<1> QED BY <1>1, <1>2, <1>3, PTL DEF Spec, CompletedOnlyAfterBoss
=============================================================================
