------------------------------ MODULE FroggyRun ------------------------------
(***************************************************************************)
(* The bot thread of advisory mode: BotThreadProc calls the handler of the   *)
(* current state and stores the state it returns; the Froggy handlers set    *)
(* the party up in town, travel, run RunDungeonLoop over Bogroot's two       *)
(* levels and keep the counters of the run.  Meanwhile the game moves the    *)
(* party between maps, and the bridge's action executor calls Bot::SetState  *)
(* from the game thread.  A handler is split where it waits; a route is one  *)
(* step here (WaypointRoute has its detail).                                *)
(***************************************************************************)
EXTENDS Naturals

CONSTANTS
    Requests,     \* states the bridge may ask for with set_bot_state
    MaxRefresh,   \* max_entry_refresh_retries_before_progress
    Threshold,    \* TEKKS_DIALOG_RESET_FAILURE_THRESHOLD
    None          \* no state

\* Sparkfly is the entry map; "none" is map id 0 while a map loads.
Maps == {"gadds", "sparkfly", "lvl1", "lvl2", "none", "elsewhere"}
Bogroot == {"lvl1", "lvl2"}

Handled == {"char_select", "in_town", "traveling", "in_dungeon", "looting",
            "awaiting_return", "merchant", "maintenance", "error"}
States == Handled \cup {"idle", "llm_controlled", "stopping"}

ASSUME FroggyAssumption ==
    /\ Requests \subseteq States \ {"stopping"}
    /\ MaxRefresh \in Nat /\ Threshold \in Nat \ {0} /\ None \notin States

VARIABLES
    state,       \* s_state
    stop,        \* s_stopRequested
    pc,          \* where the bot thread is
    current,     \* the state whose handler runs
    map,         \* MapMgr::GetMapId
    objective,   \* g_dungeonLoopTelemetry.boss_completed
    progress,    \* entered_lvl2, or DungeonLoopResult::reached_progress_level
    refreshes,   \* refresh_retries of the running dungeon loop
    failures,    \* s_tekksQuestEntryFailures.count
    completed,   \* what the dungeon loop returned
    marked,      \* s_runCompletionMarked
    credits,     \* ghost: completions counted since the last run start
    meddled      \* ghost: since then awaiting_return was asked for by the bridge, or is still

run == <<objective, progress, refreshes, failures, completed, marked, credits>>
vars == <<state, stop, pc, current, map, run, meddled>>

TypeOK ==
    /\ state \in States /\ stop \in BOOLEAN
    /\ pc \in {"fetch", "handle", "prepare", "enter", "entered", "loop", "loop_enter",
               "route", "routed", "looped", "leaving", "ended"}
    /\ current \in Handled \cup {None} /\ map \in Maps
    /\ objective \in BOOLEAN /\ progress \in BOOLEAN
    /\ refreshes \in 0 .. MaxRefresh /\ failures \in 0 .. (Threshold - 1)
    /\ completed \in BOOLEAN /\ marked \in BOOLEAN /\ credits \in 0 .. 2
    /\ meddled \in BOOLEAN

\* dllmain: Register, Start, SetState.
Init ==
    /\ state \in {"in_town", "char_select"} /\ stop = FALSE
    /\ pc = "fetch" /\ current = None /\ map \in Maps
    /\ objective = FALSE /\ progress = FALSE /\ refreshes = 0 /\ failures = 0
    /\ completed = FALSE /\ marked = FALSE /\ credits = 0
    /\ meddled = FALSE

-----------------------------------------------------------------------------
(* BotThreadProc.  Idle and LLMControlled have no handler: the thread sleeps. *)

Fetch ==
    /\ pc = "fetch" /\ ~stop /\ state \in Handled
    /\ pc' = "handle" /\ current' = state
    /\ UNCHANGED <<state, stop, map, run, meddled>>

LeaveLoop ==
    /\ pc = "fetch" /\ (stop \/ state = "stopping")
    /\ pc' = "ended"
    /\ UNCHANGED <<state, stop, current, map, run, meddled>>

\* The handler has returned: s_state is stored unless it is the state that was
\* fetched, whatever SetState stored meanwhile.
Return(next) ==
    /\ pc' = "fetch" /\ current' = None
    /\ state' = IF next # current THEN next ELSE state

\* InvokeHandlerSEH catches what a handler throws.
HandlerThrows ==
    /\ pc \notin {"fetch", "ended"}
    /\ Return("error")
    /\ UNCHANGED <<stop, map, run, meddled>>

Handling(s) == pc = "handle" /\ current = s

-----------------------------------------------------------------------------
(* The handlers outside the dungeon.  A wait may see the party moved.       *)

CharSelect ==
    /\ Handling("char_select")
    /\ Return(IF map # "none" THEN "in_town" ELSE "char_select")
    /\ UNCHANGED <<stop, map, run, meddled>>

\* Away from Gadds: EnsureOutpostReady travels, or the bot stops.
TownTravels ==
    /\ Handling("in_town") /\ map # "gadds"
    /\ map' \in Maps
    /\ \/ map' = "gadds" /\ Return("in_town")
       \/ Return("stopping")
    /\ UNCHANGED <<stop, run, meddled>>

\* Runtime not ready, inventory or consets critical, outpost setup failed,
\* consets not active, or ready to go.
TownSetsUp ==
    /\ Handling("in_town") /\ map = "gadds"
    /\ \E next \in {"in_town", "stopping", "error", "maintenance", "traveling"} : Return(next)
    /\ UNCHANGED <<stop, map, run, meddled>>

Travel ==
    /\ Handling("traveling")
    /\ map' \in IF map = "gadds" THEN {"gadds", "sparkfly", "none"} ELSE {map}
    /\ Return(IF map' = "sparkfly" THEN "in_dungeon" ELSE "in_town")
    /\ UNCHANGED <<stop, run, meddled>>

Loot ==
    /\ Handling("looting")
    /\ Return("merchant")
    /\ UNCHANGED <<stop, map, run, meddled>>

\* DungeonVendor::RunMerchantMaintenanceState and RunFullMaintenanceState travel
\* to Gadds first; Done, NeedsMaintenance, Retry and Stop.
Merchant ==
    /\ Handling("merchant")
    /\ map' \in {map, "gadds", "none"}
    /\ \/ Return("stopping") /\ map' # "gadds"
       \/ map' = "gadds" /\ \E next \in {"in_town", "maintenance", "merchant"} : Return(next)
    /\ UNCHANGED <<stop, run, meddled>>

Maintenance ==
    /\ Handling("maintenance")
    /\ map' \in {map, "gadds", "none"}
    /\ \/ Return("stopping")
       \/ map' = "gadds" /\ \E next \in {"traveling", "maintenance"} : Return(next)
    /\ UNCHANGED <<stop, run, meddled>>

ErrorRecovery ==
    /\ Handling("error")
    /\ \/ map = "none" /\ Return("char_select")
       \/ map \in Bogroot \cup {"sparkfly"} /\ Return("in_dungeon")
       \/ map \in {"gadds", "elsewhere"} /\ Return("in_town")
    /\ UNCHANGED <<stop, map, run, meddled>>

-----------------------------------------------------------------------------
(* HandleDungeon up to the dungeon's map.                                   *)

\* Consets may be missing, and the walk to Tekks may fail.
AtEntry ==
    /\ Handling("in_dungeon") /\ map = "sparkfly"
    /\ \/ pc' = "prepare" /\ UNCHANGED <<state, current>>
       \/ \E next \in {"merchant", "in_dungeon"} : Return(next)
    /\ UNCHANGED <<stop, map, run, meddled>>

NotAtEntry ==
    /\ Handling("in_dungeon") /\ map # "sparkfly"
    /\ pc' = "entered"
    /\ UNCHANGED <<state, stop, current, map, run, meddled>>

\* RecordEntryFailureAndMaybeResetDialog: the threshold's failure bounces the
\* party through the dungeon, and the count starts again even if that fails.
RecordFailure ==
    IF failures + 1 < Threshold
    THEN failures' = failures + 1 /\ UNCHANGED map
    ELSE failures' = 0 /\ map' \in {map, "lvl1", "sparkfly"}

PrepareFails ==
    /\ pc = "prepare"
    /\ RecordFailure /\ Return("in_dungeon")
    /\ UNCHANGED <<stop, objective, progress, refreshes, completed, marked, credits, meddled>>

Prepared ==
    /\ pc = "prepare"
    /\ pc' = "enter" /\ failures' = 0
    /\ UNCHANGED <<state, stop, current, map, objective, progress, refreshes, completed,
                   marked, credits, meddled>>

\* EnterDungeonFromQuestMap refuses any other map, and may time out.
Enter ==
    /\ pc = "enter"
    /\ \/ map = "sparkfly" /\ map' = "lvl1" /\ pc' = "entered" /\ UNCHANGED <<state, current>>
       \/ map' = map /\ Return("in_dungeon")
    /\ UNCHANGED <<stop, run, meddled>>

\* mark_run_started and ResetDungeonLoopTelemetry.
StartRun ==
    /\ pc = "entered" /\ map \in Bogroot
    /\ pc' = "loop" /\ marked' = FALSE /\ objective' = FALSE /\ progress' = FALSE
    /\ refreshes' = 0 /\ completed' = FALSE /\ credits' = 0 /\ meddled' = (state = "awaiting_return")
    /\ UNCHANGED <<state, stop, current, map, failures>>

\* At the outpost the run counts as failed (mark_run_failed).
NoRun ==
    /\ pc = "entered" /\ map \notin Bogroot
    /\ Return(IF map = "gadds" THEN "in_town" ELSE "in_dungeon")
    /\ UNCHANGED <<stop, map, run, meddled>>

-----------------------------------------------------------------------------
(* RunDungeonLoop.                                                          *)

Reached == progress \/ map = "lvl2"

LoopEnds(how) ==
    /\ pc' = "looped" /\ completed' = how

LoopTo(place) == pc' = place /\ UNCHANGED completed

\* The head of the loop in a level.
LoopInLevel ==
    /\ pc = "loop" /\ map \in Bogroot
    /\ progress' = Reached
    /\ IF objective /\ Reached THEN LoopEnds(TRUE) ELSE LoopTo("route")
    /\ UNCHANGED <<state, stop, current, map, objective, refreshes, failures, marked,
                   credits, meddled>>

RefreshUncounted == refreshes   \* mutant: refresh_retries is not counted
Refreshed == refreshes + 1

\* Back at the entry map before level 2: the quest is prepared again.
LoopRefreshes ==
    /\ pc = "loop" /\ map = "sparkfly" /\ ~progress /\ refreshes < MaxRefresh
    /\ refreshes' = Refreshed
    /\ \/ LoopTo("loop_enter") /\ failures' = 0 /\ UNCHANGED map
       \/ LoopEnds(FALSE) /\ RecordFailure
    /\ UNCHANGED <<state, stop, current, objective, progress, marked, credits, meddled>>

LoopReenters ==
    /\ pc = "loop_enter"
    /\ \/ map = "sparkfly" /\ map' = "lvl1" /\ LoopTo("loop")
       \/ map' = map /\ LoopEnds(FALSE)
    /\ UNCHANGED <<state, stop, current, objective, progress, refreshes, failures, marked,
                   credits, meddled>>

LevelTwoIsEnough == progress   \* mutant: the objective is not required
\* require_objective_for_entry_return_completion.
EntryReturnCompletes == progress /\ objective

LoopAtEntryEnds ==
    /\ pc = "loop" /\ map = "sparkfly" /\ (progress \/ refreshes = MaxRefresh)
    /\ LoopEnds(EntryReturnCompletes)
    /\ UNCHANGED <<state, stop, current, map, objective, progress, refreshes, failures,
                   marked, credits, meddled>>

LoopElsewhere ==
    /\ pc = "loop" /\ map \notin Bogroot \cup {"sparkfly"}
    /\ LoopEnds(FALSE)
    /\ UNCHANGED <<state, stop, current, map, objective, progress, refreshes, failures,
                   marked, credits, meddled>>

\* One RunWaypointRoute over the level, which never asks whether the bot is to
\* stop.  The transition's handler notes level 2, the boss's handler its result.
FollowRoute ==
    /\ pc = "route"
    /\ LoopTo("routed")
    /\ map' \in Maps
    /\ progress' \in {progress, progress \/ (map = "lvl1" /\ map' = "lvl2")}
    /\ objective' \in {objective} \cup (IF map = "lvl2" THEN BOOLEAN ELSE {})
    /\ UNCHANGED <<state, stop, current, refreshes, failures, marked, credits, meddled>>

\* After the route: the next level, the entry map (looked at again by the loop's
\* head when the run is not complete), the fallback map, or an unsupported one.
Routed ==
    /\ pc = "routed"
    /\ progress' = Reached
    /\ \/ map \in Bogroot /\ LoopTo("loop")
       \/ map = "sparkfly" /\ EntryReturnCompletes /\ LoopEnds(TRUE)
       \/ map = "sparkfly" /\ ~EntryReturnCompletes /\ LoopTo("loop")
       \/ map = "gadds" /\ LoopEnds(progress /\ objective)
       \/ map \in {"none", "elsewhere"} /\ LoopEnds(FALSE)
    /\ UNCHANGED <<state, stop, current, map, objective, refreshes, failures, marked,
                   credits, meddled>>

-----------------------------------------------------------------------------
(* After the loop, and the wait for the way back.                           *)

\* mutant: the guard on s_runCompletionMarked is dropped
MarkTwice ==
    /\ marked' = TRUE /\ credits' = IF credits < 2 THEN credits + 1 ELSE credits
\* MarkFroggyRunCompleted.
MarkCompleted ==
    /\ marked' = TRUE
    /\ credits' = IF marked \/ credits = 2 THEN credits ELSE credits + 1

NotMarked == UNCHANGED <<marked, credits>>

\* ResolvePostSparkflyRunDecision, on whether maintenance is needed.
NextRun == \E next \in {"merchant", "in_dungeon"} : Return(next)

LoopCompleted ==
    /\ pc = "looped" /\ completed
    /\ \/ map = "sparkfly" /\ MarkCompleted /\ NextRun
       \/ map = "gadds" /\ MarkCompleted /\ Return("in_town")
       \/ map \in Bogroot /\ NotMarked /\ Return("awaiting_return")
       \/ map \in {"none", "elsewhere"} /\ MarkCompleted /\ Return("in_dungeon")
    /\ UNCHANGED <<stop, map, objective, progress, refreshes, failures, completed, meddled>>

LoopFailed ==
    /\ pc = "looped" /\ ~completed
    /\ Return("in_dungeon")
    /\ UNCHANGED <<stop, map, run, meddled>>

AwaitReturn ==
    /\ Handling("awaiting_return") /\ map \notin Bogroot
    /\ \/ map = "sparkfly" /\ MarkCompleted /\ NextRun
       \/ map = "gadds" /\ MarkCompleted /\ Return("in_town")
       \/ map = "none" /\ NotMarked /\ Return("awaiting_return")
       \/ map = "elsewhere" /\ NotMarked
          /\ \E next \in {"awaiting_return", "in_dungeon"} : Return(next)
    /\ UNCHANGED <<stop, map, objective, progress, refreshes, failures, completed, meddled>>

\* Still in Bogroot: with maintenance needed the party is sent back.
AwaitInBogroot ==
    /\ Handling("awaiting_return") /\ map \in Bogroot
    /\ \/ pc' = "leaving" /\ UNCHANGED <<state, current>>
       \/ Return("awaiting_return")
    /\ UNCHANGED <<stop, map, run, meddled>>

\* WaitForMapReady within two minutes, or Error.
Leave ==
    /\ pc = "leaving"
    /\ \/ map' = "gadds" /\ MarkCompleted /\ Return("in_town")
       \/ map' = map /\ NotMarked /\ Return("error")
    /\ UNCHANGED <<stop, objective, progress, refreshes, failures, completed, meddled>>

-----------------------------------------------------------------------------
(* The game, the bridge and the DLL.                                        *)

\* Defeat, portals, ReturnToOutpost calls, the client's own loading.
PartyMoves ==
    /\ map' \in Maps \ {map}
    /\ UNCHANGED <<state, stop, pc, current, run, meddled>>

\* HandleSetBotState calls SetState at once, whatever the bot thread is doing.
SetBotState ==
    /\ pc # "ended" /\ ~stop
    /\ \E s \in Requests :
          /\ state' = s
          /\ meddled' = (meddled \/ s = "awaiting_return")
    /\ UNCHANGED <<stop, pc, current, map, run>>

StopBot ==
    /\ pc # "ended" /\ ~stop
    /\ stop' = TRUE /\ state' = "stopping"
    /\ UNCHANGED <<pc, current, map, run, meddled>>

-----------------------------------------------------------------------------
InTownHandlers == CharSelect \/ TownTravels \/ TownSetsUp \/ Travel \/ Loot \/ Merchant
                  \/ Maintenance \/ ErrorRecovery
DungeonHandler == AtEntry \/ NotAtEntry \/ PrepareFails \/ Prepared \/ Enter \/ StartRun
                  \/ NoRun \/ LoopCompleted \/ LoopFailed
DungeonLoop == LoopInLevel \/ LoopRefreshes \/ LoopReenters \/ LoopAtEntryEnds
               \/ LoopElsewhere \/ FollowRoute \/ Routed
AwaitingHandler == AwaitReturn \/ AwaitInBogroot \/ Leave

BotStep == Fetch \/ LeaveLoop \/ HandlerThrows \/ InTownHandlers \/ DungeonHandler
           \/ DungeonLoop \/ AwaitingHandler

Next == BotStep \/ PartyMoves \/ SetBotState \/ StopBot

Spec == Init /\ [][Next]_vars

\* The bot thread is scheduled, and every wait in a handler has a timeout.
FairSpec == Spec /\ WF_vars(BotStep)

-----------------------------------------------------------------------------
(* Properties.                                                              *)

\* A run is counted as completed only after its boss waypoint ended with the
\* reward claimed, on every path that counts it (the loop's ends on the entry
\* map, in the level and on the fallback map, and the handler that waits for
\* the way back), unless the bridge itself asked for awaiting_return.
CompletedOnlyAfterBoss ==
    [][(marked' /\ ~marked) => (objective /\ progress) \/ meddled]_vars

\* However the loop, the waiting handler and the bridge's requests follow one
\* another, a run is counted as completed at most once.
OneCreditPerRun == credits <= 1

\* After a stop the bot thread ends, whatever the game does, unless a dungeon
\* loop goes on walking its level: no other handler can keep it.
StopIsHeard == (stop ~> pc = "ended") \/ []<><<FollowRoute>>_vars

=============================================================================
