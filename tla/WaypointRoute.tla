---------------------------- MODULE WaypointRoute ----------------------------
(***************************************************************************)
(* RunWaypointRoute: the bot thread walks the waypoints of one map in order, *)
(* handles the labelled ones, goes back when the party is stuck or was       *)
(* wiped, and stops when the map changes.  The party lives in the game: it   *)
(* may die, be revived at a shrine, be moved to another map, or end a walk   *)
(* elsewhere, between any two steps of the route.  A place is the index of   *)
(* the waypoint nearest to the party (FindNearestWaypointIndex).  The one    *)
(* caller, FollowWaypoints of FroggyHM.cpp, walks route maps only, for which *)
(* the nearest-progress backtrack is off.                                   *)
(***************************************************************************)
EXTENDS Integers

CONSTANTS
    Count,          \* number of waypoints
    Label,          \* the kind of each waypoint's label
    ForcedStarts,   \* start indices the start policy may force
    IgnoresStop,    \* RouteRunOptions::ignore_bot_running
    MaxRetries,     \* max_waypoint_move_retries
    RetryBack,      \* waypoint_move_backtrack_steps
    WipeBack,       \* backtrack_steps of the wipe recovery
    MaxWipes        \* max_total_wipes_before_outpost; 0 is no limit

Index == 0 .. (Count - 1)

Kinds == {"standard", "blessing", "key", "door", "door_checkpoint", "quest_door",
          "transition", "boss"}

ASSUME RouteAssumption ==
    /\ Count \in Nat \ {0} /\ Label \in [Index -> Kinds]
    /\ ForcedStarts \subseteq Index /\ IgnoresStop \in BOOLEAN
    /\ MaxRetries \in Nat /\ RetryBack \in Nat /\ WipeBack \in Nat
    /\ MaxWipes \in Nat

VARIABLES
    pc,        \* "head", "waypoint", "arrived", "wiped" or "done"
    context,   \* who recovers from a wipe: "head", "move" or "label"
    i,         \* the loop's index
    retries,   \* waypoint_move_retries
    moved,     \* what the last walk reported
    outcome,   \* RouteRunResult
    wipes,     \* *total_wipe_count
    outpost,   \* ReturnToOutpost has been called
    at,        \* the waypoint nearest to the party
    dead,      \* the party's leader is dead
    away,      \* the map is no longer the route's
    running    \* Bot::IsRunning

game == <<at, dead, away, running>>
vars == <<pc, context, i, retries, moved, outcome, wipes, outpost, game>>

TypeOK ==
    /\ pc \in {"head", "waypoint", "arrived", "wiped", "done"}
    /\ context \in {"head", "move", "label"}
    /\ i \in 0 .. Count /\ (pc # "done" => i \in Index)
    /\ retries \in [Index -> 0 .. MaxRetries]
    /\ moved \in {"reached", "dead", "missed"}
    /\ outcome \in {"none", "completed", "stopped", "map_changed"}
    /\ wipes \in Nat
    /\ outpost \in BOOLEAN /\ at \in Index
    /\ dead \in BOOLEAN /\ away \in BOOLEAN /\ running \in BOOLEAN

\* ResolveRouteStartIndexWithPolicy: a rule's index, or the nearest waypoint.
\* The wipe counter is the dungeon loop's and may hold earlier wipes.
Init ==
    /\ pc = "head" /\ context = "head" /\ at \in Index /\ i \in ForcedStarts \cup {at}
    /\ retries = [w \in Index |-> 0] /\ moved = "reached"
    /\ outcome = "none" /\ wipes \in 0 .. MaxWipes /\ outpost = FALSE
    /\ dead \in BOOLEAN /\ away = FALSE /\ running = TRUE

Larger(x, y) == IF x > y THEN x ELSE y
Back(x, steps) == Larger(0, x - steps)

Finish(how) ==
    /\ pc' = "done" /\ outcome' = how

\* The for statement's ++i and its test, from loop index x.
ContinueAfter(x) ==
    /\ i' = x + 1
    /\ IF x + 1 < Count THEN pc' = "head" /\ UNCHANGED outcome ELSE Finish("completed")

-----------------------------------------------------------------------------
(* A wipe: count it, wait for the revival, choose the restart index.        *)

OverLimit(n) == MaxWipes > 0 /\ n > MaxWipes

\* RecoverWaypointWipe up to its wait: over the limit it does not wait but sends
\* the party to the outpost.
Wipe(who) ==
    /\ wipes' = wipes + 1 /\ context' = who
    /\ pc' = "wiped" /\ outpost' = (outpost \/ OverLimit(wipes'))
    /\ UNCHANGED <<outcome, i, retries, moved, game>>

ReviveTimesOut ==
    /\ pc = "wiped" /\ ~outpost /\ dead
    /\ outpost' = TRUE
    /\ UNCHANGED <<pc, context, outcome, i, retries, moved, wipes, game>>

OutpostUnnoticed == FALSE   \* mutant: returned_to_outpost is not looked at
\* What RecoverRouteWipeWithOptions tests before it hands out a restart index.
ReturnedToOutpost == outpost

\* mutant: the backtrack is added to the nearest waypoint
RestartAhead == IF at + WipeBack < Count THEN at + WipeBack ELSE Count - 1
\* The nearest waypoint less the backtrack, but never behind a party that was
\* revived ahead of the route.
Restart == IF at > i THEN at ELSE Back(at, WipeBack)

\* The loop's head goes on with the restart waypoint; after a walk the ++i is
\* made up for; a label handler's ContinueRoute is not.
Recover ==
    /\ pc = "wiped" /\ ~ReturnedToOutpost /\ ~dead
    /\ \/ /\ context = "head" /\ pc' = "waypoint" /\ i' = Restart /\ UNCHANGED outcome
       \/ context = "move" /\ ContinueAfter(Restart - 1)
       \/ context = "label" /\ ContinueAfter(Restart)
    /\ UNCHANGED <<context, retries, moved, wipes, outpost, game>>

\* A caller without a recovery ends the route.
GiveUp(who) ==
    /\ pc = "wiped" /\ context = who /\ ReturnedToOutpost
    /\ Finish("stopped")
    /\ UNCHANGED <<context, i, retries, moved, wipes, outpost, game>>

HeadGivesUp == GiveUp("head")
MoveGivesUp == GiveUp("move")
LabelGivesUp == GiveUp("label")

-----------------------------------------------------------------------------
(* The head of the loop.                                                    *)

MustStop == ~IgnoresStop /\ ~running

HeadStops ==
    /\ pc = "head" /\ (MustStop \/ away)
    /\ Finish(IF MustStop THEN "stopped" ELSE "map_changed")
    /\ UNCHANGED <<context, i, retries, moved, wipes, outpost, game>>

HeadWiped ==
    /\ pc = "head" /\ ~MustStop /\ ~away /\ dead
    /\ Wipe("head")

HeadPasses ==
    /\ pc = "head" /\ ~MustStop /\ ~away /\ ~dead
    /\ pc' = "waypoint"
    /\ UNCHANGED <<context, i, retries, moved, outcome, wipes, outpost, game>>

-----------------------------------------------------------------------------
(* The waypoint.                                                            *)

\* The walk reports a dead leader, an arrival within its threshold (a neighbour
\* may be nearer), or neither; the map may have changed under it.
Walk ==
    /\ pc = "waypoint" /\ Label[i] \notin {"transition", "boss"}
    /\ pc' = "arrived"
    /\ moved' \in {"reached", "dead", "missed"}
    /\ dead' = (moved' = "dead") /\ (dead => dead')
    /\ at' \in Index /\ (moved' = "reached" => at' \in (i - 1) .. (i + 1))
    /\ away' \in {away, TRUE}
    /\ UNCHANGED <<context, i, retries, outcome, wipes, outpost, running>>

\* HandleQuestDoorRecovery, before the walk to a quest door: without the quest
\* the party goes back, and to the quest's map if the transition works.
QuestMissing ==
    /\ pc = "waypoint" /\ Label[i] = "quest_door"
    /\ Finish("stopped")
    /\ at' \in Index /\ away' \in {away, TRUE}
    /\ UNCHANGED <<context, i, retries, moved, wipes, outpost, dead, running>>

\* ExecuteLevelTransition and the boss handler end the route whatever comes of them.
EndOfRoute ==
    /\ pc = "waypoint" /\ Label[i] \in {"transition", "boss"}
    /\ Finish("stopped")
    /\ at' \in Index /\ dead' \in BOOLEAN
    /\ away' \in {away, TRUE}
    /\ UNCHANGED <<context, i, retries, moved, wipes, outpost, running>>

StandardMapChanged ==
    /\ pc = "arrived" /\ Label[i] = "standard" /\ away
    /\ Finish("map_changed")
    /\ UNCHANGED <<context, i, retries, moved, wipes, outpost, game>>

StandardWiped ==
    /\ pc = "arrived" /\ Label[i] = "standard" /\ ~away
    /\ moved = "dead" \/ dead
    /\ Wipe("move")

Settled == pc = "arrived" /\ ~away /\ moved # "dead" /\ ~dead

StandardReached ==
    /\ Settled /\ Label[i] = "standard" /\ moved = "reached"
    /\ ContinueAfter(i)
    /\ UNCHANGED <<context, retries, moved, wipes, outpost, game>>

CountedNever(w) == retries   \* mutant: a retry is not counted
Counted(w) == [retries EXCEPT ![w] = @ + 1]

StandardRetries ==
    /\ Settled /\ Label[i] = "standard" /\ moved = "missed"
    /\ retries[i] < MaxRetries
    /\ retries' = Counted(i)
    /\ ContinueAfter(Back(i, RetryBack) - 1)
    /\ UNCHANGED <<context, moved, wipes, outpost, game>>

StandardGivesUp ==
    /\ Settled /\ Label[i] = "standard" /\ moved = "missed"
    /\ retries[i] = MaxRetries
    /\ Finish("stopped")
    /\ UNCHANGED <<context, i, retries, moved, wipes, outpost, game>>

\* Blessings, keys and doors do not look at the walk's result.
Passes ==
    /\ pc = "arrived" /\ Label[i] \in {"blessing", "key", "door"}
    /\ ContinueAfter(i)
    /\ UNCHANGED <<context, retries, moved, wipes, outpost, game>>

KeyMissing ==
    /\ pc = "arrived" /\ Label[i] = "key"
    /\ Finish("stopped") /\ outpost' = TRUE
    /\ away' \in {away, TRUE}
    /\ UNCHANGED <<context, i, retries, moved, wipes, at, dead, running>>

DoorNotReached ==
    /\ pc = "arrived" /\ Label[i] = "door_checkpoint" /\ moved # "reached"
    /\ Finish("stopped")
    /\ UNCHANGED <<context, i, retries, moved, wipes, outpost, game>>

\* RecoverRouteLabelWipeIfDead.
LabelWiped ==
    /\ pc = "arrived" /\ dead
    /\ \/ Label[i] = "door_checkpoint" /\ moved = "reached"
       \/ Label[i] = "quest_door"
    /\ Wipe("label")

AtOpenDoor ==
    /\ pc = "arrived" /\ ~dead /\ at >= i
    /\ \/ Label[i] = "door_checkpoint" /\ moved = "reached"
       \/ Label[i] = "quest_door"
    /\ ContinueAfter(i)
    /\ UNCHANGED <<context, retries, moved, wipes, outpost, game>>

BehindDoor == pc = "arrived" /\ ~dead /\ at < i

\* HandleLockedDoorCheckpoint: the last waypoints are walked back, and the route
\* goes on after the one nearest to wherever that led.
DoorLocked ==
    /\ BehindDoor /\ Label[i] = "door_checkpoint" /\ moved = "reached"
    /\ \E place \in Index : at' = place /\ ContinueAfter(place)
    /\ UNCHANGED <<context, retries, moved, wipes, outpost, dead, away, running>>

\* ReplayBacktrackAndReturnToQuestMap.
QuestDoorShut ==
    /\ BehindDoor /\ Label[i] = "quest_door"
    /\ Finish("stopped")
    /\ at' \in Index /\ away' \in {away, TRUE}
    /\ UNCHANGED <<context, i, retries, moved, wipes, outpost, dead, running>>

-----------------------------------------------------------------------------
(* The game and the operator.                                               *)

route == <<pc, context, i, retries, moved, outcome, wipes, outpost>>

Die == ~dead /\ dead' = TRUE /\ UNCHANGED <<route, at, away, running>>

\* At a shrine, anywhere along the route.
Revive == dead /\ dead' = FALSE /\ at' \in Index /\ UNCHANGED <<route, away, running>>

LeaveMap == ~away /\ away' = TRUE /\ UNCHANGED <<route, at, dead, running>>

StopBot == running /\ running' = FALSE /\ UNCHANGED <<route, at, dead, away>>

-----------------------------------------------------------------------------
AtHead == HeadStops \/ HeadWiped \/ HeadPasses
AtStandard == StandardMapChanged \/ StandardWiped \/ StandardReached \/ StandardRetries
              \/ StandardGivesUp
AtLabel == Passes \/ KeyMissing \/ DoorNotReached \/ LabelWiped \/ AtOpenDoor \/ DoorLocked
           \/ QuestDoorShut

RouteStep == AtHead \/ Walk \/ QuestMissing \/ EndOfRoute \/ AtStandard \/ AtLabel
             \/ ReviveTimesOut \/ Recover \/ HeadGivesUp \/ MoveGivesUp \/ LabelGivesUp

Next == RouteStep \/ Die \/ Revive \/ LeaveMap \/ StopBot

Spec == Init /\ [][Next]_vars

\* The bot thread runs, and every wait of the route has a timeout.
FairSpec == Spec /\ WF_vars(RouteStep)

-----------------------------------------------------------------------------
(* Properties.                                                              *)

\* A party that was sent to the outpost (by the wipe beyond the limit, a revival
\* that did not come, a missing key) walks the route no more, even when it is
\* alive there again: whichever of the three callers waits for the recovery, no
\* waypoint and no further wipe is handled (DungeonCheckpoint.cpp:197-219,
\* DungeonRouteRunner.cpp:129-133).
OutpostEndsRoute ==
    /\ outpost => pc \in {"wiped", "done"} /\ (pc = "done" => outcome = "stopped")
    /\ MaxWipes > 0 => wipes <= MaxWipes + 1

\* However wipes, retries and closed doors move the index, it passes over a
\* waypoint only when the party already stands at it or ahead of it.
SkipsOnlyToTheParty == [][i' > i + 1 => i' <= at' + 1]_vars

\* Whatever the game does, a route with a wipe limit ends, by its budgets of
\* retries and wipes, unless it comes to a closed dungeon door again and again.
RouteEnds == MaxWipes > 0 => <>(pc = "done") \/ []<><<DoorLocked>>_vars
=============================================================================
