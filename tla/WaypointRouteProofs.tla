-------------------------- MODULE WaypointRouteProofs --------------------------
(***************************************************************************)
(* Theorems about WaypointRoute.tla, for every route, every labelling of its *)
(* waypoints and all its limits.                                            *)
(***************************************************************************)
EXTENDS WaypointRoute, TLAPS

\* Going back stays on the route.
LEMMA BackInRoute ==
    ASSUME NEW x \in Index, NEW steps \in Nat
    PROVE  Back(x, steps) \in Index /\ Back(x, steps) <= x
BY RouteAssumption DEF Back, Larger, Index

\* The restart waypoint is on the route, and the party is not behind it.
LEMMA RestartInRoute ==
    ASSUME TypeOK
    PROVE  Restart \in Index /\ Restart <= at
<1>1. at \in Index /\ WipeBack \in Nat BY RouteAssumption DEF TypeOK
<1>2. Back(at, WipeBack) \in Index /\ Back(at, WipeBack) <= at BY <1>1, BackInRoute
<1> QED BY <1>1, <1>2 DEF Restart, Index

\* The loop's increment ends the route exactly behind its last waypoint.
LEMMA ContinueTyped ==
    ASSUME TypeOK, NEW x \in Int, x + 1 \in 0 .. Count, ContinueAfter(x)
    PROVE  /\ pc' \in {"head", "done"} /\ i' = x + 1 /\ i' \in 0 .. Count
           /\ (pc' # "done" => i' \in Index)
           /\ outcome' \in {"none", "completed", "stopped", "map_changed"}
BY RouteAssumption DEF ContinueAfter, Finish, Index, TypeOK

\* A route starts in its type, wherever the start policy puts it.
LEMMA InitTyped == Init => TypeOK
<1> SUFFICES ASSUME Init PROVE TypeOK OBVIOUS
<1>1. i \in Index BY RouteAssumption DEF Init
<1>2. retries \in [Index -> 0 .. MaxRetries] BY RouteAssumption DEF Init
<1>3. wipes \in Nat BY RouteAssumption DEF Init
<1>4. i \in 0 .. Count BY <1>1, RouteAssumption DEF Index
<1>5. dead \in BOOLEAN /\ away \in BOOLEAN /\ running \in BOOLEAN /\ outpost \in BOOLEAN
  BY Zenon DEF Init
<1> QED BY <1>1, <1>2, <1>3, <1>4, <1>5 DEF Init, TypeOK

\* A wipe leaves the caller waiting for the recovery's answer.
LEMMA WipeTyped ==
    ASSUME TypeOK, pc # "done", NEW who \in {"head", "move", "label"}, Wipe(who)
    PROVE  TypeOK'
<1>1. wipes' \in Nat BY DEF TypeOK, Wipe
<1>2. pc' = "wiped" /\ context' \in {"head", "move", "label"} /\ outpost' \in BOOLEAN
  BY Zenon DEF TypeOK, Wipe
<1> QED BY <1>1, <1>2 DEF TypeOK, Wipe, game

-----------------------------------------------------------------------------

\* What the callers rely on: a wipe beyond the limit has called the outpost, and
\* a route that goes on has not.
WipesCounted == MaxWipes > 0 /\ wipes > MaxWipes => outpost

IInv == TypeOK /\ OutpostEndsRoute /\ WipesCounted

\* A wipe is only counted on a route that goes on, so at most one exceeds the limit.
LEMMA WipeKeeps ==
    ASSUME IInv, pc \in {"head", "waypoint", "arrived"},
           NEW who \in {"head", "move", "label"}, Wipe(who)
    PROVE  IInv'
<1>1. TypeOK' BY WipeTyped DEF IInv
<1>2. ~outpost BY DEF IInv, OutpostEndsRoute
<1>3. wipes \in Nat /\ (MaxWipes > 0 => wipes <= MaxWipes) /\ wipes' = wipes + 1
  BY <1>2, RouteAssumption DEF IInv, TypeOK, WipesCounted, Wipe
<1>4. pc' = "wiped" BY DEF Wipe
<1>5. OverLimit(wipes') => outpost' BY Zenon DEF Wipe
<1>6. OutpostEndsRoute' BY <1>3, <1>4, RouteAssumption DEF OutpostEndsRoute
<1>7. WipesCounted' BY <1>3, <1>5 DEF WipesCounted, OverLimit
<1> QED BY <1>1, <1>6, <1>7 DEF IInv

\* A step of a route that was not sent to the outpost, other than a wipe.
LEMMA GoesOn ==
    ASSUME IInv, TypeOK', ~outpost, UNCHANGED <<wipes, outpost>>
    PROVE  IInv'
BY DEF IInv, OutpostEndsRoute, WipesCounted

\* Each step keeps the types and what the outpost ends.
LEMMA InvKept ==
    ASSUME IInv, [Next]_vars
    PROVE  IInv'
<1> USE DEF IInv, OutpostEndsRoute, WipesCounted
<1>0. pc \notin {"wiped", "done"} => ~outpost
  OBVIOUS
<1>1. CASE HeadStops BY <1>1 DEF HeadStops, Finish, TypeOK, game
<1>2. CASE HeadWiped BY <1>2, WipeKeeps DEF HeadWiped
<1>3. CASE HeadPasses BY <1>3 DEF HeadPasses, TypeOK, game
<1>4. CASE Walk BY <1>4 DEF Walk, TypeOK
<1>5. CASE QuestMissing BY <1>5 DEF QuestMissing, Finish, TypeOK
<1>6. CASE EndOfRoute BY <1>6 DEF EndOfRoute, Finish, TypeOK
<1>7. CASE StandardMapChanged BY <1>7 DEF StandardMapChanged, Finish, TypeOK, game
<1>8. CASE StandardWiped BY <1>8, WipeKeeps DEF StandardWiped
<1>9. CASE StandardReached
  <2>1. i \in Int /\ i + 1 \in 0 .. Count
    BY <1>9, RouteAssumption DEF StandardReached, Settled, TypeOK, Index
  <2>2. pc # "done" /\ ContinueAfter(i) BY <1>9 DEF StandardReached, Settled
  <2>3. TypeOK' BY <1>9, <2>1, <2>2, ContinueTyped DEF StandardReached, TypeOK, game
  <2>4. ~outpost BY <1>0, <1>9 DEF StandardReached, Settled
  <2> QED BY <1>9, <2>3, <2>4, GoesOn DEF StandardReached
<1>10. CASE StandardRetries
  <2>1. i \in Index /\ pc # "done" BY <1>10 DEF StandardRetries, Settled, TypeOK
  <2>2. Back(i, RetryBack) \in Index BY <2>1, BackInRoute, RouteAssumption
  <2>3. /\ Back(i, RetryBack) - 1 \in Int
        /\ Back(i, RetryBack) - 1 + 1 \in 0 .. Count
    BY <2>2, RouteAssumption DEF Index
  <2>4. retries' \in [Index -> 0 .. MaxRetries]
    BY <1>10, <2>1, RouteAssumption DEF StandardRetries, Counted, TypeOK
  <2>5. ContinueAfter(Back(i, RetryBack) - 1) BY <1>10 DEF StandardRetries
  <2>6. TypeOK' BY <1>10, <2>1, <2>3, <2>4, <2>5, ContinueTyped DEF StandardRetries, TypeOK, game
  <2>7. ~outpost BY <1>0, <1>10 DEF StandardRetries, Settled
  <2> QED BY <1>10, <2>6, <2>7, GoesOn DEF StandardRetries
<1>11. CASE StandardGivesUp BY <1>11 DEF StandardGivesUp, Finish, TypeOK, game
<1>12. CASE Passes
  <2>1. i \in Int /\ i + 1 \in 0 .. Count BY <1>12, RouteAssumption DEF Passes, TypeOK, Index
  <2>2. pc # "done" /\ ContinueAfter(i) BY <1>12 DEF Passes
  <2> QED BY <1>0, <1>12, <2>1, <2>2, ContinueTyped DEF Passes, TypeOK, game
<1>13. CASE KeyMissing BY <1>13 DEF KeyMissing, Finish, TypeOK
<1>14. CASE DoorNotReached BY <1>14 DEF DoorNotReached, Finish, TypeOK, game
<1>15. CASE LabelWiped BY <1>15, WipeKeeps DEF LabelWiped
<1>16. CASE AtOpenDoor
  <2>1. i \in Int /\ i + 1 \in 0 .. Count BY <1>16, RouteAssumption DEF AtOpenDoor, TypeOK, Index
  <2>2. pc # "done" /\ ContinueAfter(i) BY <1>16 DEF AtOpenDoor
  <2> QED BY <1>0, <1>16, <2>1, <2>2, ContinueTyped DEF AtOpenDoor, TypeOK, game
<1>17. CASE DoorLocked
  <2>1. PICK place \in Index : at' = place /\ ContinueAfter(place) BY <1>17 DEF DoorLocked
  <2>2. place \in Int /\ place + 1 \in 0 .. Count BY <2>1, RouteAssumption DEF Index
  <2>3. pc # "done" BY <1>17 DEF DoorLocked, BehindDoor
  <2>4. TypeOK' BY <1>17, <2>1, <2>2, <2>3, ContinueTyped DEF DoorLocked, TypeOK
  <2>5. ~outpost BY <1>0, <1>17 DEF DoorLocked, BehindDoor
  <2> QED BY <1>17, <2>4, <2>5, GoesOn DEF DoorLocked
<1>18. CASE QuestDoorShut BY <1>18 DEF QuestDoorShut, Finish, TypeOK
<1>19. CASE ReviveTimesOut BY <1>19 DEF ReviveTimesOut, TypeOK, game
<1>20. CASE Recover
  <2>1. Restart \in Index BY RestartInRoute
  <2>2. /\ Restart \in Int /\ Restart + 1 \in 0 .. Count
        /\ Restart - 1 \in Int /\ Restart - 1 + 1 \in 0 .. Count
        /\ Restart \in 0 .. Count
    BY <2>1, RouteAssumption DEF Index
  <2>3. pc # "done" /\ ~outpost BY <1>20 DEF Recover, ReturnedToOutpost
  <2>4. CASE pc' = "waypoint" /\ i' = Restart /\ UNCHANGED outcome
    BY <1>0, <1>20, <2>1, <2>2, <2>3, <2>4 DEF Recover, TypeOK, game
  <2>5. CASE ContinueAfter(Restart - 1)
    BY <1>0, <1>20, <2>1, <2>2, <2>3, <2>5, ContinueTyped DEF Recover, TypeOK, game
  <2>6. CASE ContinueAfter(Restart)
    BY <1>0, <1>20, <2>1, <2>2, <2>3, <2>6, ContinueTyped DEF Recover, TypeOK, game
  <2> QED BY <1>20, <2>4, <2>5, <2>6 DEF Recover
<1>21. CASE Die BY <1>21 DEF Die, route, TypeOK
<1>22. CASE Revive BY <1>22 DEF Revive, route, TypeOK
<1>23. CASE LeaveMap BY <1>23 DEF LeaveMap, route, TypeOK
<1>24. CASE StopBot BY <1>24 DEF StopBot, route, TypeOK
<1>25. ASSUME NEW who \in {"head", "move", "label"}, GiveUp(who) PROVE IInv'
  BY <1>25 DEF GiveUp, Finish, TypeOK, game
<1>26. CASE UNCHANGED vars BY <1>26 DEF vars, game, TypeOK
<1> QED
  BY <1>1, <1>2, <1>3, <1>4, <1>5, <1>6, <1>7, <1>8, <1>9, <1>10, <1>11, <1>12, <1>13, <1>14,
     <1>15, <1>16, <1>17, <1>18, <1>19, <1>20, <1>21, <1>22, <1>23, <1>24, <1>25, <1>26
  DEF Next, RouteStep, AtHead, AtStandard, AtLabel, HeadGivesUp, MoveGivesUp, LabelGivesUp

\* The inductive invariant holds.
LEMMA InvHolds == Spec => []IInv
<1>1. Init => IInv
  BY InitTyped, RouteAssumption DEF Init, IInv, OutpostEndsRoute, WipesCounted, TypeOK
<1>2. IInv /\ [Next]_vars => IInv' BY InvKept
<1> QED BY <1>1, <1>2, PTL DEF Spec

\* The route's state keeps its type: no restart, retry or backtrack of
\* RunWaypointRoute leaves the table of waypoints, and no waypoint is retried
\* more often than max_waypoint_move_retries.
THEOREM TypeCorrect == Spec => []TypeOK
<1>1. IInv => TypeOK BY DEF IInv
<1> QED BY <1>1, InvHolds, PTL

\* For every limit, 0 included: once the party was sent to the outpost, by the
\* limit, by a revival that did not come or for a missing key, the route only
\* ends, whichever of the three callers of RecoverRouteWaypointWipe waited for
\* the recovery; and no more than one wipe is counted beyond a limit.
THEOREM OutpostEnds == Spec => []OutpostEndsRoute
<1>1. IInv => OutpostEndsRoute BY DEF IInv
<1> QED BY <1>1, InvHolds, PTL

\* A recovery, a door or a retry sets the index ahead of the next waypoint only
\* when it is at most the one after the party's own.
LEMMA SkipStep ==
    ASSUME TypeOK, [Next]_vars
    PROVE  i' > i + 1 => i' <= at' + 1
<1> SUFFICES ASSUME i' > i + 1 PROVE i' <= at' + 1 OBVIOUS
<1>0. i \in Int /\ at \in Int BY RouteAssumption DEF TypeOK, Index
<1>1. CASE Recover
  <2>1. Restart <= at /\ Restart \in Int BY RestartInRoute, RouteAssumption DEF Index
  <2>2. at' = at BY <1>1 DEF Recover, game
  <2>3. i' \in {Restart, Restart - 1 + 1, Restart + 1} BY <1>1 DEF Recover, ContinueAfter
  <2> QED BY <1>0, <2>1, <2>2, <2>3
<1>2. CASE DoorLocked BY <1>0, <1>2, RouteAssumption DEF DoorLocked, ContinueAfter, Index
<1>3. CASE StandardRetries
  <2>1. i \in Index BY <1>3 DEF StandardRetries, Settled, TypeOK
  <2>2. RetryBack \in Nat BY RouteAssumption
  <2>3. Back(i, RetryBack) \in Index /\ Back(i, RetryBack) <= i BY <2>1, <2>2, BackInRoute
  <2>4. Back(i, RetryBack) \in Int /\ Back(i, RetryBack) <= i BY <2>3, RouteAssumption DEF Index
  <2>5. i' = Back(i, RetryBack) - 1 + 1 BY <1>3 DEF StandardRetries, ContinueAfter
  <2> QED BY <1>0, <2>4, <2>5
<1>4. CASE StandardReached \/ Passes \/ AtOpenDoor
  BY <1>0, <1>4 DEF StandardReached, Passes, AtOpenDoor, ContinueAfter
<1>5. CASE ~(Recover \/ DoorLocked \/ StandardRetries \/ StandardReached \/ Passes \/ AtOpenDoor)
  <2>1. i' = i
    BY <1>5 DEF Next, RouteStep, AtHead, AtStandard, AtLabel, HeadStops, HeadWiped, HeadPasses, Walk,
       QuestMissing, EndOfRoute, StandardMapChanged, StandardWiped, StandardGivesUp, KeyMissing,
       DoorNotReached, LabelWiped, QuestDoorShut, ReviveTimesOut, HeadGivesUp, MoveGivesUp, LabelGivesUp,
       GiveUp, Wipe, Die, Revive, LeaveMap,
       StopBot, route, vars
  <2> QED BY <1>0, <2>1
<1> QED BY <1>1, <1>2, <1>3, <1>4, <1>5

\* However wipes, retries and closed doors move the index of RunWaypointRoute, it
\* passes over a waypoint only when the party already stands at it or ahead.
THEOREM SkipsToTheParty == Spec => SkipsOnlyToTheParty
<1>1. TypeOK /\ [Next]_vars => [i' > i + 1 => i' <= at' + 1]_vars BY SkipStep
<1> QED BY <1>1, TypeCorrect, PTL DEF Spec, SkipsOnlyToTheParty
=============================================================================
