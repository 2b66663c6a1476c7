--------------------------- MODULE MCWaypointRoute ---------------------------
EXTENDS WaypointRoute, Sequences

\* One waypoint of each kind, in the order of Bogroot's two levels, with
\* standard legs between them.
MCRoute == <<"blessing", "quest_door", "standard", "key", "door", "door_checkpoint",
             "standard", "boss">>
MCLabel == [w \in 0 .. (Len(MCRoute) - 1) |-> MCRoute[w + 1]]
MCLast == Len(MCRoute)
=============================================================================
