------------------------------ MODULE TaskLanes ------------------------------
(***************************************************************************)
(* What the game-thread dispatcher promises the threads that use it        *)
(* (GameThread.h): bounded first-in first-out lanes whose tasks run one at *)
(* a time, each at most once, and a fast path beside them.                 *)
(***************************************************************************)
EXTENDS Integers, Sequences

CONSTANTS Tasks, Lanes, Capacity, None

VARIABLES
    queue,      \* queue[lane]: accepted tasks, oldest first
    taken,      \* the task that left its queue and is about to run
    log,        \* the tasks that ran, in order
    closed      \* whether the lanes are shut down: they promise nothing any more

lvars == <<queue, taken, log, closed>>

Init ==
    /\ queue = [l \in Lanes |-> <<>>]
    /\ taken = None
    /\ log = <<>>
    /\ closed = FALSE

Known(t) ==
    \/ \E l \in Lanes : \E k \in DOMAIN queue[l] : queue[l][k] = t
    \/ taken # None /\ taken.task = t
    \/ \E n \in DOMAIN log : log[n].task = t

Accept(l, t) ==
    /\ ~Known(t) /\ Len(queue[l]) < Capacity
    /\ queue' = [queue EXCEPT ![l] = Append(@, t)]
    /\ UNCHANGED <<taken, log>>

TakeOldest(l) ==
    /\ taken = None /\ queue[l] # <<>>
    /\ taken' = [lane |-> l, task |-> Head(queue[l])]
    /\ queue' = [queue EXCEPT ![l] = Tail(@)]
    /\ UNCHANGED log

RunTaken ==
    /\ taken # None
    /\ log' = Append(log, [task |-> taken.task, via |-> taken.lane])
    /\ taken' = None
    /\ UNCHANGED queue

\* The fast path: a task submitted from the game thread runs at once, ahead of
\* everything that waits, but never between a take and its run.
RunNow(t) ==
    /\ ~Known(t) /\ taken = None
    /\ log' = Append(log, [task |-> t, via |-> "direct"])
    /\ UNCHANGED <<queue, taken>>

Works ==
    \/ \E l \in Lanes, t \in Tasks : Accept(l, t)
    \/ \E l \in Lanes : TakeOldest(l)
    \/ RunTaken
    \/ \E t \in Tasks : RunNow(t)

\* Shutdown empties the lanes whatever is going on; a drain that is inside a frame
\* and a producer past its tests then meet on rings nobody looks after.
Close == closed'

Next == (~closed /\ UNCHANGED closed /\ Works) \/ Close

Spec == Init /\ [][Next]_lvars
=============================================================================
