------------------------------- MODULE AgentLoop -------------------------------
(***************************************************************************)
(* TwoModelAgentLoop.run: each cycle collects what the game sent, lets the   *)
(* supervisor act, asks PlanController whether to plan again, runs the       *)
(* planner (in the cycle, or as a task beside it), and ticks the executor.   *)
(* The language models answer, answer badly, time out or raise; the game and *)
(* the operator's chat go on during every await.  A world is the pair the    *)
(* planner's context key and the executor look at: the map, and whether the  *)
(* bot is under the model's control.  What a tool does to the game is part   *)
(* of the game's own moves.                                                 *)
(***************************************************************************)
EXTENDS Naturals, FiniteSets

CONSTANTS
    Profiles,      \* the modes of BridgeProfile: supervisor, executor, async, policy
    Worlds,        \* records [map, control]
    Messages,      \* what the operator says: one number per message, in their order
    PromptMessages, \* how many messages a prompt has room for: 5
    StallLimit,    \* stalled ticks that wake the planner: 5
    TimeoutLimit,  \* executor failures in a row that count: 3
    None

ASSUME AgentAssumption ==
    /\ Profiles \subseteq [supervisor : {"llm", "hybrid", "deterministic"},
                           executor : {"llm", "health-check", "disabled"},
                           async : BOOLEAN, policy : {"aggressive", "balanced", "strict"}]
    /\ \A w \in Worlds : w.control \in BOOLEAN /\ w.map # None
    /\ Messages \subseteq Nat /\ PromptMessages \in Nat \ {0}
    /\ StallLimit \in Nat \ {0} /\ TimeoutLimit \in Nat \ {0} /\ None \notin Worlds

\* A debounced hard event, one that bypasses, and one the supervisor owns too.
Events == {"dialog_opened", "wipe_recovery", "instance_load"}
BypassDebounce == {"map_changed", "wipe_recovery", "instance_load"}
HardEvents == BypassDebounce \cup {"dialog_opened"}
SupervisorOwned == {"plan_expired", "map_changed", "instance_load"}
Reasons == HardEvents \cup {"plan_expired", "condition", "executor_stalled"}
MapsOf == {w.map : w \in Worlds}
\* Wait for the native route, run a route action, or ask for help.
Advice == {"native", "route", "unknown"}

VARIABLES
    profile,     \* the launch profile
    world,       \* the game
    latest,      \* observations.latest
    chat,        \* where each message is: "given" to a call that runs beside the loop,
                 \* "heard" by one that returned a plan, "lost" without
    pc,          \* where the loop is
    snap,        \* the cycle's snapshot, until the executor's tick is over
    drained,     \* the first hard event of the cycle, until Decide
    advice,      \* what the supervisor said, until Decide
    plan,        \* PlanState
    planner,     \* the planner call: "idle", "asking" the model, "tools"
    key,         \* the snapshot it plans for, and its context key, while it runs
    attempt,     \* of replan's two attempts, while it runs
    plannerBad,  \* PlannerLoop.unhealthy
    timeouts,    \* consecutive_timeouts
    fallback,    \* using_single_model_fallback
    execBad,     \* ExecutorLoop.unhealthy
    lastMap,     \* PlanController._last_map_id
    recent,      \* the last replan is less than min_interval_seconds ago
    signature,   \* _last_signature, without phase and step; kept where it is read
    stalls,      \* _stalled_ticks
    handed       \* _handoff_to_froggy has been called

game == <<profile, world>>
input == <<latest, chat>>
cycle == <<snap, drained, advice>>
call == <<planner, key, attempt, plannerBad>>
executor == <<timeouts, fallback, execBad>>
controller == <<lastMap, recent, signature, stalls>>
vars == <<game, input, pc, cycle, plan, call, executor, controller, handed>>

TypeOK ==
    /\ profile \in Profiles /\ world \in Worlds
    /\ latest \in Worlds \cup {None}
    /\ chat \in [Messages -> {"unsaid", "inbox", "pending", "given", "heard", "lost"}]
    /\ pc \in {"observe", "supervise", "decide", "planning", "execute", "executing", "stopped"}
    /\ snap \in Worlds \cup {None} /\ drained \in Events \cup {None}
    /\ (pc \in {"supervise", "decide", "planning", "execute", "executing"} => snap # None)
    /\ advice \in Advice \cup {None}
    /\ plan \in [for : Worlds \cup {None}, idle : BOOLEAN, work : BOOLEAN, expired : BOOLEAN]
    /\ planner \in {"idle", "asking", "tools"} /\ key \in Worlds \cup {None}
    /\ (planner # "idle" => key # None) /\ attempt \in 0 .. 1 /\ plannerBad \in BOOLEAN
    /\ timeouts \in 0 .. TimeoutLimit /\ fallback \in BOOLEAN /\ execBad \in BOOLEAN
    /\ lastMap \in MapsOf \cup {None} /\ recent \in BOOLEAN
    /\ signature \in (MapsOf \X Reasons) \cup {None}
    /\ stalls \in 0 .. StallLimit /\ handed \in BOOLEAN

Init ==
    /\ profile \in Profiles /\ world \in Worlds
    /\ latest = None /\ chat = [m \in Messages |-> "unsaid"]
    /\ pc = "observe" /\ snap = None /\ drained = None /\ advice = None
    /\ plan = [for |-> None, idle |-> TRUE, work |-> FALSE, expired |-> FALSE]
    /\ planner = "idle" /\ key = None /\ attempt = 0 /\ plannerBad = FALSE
    /\ timeouts = 0 /\ fallback = FALSE /\ execBad = FALSE
    /\ lastMap = None /\ recent = FALSE /\ signature = None /\ stalls = 0 /\ handed = FALSE

NewPlan(w) == [for : {w}, idle : {FALSE}, work : BOOLEAN, expired : {FALSE}]

Moved(from, to) == [m \in Messages |-> IF chat[m] = from THEN to ELSE chat[m]]
CycleOver(next) == pc' = next /\ snap' = None

\* _build_messages: the prompt takes the newest of the pending messages.
InPrompt(m) ==
    /\ chat[m] = "pending"
    /\ Cardinality({n \in Messages : n > m /\ chat[n] = "pending"}) < PromptMessages

\* The pending messages are cleared, those in the prompt having come to an end.
Cleared(end) ==
    [m \in Messages |-> IF InPrompt(m) THEN end ELSE IF chat[m] = "pending" THEN "lost" ELSE chat[m]]

Pending == \E m \in Messages : chat[m] = "pending"

-----------------------------------------------------------------------------
(* The cycle: observations, the supervisor, the controller.                 *)

\* A snapshot may have come, and any events, of which only the first hard one
\* matters; without any snapshot the loop asks for one.
Observe ==
    /\ pc = "observe"
    /\ latest' \in {latest, world}
    /\ chat' = Moved("inbox", "pending")
    /\ IF latest' = None
       THEN UNCHANGED <<pc, snap, drained>>
       ELSE /\ snap' = latest' /\ drained' \in Events \cup {None}
            /\ pc' = IF profile.supervisor = "llm" THEN "decide" ELSE "supervise"
    /\ UNCHANGED <<game, advice, plan, call, executor, controller, handed>>

\* stop(), a heartbeat timeout, a disconnection.
LoopEnds ==
    /\ pc = "observe" /\ pc' = "stopped"
    /\ UNCHANGED <<game, input, cycle, plan, call, executor, controller, handed>>

\* _run_supervisor_tick: waiting for the native route, a route action, or an
\* unknown state.  A new signature replaces the plan; a tool collects observations.
Supervise ==
    /\ pc = "supervise" /\ pc' = "decide"
    /\ advice' \in Advice
    /\ plan' \in {plan} \cup NewPlan(snap)
    /\ latest' \in (IF advice' = "native" THEN {latest} ELSE {latest, world})
    /\ UNCHANGED <<game, chat, snap, drained, call, executor, controller, handed>>

MapChanged == lastMap # None /\ snap.map # lastMap

\* mutant: an expired plan is no reason
ReasonWithoutExpiry(trouble) ==
    CASE drained # None -> drained
      [] drained = None /\ MapChanged -> "map_changed"
      [] drained = None /\ ~MapChanged /\ trouble -> "condition"
      [] OTHER -> IF stalls = StallLimit THEN "executor_stalled" ELSE None
\* PlanController._reason; trouble is a defeat, a full inventory or an abort
\* condition in the snapshot.
Reason(trouble) ==
    CASE drained # None -> drained
      [] drained = None /\ MapChanged -> "map_changed"
      [] drained = None /\ ~MapChanged /\ plan.expired -> "plan_expired"
      [] drained = None /\ ~MapChanged /\ ~plan.expired /\ trouble -> "condition"
      [] OTHER -> IF stalls = StallLimit THEN "executor_stalled" ELSE None

\* _suppression_reason; same: the plan's phase and next step are those of the
\* last accepted replan.
Suppressed(reason, same) ==
    /\ profile.policy # "aggressive"
    /\ \/ reason \notin BypassDebounce /\ recent
       \/ /\ profile.policy = "strict" /\ reason \notin HardEvents
          /\ signature = <<snap.map, reason>> /\ same

Accepts(reason, same) == reason # None /\ ~Suppressed(reason, same)

\* The controller's own bookkeeping, before the supervisor has its say.
Evaluated(reason, same) ==
    /\ lastMap' = IF drained # None THEN lastMap ELSE snap.map
    /\ IF Accepts(reason, same)
       THEN /\ recent' = TRUE /\ stalls' = 0
            /\ signature' = IF profile.policy = "strict" THEN <<snap.map, reason>> ELSE signature
       ELSE UNCHANGED <<recent, stalls, signature>>

\* _apply_supervisor_replan_suppression.
Owned(reason) ==
    \/ advice = "native" /\ reason = "plan_expired"
    \/ /\ profile.supervisor = "deterministic" /\ advice # "unknown"
       /\ reason \in SupervisorOwned

WakesPlanner(reason, same) ==
    \/ Accepts(reason, same) /\ ~Owned(reason)
    \/ Pending
    \/ advice = "unknown"
    \/ plan.idle /\ profile.supervisor # "deterministic"

StartsCall == planner' = "asking" /\ key' = snap /\ attempt' = 0 /\ UNCHANGED plannerBad

Decide(wakes, next) ==
    \E trouble, same \in BOOLEAN :
       /\ pc = "decide" /\ Evaluated(Reason(trouble), same)
       /\ WakesPlanner(Reason(trouble), same) = wakes
       /\ pc' = next /\ drained' = None /\ advice' = None
       /\ UNCHANGED <<game, latest, snap, plan, executor, handed>>

LeavesPlan == Decide(FALSE, "execute") /\ UNCHANGED <<chat, call>>

\* planner_mode sync: the cycle waits, and the messages stay until it is over.
PlansInCycle ==
    /\ ~profile.async /\ Decide(TRUE, "planning")
    /\ StartsCall /\ UNCHANGED chat

\* _schedule_async_replan.
PlansBeside ==
    /\ profile.async /\ planner = "idle" /\ Decide(TRUE, "execute")
    /\ StartsCall /\ chat' = Cleared("given")

\* With a call in flight the request is dropped, and the messages are cleared.
PlannerInFlight ==
    /\ profile.async /\ planner # "idle" /\ Decide(TRUE, "execute")
    /\ chat' = Moved("pending", "lost") /\ UNCHANGED call

\* The cycle's call is over, with a plan or, unhealthy, without: the messages
\* are cleared either way.
ReplanReturns ==
    /\ pc = "planning" /\ planner = "idle"
    /\ pc' = "execute" /\ chat' = Cleared(IF plannerBad THEN "lost" ELSE "heard")
    /\ UNCHANGED <<game, latest, cycle, plan, call, executor, controller, handed>>

-----------------------------------------------------------------------------
(* PlannerLoop.replan, in the cycle or as a task of its own.                *)

CallOver == planner' = "idle" /\ key' = None /\ attempt' = 0

\* mutant: accept_plan always accepts
NeverStale == FALSE
\* accept_plan: the world has another context key than the call was made for.
Stale == profile.async /\ latest # key

PlannerAccepts ==
    /\ planner = "asking" /\ ~Stale
    /\ planner' = "tools" /\ plan' \in NewPlan(key)
    /\ UNCHANGED <<game, input, pc, cycle, key, attempt, plannerBad, executor, controller, handed>>

PlannerDiscards ==
    /\ planner = "asking" /\ Stale
    /\ CallOver /\ chat' = Moved("given", "lost")
    /\ UNCHANGED <<game, latest, pc, cycle, plan, plannerBad, executor, controller, handed>>

\* _execute_planner_tools returns; its tools may have collected observations.
PlannerFinishes ==
    /\ planner = "tools"
    /\ CallOver /\ plannerBad' = FALSE
    /\ latest' \in {latest, world} /\ chat' = Moved("given", "heard")
    /\ UNCHANGED <<game, pc, cycle, plan, executor, controller, handed>>

\* A bad answer, a value error in a tool, or a timeout, the first time.
PlannerRetries ==
    /\ planner # "idle" /\ attempt = 0
    /\ attempt' = 1 /\ planner' = "asking"
    /\ UNCHANGED <<game, input, pc, cycle, plan, key, plannerBad, executor, controller, handed>>

\* The second time, or an HTTP error at once.
PlannerGivesUp ==
    /\ \/ planner = "asking"
       \/ planner = "tools" /\ attempt = 1
    /\ CallOver /\ plannerBad' = TRUE /\ chat' = Moved("given", "lost")
    /\ UNCHANGED <<game, latest, pc, cycle, plan, executor, controller, handed>>

\* mutant: the loop's exception handler clears the messages
ClearedAfterError == Moved("pending", "lost")
MessagesAfterError == chat

\* Any other exception: the loop's own handler has it, before the messages are
\* cleared, or _poll_async_planner, long after.
PlannerRaises ==
    /\ planner # "idle"
    /\ CallOver
    /\ IF pc = "planning"
       THEN CycleOver("observe") /\ chat' = MessagesAfterError
       ELSE chat' = Moved("given", "lost") /\ UNCHANGED <<pc, snap>>
    /\ UNCHANGED <<game, latest, drained, advice, plan, plannerBad, executor, controller, handed>>

-----------------------------------------------------------------------------
(* The hand-over to Froggy, and ExecutorLoop.tick.                          *)

\* mutant: one model that gave up is enough
EitherUnhealthy == plannerBad \/ execBad
BothUnhealthy == plannerBad /\ execBad

HandoffToFroggy ==
    /\ pc = "execute" /\ BothUnhealthy
    /\ CycleOver("stopped") /\ handed' = TRUE
    /\ UNCHANGED <<game, input, drained, advice, plan, call, executor, controller>>

Stalled(counts) == stalls' = IF counts THEN (IF stalls < StallLimit THEN stalls + 1 ELSE stalls) ELSE 0

\* The model is asked only in control, under a plan with a step for it, and with
\* no abort condition.
Asked == profile.executor = "llm" /\ snap.control /\ plan.work

\* Which idle ticks stall: an abort condition, or an unhealthy health check.
MayStall ==
    \/ profile.executor = "health-check"
    \/ profile.executor = "llm" /\ snap.control

ExecutorIdles ==
    /\ pc = "execute" /\ ~BothUnhealthy
    /\ CycleOver("observe")
    /\ \/ ~Asked /\ Stalled(FALSE)
       \/ MayStall /\ Stalled(TRUE)
    /\ UNCHANGED <<game, input, drained, advice, plan, call, executor, lastMap, recent, signature, handed>>

ExecutorAsks ==
    /\ pc = "execute" /\ ~BothUnhealthy /\ Asked
    /\ pc' = "executing"
    /\ UNCHANGED <<game, input, cycle, plan, call, executor, controller, handed>>

Recovers == execBad' = FALSE /\ timeouts' = 0

\* Without a game action among its tools the tick counts as stalled.
ExecutorAnswers ==
    /\ pc = "executing" /\ CycleOver("observe")
    /\ Recovers /\ UNCHANGED fallback
    /\ \E counts \in BOOLEAN : Stalled(counts)
    /\ latest' \in {latest, world}
    /\ UNCHANGED <<game, chat, drained, advice, plan, call, lastMap, recent, signature, handed>>

\* An exception of another kind while its tools run.
ExecutorRaises ==
    /\ pc = "executing" /\ CycleOver("observe")
    /\ Recovers /\ UNCHANGED fallback
    /\ UNCHANGED <<game, input, drained, advice, plan, call, controller, handed>>

\* enable_single_model_fallback: the planner's model takes over once.
ExecutorFails ==
    /\ pc = "executing" /\ CycleOver("observe") /\ Stalled(TRUE)
    /\ \/ /\ timeouts + 1 < TimeoutLimit
          /\ timeouts' = timeouts + 1 /\ UNCHANGED <<fallback, execBad>>
       \/ /\ timeouts + 1 >= TimeoutLimit /\ ~fallback
          /\ timeouts' = 0 /\ fallback' = TRUE /\ UNCHANGED execBad
       \/ /\ timeouts + 1 >= TimeoutLimit /\ fallback
          /\ timeouts' = TimeoutLimit /\ execBad' = TRUE /\ UNCHANGED fallback
    /\ UNCHANGED <<game, input, drained, advice, plan, call, lastMap, recent, signature, handed>>

-----------------------------------------------------------------------------
(* The game, the operator and the clock.                                    *)

WorldMoves ==
    /\ world' \in Worlds \ {world}
    /\ UNCHANGED <<profile, input, pc, cycle, plan, call, executor, controller, handed>>

\* inject_user_message.
Say(m) ==
    /\ chat[m] = "unsaid" /\ \A n \in Messages : n < m => chat[n] # "unsaid"
    /\ chat' = [chat EXCEPT ![m] = "inbox"]
    /\ UNCHANGED <<game, latest, pc, cycle, plan, call, executor, controller, handed>>

PlanExpires ==
    /\ ~plan.expired /\ plan' = [plan EXCEPT !.expired = TRUE]
    /\ UNCHANGED <<game, input, pc, cycle, call, executor, controller, handed>>

DebounceEnds ==
    /\ recent /\ recent' = FALSE
    /\ UNCHANGED <<game, input, pc, cycle, plan, call, executor, lastMap, signature, stalls, handed>>

-----------------------------------------------------------------------------
LoopStep == Observe \/ Supervise \/ LeavesPlan \/ PlansInCycle \/ PlansBeside \/ PlannerInFlight
            \/ ReplanReturns \/ HandoffToFroggy \/ ExecutorIdles \/ ExecutorAsks
            \/ ExecutorAnswers \/ ExecutorRaises \/ ExecutorFails
PlannerTrouble == PlannerRetries \/ PlannerGivesUp \/ PlannerRaises
PlannerStep == PlannerAccepts \/ PlannerDiscards \/ PlannerFinishes \/ PlannerTrouble
\* After the loop's end only a planner call still in flight is followed.
Environment == /\ pc # "stopped"
               /\ \/ WorldMoves \/ (\E m \in Messages : Say(m))
                  \/ PlanExpires \/ DebounceEnds \/ LoopEnds

Next == LoopStep \/ PlannerStep \/ Environment

Spec == Init /\ [][Next]_vars

\* The event loop runs its tasks, the clients' timeouts end every call, plans
\* expire and five seconds pass.
FairSpec == /\ Spec /\ WF_vars(LoopStep) /\ WF_vars(PlannerStep)
            /\ WF_vars(PlanExpires) /\ WF_vars(DebounceEnds)

-----------------------------------------------------------------------------
(* Properties.                                                              *)

\* The loop gives the bot back to Froggy only when the planner's last call that
\* was not stale failed, and the model that replaced the executor's has failed
\* TimeoutLimit times in a row and not answered since
\* (two_model_agent_loop.py:307, executor_loop.py:85-112).
HandoffIsEarned ==
    [][handed' /\ ~handed => plannerBad /\ fallback /\ timeouts = TimeoutLimit]_vars

\* What the planner writes, in whichever mode, is a plan for the latest snapshot
\* the bridge has, or, in the cycle, for the one the cycle read.
PlanIsForWhatIsSeen ==
    [][plan' # plan /\ planner' = "tools" /\ planner = "asking"
          => plan'.for = IF profile.async THEN latest ELSE snap]_vars

\* As many newer messages as a prompt has room for have been said.
Crowded(m) == Cardinality({n \in Messages : n > m /\ chat[n] # "unsaid"}) >= PromptMessages

\* In the synchronous mode every message of the operator comes to be heard: a
\* planner call that carried it returns a plan, although calls before it may
\* have ended in exceptions that the loop's handler takes.  It is promised only
\* while the planner never gives up on a call, since the messages of such a call
\* are cleared like those of a good one, and to the newest messages of a prompt
\* (two_model_agent_loop.py:281-287, 311-316; planner_loop.py:272).
OperatorIsHeard ==
    /\ ~profile.async /\ <>(latest # None)
    /\ []~plannerBad /\ <>[][~PlannerRaises]_vars
    => \A m \in Messages :
          chat[m] = "inbox" ~> (chat[m] = "heard" \/ pc = "stopped" \/ Crowded(m))

\* When the game settles and the planner answers, the plan comes to be one for
\* the game as it is, and stays one, although in-flight calls swallow the requests of a map
\* change: the expiry of the plan asks again (without a supervisor, which owns
\* these requests, and without the strict policy, which drops repeated ones).
PlanCatchesUp ==
    /\ profile.supervisor = "llm" /\ profile.policy # "strict"
    /\ <>[](latest = world) /\ <>[][UNCHANGED world]_vars
    /\ <>[][~PlannerTrouble]_vars
    => <>(pc = "stopped") \/ <>[](plan.for = world)
=============================================================================
