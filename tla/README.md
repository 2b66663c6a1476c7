# A TLA+ model of gwa3

gwa3 is a DLL injected into the Guild Wars client, bots that play through it, and a Python
bridge that lets language models take over. This directory models the parts in which threads
and processes meet (the dispatcher onto the game's own thread, the lanes and the hook that carry
packets to the client, the named-pipe server, the exchange of requests and answers, the trader's
quotes, trades with other players), and the long sequential programs whose steps can each fail (the dungeon route, the run,
the upkeep between runs, the bridge's agent loop). TLC checks them on small instances and TLAPS
proves all but the liveness properties for every value of the constants. Paths below are relative to the repository.

    tlc -workers 2 -config MCGameThread.cfg MCGameThread     # any run: cfg, then its MC module
    tlapm GameThreadProofs.tla                               # any *Proofs module

## 1. Inventory

| Component | State | Operations | Talks to | Module |
|---|---|---|---|---|
| Game-thread dispatcher, `src/gwa3/core/GameThread.cpp` | three rings of 256 slots, `s_cs`, `s_onGameThread`, `s_gameThreadId`, hook bytes | five Enqueue functions, `DetourCallback` and three drains, Initialize, Shutdown, `HookWatchdog` | every manager and bot thread; the client's frame callback | GameThread |
| Client-to-server transport, `src/gwa3/packets/CtoS.cpp` | packet, game-command and botshub rings of 64, spin locks, engine hook bytes and flag | the enqueue functions, `PacketSenderThread`, the naked engine detour, `EngineWatchdog`, Suspend/ResumeEngineHook | bot thread, packet thread, the client's engine loop and its integrity check | CommandLanes, EngineHook |
| Named-pipe server, `src/gwa3/llm/IpcServer.cpp` | pipe handle, two atomics, two queues, three mutexes, one condition variable | `IpcThread`, `SenderThread`, Send, Dequeue, Initialize, Shutdown | LlmBridge, ActionExecutor, EventPush; the Python client | IpcServer |
| Python IPC client, `bridge/ipc_client.py`, `bridge/action_dispatcher.py` | pending futures and backlog by request id, reader task | expect, send, forget, wait, deliver, connect, disconnect | IpcServer; the agent loops | ActionExchange |
| Agent loop, `bridge/two_model_agent_loop.py`, `plan_controller.py`, `planner_loop.py`, `executor_loop.py` | plan, snapshot, messages, planner task, health flags, debounce | observe, decide, plan in the cycle or beside it, execute, hand over to the bot | dispatcher; language models; supervisor | AgentLoop |
| Dungeon route runner, `src/gwa3/dungeon/DungeonRouteRunner.cpp`, `DungeonCheckpoint.cpp`, `DungeonEntryRecovery.cpp` | waypoint index, wipe count, move retries | `RunWaypointRoute`, labelled waypoints, three wipe recoveries, door checkpoints | the party in the game; the bot's Stop | WaypointRoute |
| Bot framework and Froggy run, `bots/common/`, `bots/froggy/FroggyHM.cpp` | bot state, running flag, run telemetry, counters, entry failures | Start, Stop, SetState, the bot loop, its handlers, `RunDungeonLoop` | managers, route runner, bridge | FroggyRun |
| Trader hook and purchases, `src/gwa3/core/TraderHook.cpp`, `managers/MerchantMgr.cpp`, `llm/ActionExecutorTrade.cpp` | three quote globals, the callers' counts | `OnVendorQuote`, Reset, BuyMaterials, SellMaterialsToTrader, trader_buy | game thread, the game's server, bot thread, bridge thread | TraderQuote |
| Player trades, `src/gwa3/managers/TradeMgr.cpp`, `llm/ActionExecutorTrade.cpp` | cart hook and its flags, the pending prompt, its clicks, sleeping retries | ten actions of the bridge, the hooks of cart and quantity prompt, four delayed retries | game thread's lanes, detached threads, the client's windows, the partner | PlayerTrade |
| Maintenance, `src/gwa3/managers/MaintenanceMgr.cpp`, `MerchantServices.cpp` | none but the inventory, chest and gold of the game | `PerformMaintenance` and its nine steps, three bot states | merchants, crafters, Xunlai chest | Maintenance |
| LLM bridge, `src/gwa3/llm/LlmBridge.cpp` | run flag, snapshot clocks, pause deadline | bridge thread, DrainInboundActions, PauseSnapshotsFor, Initialize, Shutdown | IpcServer, ActionExecutor, GameSnapshot | - |
| Action executor, `src/gwa3/llm/ActionExecutor*.cpp` | dispatch table, rate window and count | Execute and some hundred handlers | managers; answers through IpcServer | (ActionExchange, TraderQuote) |
| Render hook, `src/gwa3/core/RenderHook.cpp` | ring of commands, two counters, map flag | Enqueue, detour, Shutdown | bot thread, render thread | - |
| StoC and UI callbacks, `src/gwa3/managers/StoCMgr.cpp`, `src/gwa3/core/CallbackRegistry.cpp` | callback lists | register, remove, dispatch | game thread, managers | - |
| Runtime watchdog, scanner, other managers, `advanced`, `dungeon`, the other bots | memory of the client, ticks, scripts | sequential | all of the above | - |
| Supervisor UI, `ui/` (C#) | sessions, launch plans | launch, inject, health gate | bridge HTTP API | - |
| DLL entry, `src/gwa3/dllmain.cpp` | none of its own | init thread, detach order | Initialize and Shutdown of all | - |

What is hard, and what correctness means:

- *Dispatcher.* A slot is run in place after `s_cs` is left, producers on any thread, a fast
  path that skips the queue, a client that overwrites the hook, and unloading in mid-frame.
  Correct: no task lost, torn, or run twice; order within a lane; one serial-pre and one post
  task per frame; the hook comes back while loaded and, once removed, is never put back unless
  the wait for the watchdog ran into its timeout.
- *Transport.* Consumers without locks, arguments read from the slot while the command runs, five
  bytes of code written by three parties. Correct: each ring is a bounded FIFO; an idle ring
  means the work is done; the hook is out during a map transition; saved bytes are the client's.
- *Pipe server.* Two threads that can both end a session, clients that vanish at any step, eviction,
  a stop request against every wait. Correct: only clients past the handshake are served; no
  overtaking within a priority; eviction respects priority; the server listens again; it stops.
- *Exchange.* Late answers, timeouts, breaks, a request queue that outlives the client. Correct:
  a call returns its own answer; no answer is lost while the pipe is up.
- *Agent loop.* A planner call that takes minutes beside a game that moves, requests debounced,
  suppressed or swallowed, two models that fail separately. Correct: a plan is for what was seen,
  it catches up with the game and stays with it, what the operator writes is heard, the bot is not
  given away by one failure.
- *Route and run.* Wipes noticed at three places, an index that many things move back, a party the
  game may move at any time, a bridge that sets the bot's state. Correct: the party sent to the
  outpost ends the route, nothing ahead of the party is skipped, a run is counted once and only after its boss, Stop works.
- *Trading.* Quotes that carry no request, transactions that arrive after the wait, a second
  thread at the same globals. Correct: an undisturbed trade pays its price; success means the
  material is in the bag; overbuying is bounded; waits end.
- *Player trades.* Tasks that run in place or frames later depending on who enqueues them, retries
  from sleeping threads, one set of globals for all prompts, a partner who closes and reopens the
  window. Correct: a request clicks only in its own prompt; the cart hook goes off again; every
  retry ends.
- *Maintenance.* Nine steps, each from counts read earlier and each free to fail, a reserve that
  several callers borrow from and spend, again and again in one visit, a bag at its limit. Correct: the bot leaves equipped, the reserve, the
  consets and the free slots are kept, and the upkeep ends.

`PROJECT.json` lists every component and, under `hazards`, each of these dangers at its line.

## 2. Plan

Done: `GameThread` with its abstract `TaskLanes`; `IpcServer`; `CommandLanes` (implements
`TaskLanes`) and `EngineHook`; `ActionExchange`; `WaypointRoute`; `FroggyRun`; `AgentLoop`;
`TraderQuote`; `PlayerTrade`; `Maintenance`. All are proved about, in eight modules: every safety
invariant, every action property and both refinements of the runs are theorems. Liveness is left to TLC.

Next, in this order:

1. `RenderQueue`: the two-producer ring and its shutdown; expected to implement a lossy lane only.
2. `PacketCallbacks`: StoC dispatch with registration and removal inside a callback, and the
   mutex of CallbackRegistry.
3. `LlmBridge`: start-up failure paths, snapshot clocks with 32-bit ticks, rate limit, shutdown.
4. `SupervisorSession`: launch, injection and health gate with its retries.
5. Composition: the transactions of `TraderQuote` over the lanes of `GameThread`, so that full
   rings drop them.

One run per module that checks safety and, where the instance allows it, liveness; a second one
where shutdown or time needs another instance.

## 3. Modules

### GameThread, TaskLanes, GameThreadProofs

`slot`, `head`, `tail` are the three rings; a ring of `kMaxQueue` slots holds one task fewer.
`frame` says where `DetourCallback` is: `out`, one of the lanes, `original`, `leave`. Within a lane a
drain `Take`s a slot and moves the tail under `s_cs`, leaves it, `Invoke`s the slot and `Finish`es
by clearing the invoker. `step = "body"` is the time a task runs: the task may itself call Enqueue
functions. An Enqueue call is two steps, because its test of `s_initialized` (and for the Raw
functions nothing else) precedes `s_cs`: `EnqueueEnters`, then `EnqueueRunsNow` (fast path) or
`EnqueuePushes`. A full ring drops the task. Initialize, Shutdown, the
watchdog and the client's rewriting of the entry point are actions on `boot`, `hook`, `s_cs`,
`watchdog`. The watchdog compares (`WatchdogCompares`) and patches (`WatchdogPatches`) in two steps, and may be delayed
between them for any time. Shutdown's 2000 ms wait for it ends when it has left or by its timeout, and
the code ignores which (`ShutdownUnhooks`; `timedOut` remembers it), so a late patch is a behaviour of the model.
A fast-path task is one step: it runs on the caller's stack and touches no ring.
A task is a number, its submission's; captured data is left out.

`TaskLanes` promises bounded FIFO lanes: accept if there is room, take the oldest, run what was
taken. `LanesAreQueues` is `Lane!Spec` under the mapping at the end of `GameThread`. Once `closed` the
lanes promise nothing: Shutdown empties the rings whatever the game thread and the producers are doing,
and a producer past its test may then fill the very slot a drain is about to invoke.

### IpcServer, PipeProofs

A client is a session number. `ipc` and `sender` are program counters at the points where the other
threads can interfere: each hold of a mutex that contains no wait is one step, a write to the pipe
is a step of its own, and the wait on `g_outboundCv` is split into predicate, blocking, asleep, because a
notification may fall between them. `peer` and `greeting` are what the client did; it may leave, stay
silent, or send a bad hello at any time. Frames carry a stamp (their age) and a priority. Bytes,
overlapped I/O and lengths are abstracted to "the write succeeds or not". One atomic test of
`g_clientConnected` and the push are two steps (`SendEnters`, `SendQueues`).

### CommandLanes, TransportProofs

`head` and `tail` are the absolute counters (the code's are 32-bit, and 64 divides 2^32, so their
wrap does not disturb index or difference). Producers go through spin, test, zero, fill, publish and
unlock one step at a time. The packet thread tests, copies, advances and sends; the detour runs
either a botshub command in its slot, moving the tail only in `GWA3BotshubCommandReturnThunk`, or a game
command after moving the tail. Whether a frame defers botshub commands is the client's choice.
The rings are modelled after InstallEngineHook has finished. `LanesAreQueues` says that each ring
implements `TaskLanes` with one lane: the waiting tasks are the arguments in the window, the taken
one is the copy under way, and `log` keeps for each ring what it ran.

### EngineHook, TransportProofs

`site` is the five bytes at the hook address, `client` what the client wants there. The watchdog
reads the flag, compares and repairs in three steps; Suspend and Resume are five steps of the bot
thread. `SleepCoversCycle` is the assumption behind `Sleep(10)` in `SuspendEngineHook` ("Let watchdog
cycle pass", `src/gwa3/packets/CtoS.cpp:733`): that the watchdog is between two cycles when the
sleep ends. Setting it to FALSE in `MCEngineHook.cfg` makes `HookOffWhileSuspended` fail: a delayed
watchdog patches the hook in during the transition, and Resume then saves its own jump.

### ActionExchange, PipeProofs

An element of `Calls` is one call of `_execute_game_action`. `Expect` is `expect_action_result` with its
backlog, `SendAction`/`SendFails` the send and `forget_action_result`, `Returns`/`TimesOut` the end of the wait;
`Deliver` is one turn of the reader. An answer is named by the call it answers, which the code
does not know: it sees only `IdOf`. Of the DLL the module keeps what `IpcServer` shows about it:
requests in order, one answer each, dropped without a client, outbound queue cleared when the pipe
breaks, inbound queue kept. The outbound limit is left out (256 answers against a handful of
calls). `Reconnect` is a new `IpcClient` over the old DLL. Calls with the same id follow each other,
because one loop awaits them.

### WaypointRoute, WaypointRouteProofs

`RunWaypointRoute`: `i` is the loop's index, `pc` the place in its body ("head", "waypoint", "arrived",
"wiped", "done"), `wipes` and `retries` the budgets, `at` the waypoint nearest to the party. `Label` gives
each waypoint its kind; a walk to it is one step whose outcome (reached, dead, missed) and end are the
game's. `Wipe` is `RecoverWaypointWipe` up to its wait: it counts, and over the limit (0 is none) it
sends the party to the outpost instead of waiting. `ReviveTimesOut` is the end of the wait without a
revival, `Restart` the index the recovery computes, and `Recover` what each of its three callers (`context`) does
with it. `outpost` is `returned_to_outpost`; `RecoverRouteWipeWithOptions` tests it (`ReturnedToOutpost`), and the
callers without a recovery are `HeadGivesUp`, `MoveGivesUp`, `LabelGivesUp`. A party in the outpost may be alive again. The party dies, is revived anywhere and leaves the map by actions of its own; the operator
may stop the bot. Combat and loot are inside the walk. The nearest-progress backtrack, which
FroggyHM leaves off, is left out. `DoorLocked` walks back from a closed dungeon door; this has no
budget, so `RouteEnds` says "unless it comes to a closed door again and again".

### FroggyRun, FroggyRunProofs

`BotThreadProc` with all states of the Froggy bot. A handler is fetched (`Fetch`), runs, and returns a
state that is stored over whatever SetState stored meanwhile (`Return`). `RunDungeonLoop` is modelled over
the two levels of Bogroot with its refreshes, re-entries and the test of the boss's telemetry; a
route is its result, which `WaypointRoute` justifies. The game moves the party at any time
(`PartyMoves`); the bridge sets any state it can name (`SetBotState`). `marked` is `s_runCompletionMarked`;
`credits` (completions counted since the last run start) and `meddled` (the bridge has asked for
awaiting_return since then) are history. `MaxRefresh` and `Threshold` are the code's budgets.

### AgentLoop, AgentLoopProofs

`TwoModelAgentLoop.run` and the planner task beside it. `snap` is the snapshot of the current cycle,
`latest` the bridge's newest, `world` the game (a map and whether the party can be controlled); a plan
has the snapshot it was made for, whether it has work for the executor, and whether it has expired. `Reason` is `_reason` of PlanController in its order, `Suppressed` the debounce and the duplicate
test, `Stale` the planner context key. `Profiles` are combinations of `BridgeProfile` (supervisor,
executor, asynchronous planner, policy). A model's call returns, fails, or returns for a game that
has changed. `chat` says where each message of the operator is: unsaid, in the dispatcher's inbox, pending, given to a
call, heard (a call that carried it returned a plan), or lost. A call carries the newest `PromptMessages`
(5 in `planner_loop.py:272`) of those pending (`InPrompt`) and all are cleared with it (`Cleared`): after the call in the
synchronous mode, whether it gave up or not, and before it has begun in the asynchronous one. Only an exception in the cycle keeps
them (`MessagesAfterError`). Prompts, tools and the contents of plans are left out. An interval of time is a
Boolean that an action of the clock changes: `expired` of the plan (`PlanExpires`), `recent` for the
debounce (`DebounceEnds`).

### TraderQuote, TradeProofs

`item`, `cost`, `quoteId` are the globals of TraderHook.cpp, read and written one at a time. The bot's
thread sells `Sales` packs of scales and then makes up to `Attempts` calls of BuyMaterials inside
`BuyConsetMaterialVerified`; the bridge's thread executes `MaxTrades` trader_buy actions. A request is
a task in the thread's lane (GameThread's for the bot, the game-command ring for the bridge), then
an element of `wire` until the server answers, at any later time and in order. A transaction is taken
only at the server's price and may be refused. `clean` records that no quote but the thread's own was
in play since its reset, `paid` counts what the bot's transactions paid for.

### PlayerTrade, TradeProofs

The game thread is a `phase` of the frame and a `stack`: the task it runs and, below it, what its callers have
yet to do. `Call` is an Enqueue function seen from inside a frame, where the task is run at once; seen from
outside, or from a raw function (`ReturnAfterClicks`, the clicks of ButtonClick), the task waits in `lanes`.
`timers` are the detached threads that sleep before they enqueue. A request of the bridge is a `TradeTask` with its
number, item, quantity and attempts left; `Handle` is its handler, which only enqueues. `InitiateTrade` to
`Invites` are the stages of an invitation, `OfferItemPrompt`, the `Attempt` actions and the `Await` actions the
prompted offers, split where the prompt is opened by a nested task. `pending` holds the globals of the
quantity prompt, `hooked`, `capture`, `disable` and `context` those of the cart hook. The client opens a prompt
at once or later, may keep an old one (`KeepsPrompt`), and updates the cart inside a frame or outside one. The
partner may open and close trades at any time. A wait on the game thread is one step: nothing else can run
there. Probing the game's memory for the window is reduced to its result, a settled window or none; a captured
context that is `Stale` may be called all the same, which faults.

### Maintenance, MaintenanceProofs

`pc` walks through `PerformMaintenance` in the code's order; `state` is the bot state that runs it (town
setup, Merchant, Maintenance). Consets are stacks (how many of each size), because they move a
stack at a time and the largest first; other things are counted in slots. What asks something of
the game (a sale, a craft, a purchase, a withdrawal, the way to Embark Beach) has an outcome where
it failed. Materials of all kinds are one number and `recipe` says whether what is carried suffices
for some conset. Every purchase and every craft costs any part of the purse (`Spend`), so that prices of
all sizes are covered. A conset of the missing kind is made in four steps: a top-up of the purse (`CraftMissing`), the
purchase of materials (`TopOff`), a second top-up (`FillUpAgain`) and the craft (`CraftAtNpc`), once for each kind. The decisions after the upkeep are `DecideTown`, `DecideMerchant`, `FollowUp`,
`DecideFull`; `TryAgain` is the Retry result.

## 4. Runs

| Run | Instance | What it shows |
|---|---|---|
| `gamethread` | 3 tasks, 1 worker and the game thread, rings of 2 slots, two of the five functions (the lane that is drained whole with callbacks, the lane of one task per frame with raw pointers), failing start-up, one rewrite of the hook, Shutdown with a wait that may time out | The running slot is safe, every lane is a FIFO queue until it is cleared, a removed hook comes back only after a timed-out wait, and (fair) every queued task runs unless unloaded |
| `ipcserver` | 2 producers, 3 sends, 2 priorities, queue of 2, 2 clients, 1 request | Handshake before service, no overtaking within a priority |
| `ipcserver_live` | 1 producer, 2 sends, 2 clients, Shutdown | No forgotten frame, listens again, IPC thread ends |
| `commandlanes` | 3 tasks, 2 producers, rings of 2 | FIFO refinement of the three rings, the running arguments included, idle means done, accepted work runs |
| `enginehook` | 2 byte patterns, 2 commands, `SleepCoversCycle` | Hook out in a transition, saved bytes are the client's, commands run |
| `exchange` | 4 calls (2 share an id), backlog of 2, 2 sessions | Own answer for own id, backlog holds only late answers, calls end without timeouts while the pipe is up |
| `route` | 8 waypoints, one of each kind, 2 wipes, 2 move retries | A party sent to the outpost ends the route, nothing ahead of the party is skipped, the route ends |
| `froggy` | every state the bridge can name, 3 refreshes, entry failures up to 2 | One credit per run, credit only after the boss, Stop is heard |
| `agentloop` | 3 profiles (synchronous with executor, asynchronous and supervised without), 2 maps, 1 message, limits 1 and 2 | Hand-over is earned, plans are for what was seen, a message outlives exceptions until it is heard (synchronous mode), the plan catches up and stays |
| `trade` | 1 sale, 2 attempts for 2 packs, 1 trade of the bridge at the same price, wrap at 2 | Undisturbed trades pay their price, verified means gained, bounded overbuying, the purchase ends |
| `playertrade` | 2 requests of every kind on 2 stacks, 2 trades, every seam of the popup hook, 1 retry | A request clicks only in its own prompt, the cart hook goes off, every request ends |
| `maintenance` | 8 inventories on 4 slots and a chest of 2, each in the 2 states that lead to an upkeep, 2 kinds of conset and kit, purchases and crafts of every price | Leaves equipped; reserve, consets and free slots kept; the upkeep ends |

*Bounds.* Rings of 2 slots with 3 tasks fill, overflow and wrap; the two functions called in `gamethread` have one of each
kind (a lane drained whole and one of one task per frame, a callback and a raw pointer; a third lane more than doubles the states
and adds no pair of this kind), while the theorems cover all five; a task is named by the order of its submission, so no two instances
differ by names alone. Two producers are the
least that contend, and the third thread is the consumer. Two sessions are enough for everything
that leaks from one client to the next. A backlog of 2 with three ids overflows. An outbound
queue of 2 with 2 priorities shows rejection, eviction, and overtaking. The route has one waypoint
of each kind, so that every pair of a recovery and a kind behind it occurs, and two wipes and two
retries pass each limit. Two maps are what a stale plan needs; a failure limit of two tells a row of
failures from one. With one message no prompt is crowded; that messages are dropped from a crowded one is the exception
`OperatorIsHeard` makes. Two trading threads with one trade of the bridge and two attempts of the bot let
a late quote meet every later read; with two packs wanted, an attempt can make several transactions, and because
the bridge's goods have the price of the bot's, its quotes pass for the bot's and its transactions lower
the gold the bot looks at. The bound of `BoundedOverbuy` is reached in the run (three packs paid without the bridge, four with it).
No material is out of stock: to the buyer a quote of zero is one that did not come. Quote numbers wrap at 2. Two requests of a player trade let a retry come
back behind the other request, in the same trade or the next; one retry tells a first attempt from a later one, and the code's five and three differ in
number only. Four slots with two kinds of conset
and kit, of which two should stay free, are full in some starts and not in others; gold is counted in
units of a character's deposit, the bank starts at the floor and two units above, and it is borrowed from below the floor again after what was
borrowed is spent, down to the bound; one pass of each conversion loop is followed by the test that
would start the second. `MaxRepatches`, `MaxSessions`, `MaxSends`, `MaxRequests`, `MaxPending`, `MaxConnections`, `MaxTrades`,
`MaxWindows`, `MaxRetries`
(of Maintenance: how often a town is found unstable) cap counters and clients; each is named in its
module. Deadlock is not checked in the runs whose clients, calls or route are used up, and in the
one where the DLL is gone: all threads then wait or have ended.

*Fairness.* Weak fairness of a thread's steps is the operating system's scheduling. The client is
assumed to draw frames (`Frame`, `FrameEnters`, `DetourEnters`), which it does as long as it runs. Strong fairness of
`FrameEnters` in `CommandLanes` says that the client is again and again in a state in which a frame
does not defer; that of `DetourEnters` in `EngineHook` says that frames meet the hook when it is in again and again, and for
`WatchdogRepairs` that a repair held back by the 100 ms throttle is not held back for ever. In
`WaypointRoute`, `FroggyRun` and `Maintenance` it is the bot's thread that goes on: each of its waits
has a timeout, whose expiry is one of the outcomes. In `AgentLoop` the event loop runs both tasks
(every model call has a client timeout), and time passes. `PlayerTrade` assumes frames and that sleeping
threads wake up. `TraderQuote` assumes only the bot's thread:
nothing of the server, the frames or the bridge. No fairness is assumed of clients, producers,
shutdown, the party, the operator, or the pipe.

## 5. Proofs

Each theorem below is named with the property it states; TLC checks the property on the instance of
section 4, the theorem holds for every value of the constants that the module's assumptions admit.
All safety proofs have one shape: an invariant of named parts, one step per action, a last step that
combines them. The assumptions are the modules' own (non-empty capacities, natural limits, a `None`
that is no value), except where a theorem names one more.

`GameThreadProofs`, for every `kMaxQueue >= 2`, task set and worker set (assumptions
`CapacityAssumption`, `NamesAssumption`, `CallsAssumption`, `BoundAssumption`): `TypeCorrect`, `SlotsMatch`,
`RunningSlotSafe`, `OnePerFrame`, `HookRemoved`, `ImplementsLanes`. That a producer cannot touch the running
slot is not inductive by itself: it needs that the slot taken is the one the tail has just passed and
lies outside `[tail, head)`, that `head` can never step onto it while one slot must stay empty, and that
a frame is in a lane exactly while a slot is taken (`FrameShape`, `RunningSlotIsReserved`). The
arithmetic modulo `kMaxQueue` is kept in the lemmas `SuccCases` to `SuccInjective`. After Shutdown
has emptied the rings under a running task the statement no longer applies, which is why it is
guarded by `ShutDown`. `HookRemoved` does not assume that Shutdown's wait succeeds: `WatchdogGone` says that after a wait
that ended well the watchdog has left its loop, and that after one that timed out it can make no further
cycle than the one it is in, so that a patch from there is the last.
`ImplementsLanes` is the refinement of `TaskLanes`: `LaneStep` gives every step of `GameThread` its step
of the lanes or a stutter. A push is an `Accept` because the task in a call is in no other place
(`SubmittedOnce`); the fast path is a `RunNow` because the game thread is never inside an Enqueue call
while its drain holds a slot (`CallsOutsideDrain`); `WaitingAfterPush` and `WaitingAfterTake` are the modular
arithmetic that makes the window a queue. From Shutdown's first write on every step is a `Close`.

`TransportProofs`, for every ring size, task set and set of producers: `RingsHold`, `RingsAreQueues`
(`LanesAreQueues`), `IdleMeansDone` (`BotshubIdleMeansDone`). `RingsInv` is what the spin locks and the single
consumers give: one holder per ring, no ring with more than `RingSize` tasks, a botshub command
that returns to the index it left. `ContentInv` says that the window holds tasks and that what a
consumer copied is what it found, which needs that no producer writes to a slot of the window:
`IndexApart` shows from `DivMod` that different places of a window have different slots.
`TasksOnce` keeps a task in one place. The refinement is proved for one ring `l` and then for the three.
`IdleMeansDone` rests on `AcceptedKept`: an accepted botshub command has run or is in the window; the
tail moves only after the run, so an empty window leaves only the first.
For `EngineHook`, for all byte patterns and bounds: `HookTyped`, and for `SleepCoversCycle` `HookOff`
(`HookOffWhileSuspended`) and `SavedBytes` (`SavedAreClientBytes`). `HookInv` adds that the flag is up exactly
while the bot is between Suspend and Resume, that the watchdog sleeps from the end of the sleep on,
and that the address holds the jump or the client's bytes. Only the step `SuspendRestores` uses
the assumption.

`PipeProofs`, for every number of producers, clients and requests and every queue size: `OnlyAdmitted`
(`OnlyAdmittedServed`) and `SentInOrder` (`NoOvertaking`). `SessionInv` ties the flag that producers and sender
read to the handshake: it is up only while the IPC thread is reading or ending an admitted session
(`FlagMeansAdmitted`), and a write that is under way keeps the thread from closing the session.
`OrderInv` carries "may be sent before" from the queue (`QueueOrdered`) through the frame the sender has popped
(`PoppedFirst`) to what was sent (`SentFirst`). The steps that change the queue rest
on `RemovedAt`, `HighestIs`, `LowestIs`: which frame a pop and an eviction take out, and what they leave. `LeastOf` (a set
of naturals has a least element) stands for the induction. Both invariants were checked by
TLC on the instance of `ipcserver` before they were proved.
For `ActionExchange`, for every set of calls, any assignment of ids, any backlog limit and number
of connections: `ExchangeTyped` (with the limit, one entry per id, and no pending entry without a call
under way), `OwnAnswer` (`AnswerIsOwn`), `BacklogIsLate` (`OnlyLateAnswersKept`). `ExchangeInv` adds that a call without
an answer is registered under its id, that requests and answers only exist for calls that were sent,
and that answers go to calls with the same id. The lemmas `PoppedTyped`, `KeptTyped`, `PrunedTyped` say
what the three backlog operations return.

`WaypointRouteProofs`, for every route, start policy and budget: `TypeCorrect` (the index stays in the
route, the counts in their budgets), `OutpostEnds` (`OutpostEndsRoute`, a limit of 0 included), `SkipsToTheParty`. `BackInRoute` and `RestartInRoute`
bound the index a recovery returns, and `SkipStep` compares the next index with the party's place.

`FroggyRunProofs`, for all requests and thresholds: `TypeCorrect`; `OneCredit`, from `CreditFollowsMark` (a
run that is not marked has no credit, so marking it gives the first); and `CompletedAfterBoss`, from
`RunInv`: the dungeon loop reports a completed run only with the boss's reward claimed
(`LoopTellsTruth`), while any other handler runs only the bridge can have stored awaiting_return
(`OthersDoNotWait`), and a stored or running awaiting_return of the bot's own follows a done run
(`WaitFollowsDone`).

`AgentLoopProofs`, for every set of maps, profiles and limits: `TypeCorrect`, `HandoffEarned`, `PlansForTheSeen`
(`PlanIsForWhatIsSeen`). The type invariant is taken by the parts that
actions leave alone together (`OutsideOK`, `ChatOK`, `CycleOK`, `PlanOK`, `CallOK`, `ExecutorOK` and others).
`ExecutorSpent` is what the hand-over needs: an unhealthy executor has used up its fallback and its
failures in a row. `CallInCycle` is what plans need: without an asynchronous planner a call ends
before its cycle goes on and plans for the snapshot the cycle holds; with one, only accept_plan writes
a plan after comparing the keys.

`TradeProofs`, whatever the server, the other thread and late transactions do.
`VerifiedIsGained` (`VerifiedMeansGained`): `Stocked` says that the bag holds at least what was wanted less what
remains to be bought, `CountedFrom` that an attempt counts from a stock that already held what the earlier
ones brought.
`UndisturbedPays` (`PaysItsPrice`): `Owned(Own(t))` says that everything in play, from the lanes over the wire to
the three globals, belongs to the item of thread `t`; `Undisturbed(t)` keeps this while `clean[t]` is set and adds
what the thread has read between two globals.
`OverbuyIsBounded` (`BoundedOverbuy`): `OverbuyInv` compares the purchases that may still be paid for (`Owed`) with
what the bot knows it has got (`Brought`); one purchase of an attempt may end it without having been
counted (`Slack`), and `Due` are those the attempt has not made. A smaller bound, a pack for each attempt but
none for the purchases of the bridge, is false: TLC refutes it on the run's instance,
because the bot takes any gold that goes for its own. `BoundedOverbuy` counts them. That an unobserved transaction
ends its call (`MerchantMgr.cpp:834`) matters only from the third attempt on: with `Attempts = 3`, `Sales = 0` and more gold TLC
finds the property violated once the call goes on, and satisfied as the code is; the two attempts of the run hold either way.
For `PlayerTrade`, for all wares, requests, seams of the hook and numbers of retries: `PlayerTradeTyped` and `ClicksAreOwn`
(`OwnClicks`). The game thread's stack has one of five shapes (`Shape`): nothing, one task, a
prompting request that goes on, or such a request below its own attempt or below the task that disables the hook.
A request empties the list of clicks before its attempt runs, and while it is on the stack only that attempt
opens a prompt; hence the clicks it finds when it goes on are its own. TLC checked both parts of the invariant on the run's instance.

`MaintenanceProofs`, for all limits, targets and inventories: `PurseCorrect`, `ReserveIsKept` (`ReserveKept`), `BagsTyped`,
`LeavesWithAll` (`LeavesEquipped`), `TargetIsKept` (`TargetKept`), `RoomIsKept` (`RoomKept`). Of each transfer of gold a
lemma says what it moves (`DepositKeeps` and the like); borrowing keeps to the bound because it starts
only at or below the floor and stops one character's load below it, however often the purse was spent in between (`SpentKeeps`). The kind
being crafted stays the one the step began with (`AtKind`). What is carried is a fold over
the sizes of stacks, and slots are folds over kinds. What such a fold returns is derived without an
induction theorem: `Sums` states the equation of all the sums over the subsets of a finite set, two solutions
agree and one exists because a smallest subset where they did not cannot be (`SmallestSubset`,
`SumsAgree`, `SumsExist`), and `SumChanged` says that a sum changes by what one member changes.
With it `ConsetsStep` shows that only the conversion of the chest's gold takes needed consets, and `KitsStep` that
a kit takes one slot. `LeavesWithAll` then reads the counts off the last decision (`Equipped`).

*Only model-checked*: liveness (`WaitingTaskRuns`, `QueuedFrameLeaves`, `ListensAgain`, `IpcThreadEnds`, `AcceptedRuns`,
`QueuedCommandRuns`, `AnsweredUnlessCut`, `RouteEnds`, `StopIsHeard`, `OperatorIsHeard`, `PlanCatchesUp`, `PurchaseEnds`, `HookGoesOff`, `RequestsEnd`,
`MaintenanceSettles`), because the prover has no ENABLED reasoning and a proof from fairness needs it. The type
invariants are proved and not run (TLC found them to hold before). No module declares a RECURSIVE
operator.

## 6. What the models say about the code

Properties that hold are in the table above. Disagreements and surprises met on the way, each visible in a
model as an action or as the exception a property makes:

- `EnqueuePost` called on the game thread runs the task at once, before the original callback has
  returned, although `GameThread.h:39` says it runs after it.
- A callback given to `RegisterCallback` never runs: `DetourCallback` does not read the registry.
- `Shutdown` of the dispatcher deletes `s_cs` under Enqueue calls past their test.
- It also ignores the result of its 2000 ms wait for the watchdog (`GameThread.cpp:341`). A watchdog delayed between
  `memcmp` and `memcpy` patches the jump back after the hook was removed.
- `IpcServer::Shutdown` notifies the sender without its mutex; the wakeup can be lost. A sender that
  finds its client gone after popping a frame disconnects whoever is connected by then.
- `SuspendEngineHook` trusts a 10 ms sleep to cover the watchdog's cycle.
- The supervisor's fixed request ids (`bridge/two_model_agent_loop.py`) let a late answer stand in for
  the next one.
- A wipe noticed by a labelled waypoint resumes one waypoint after the one the recovery announced
  (`DungeonRouteRunner.cpp:354-355`, then the loop's `++i` at 732-735; the log line is in
  `DungeonCheckpoint.cpp`). The other two recoveries do not skip it.
- A chat message that arrives while an asynchronous planner call is in flight is cleared without
  waking the planner (`two_model_agent_loop.py:412-414` and `:279`), although `bridge/README.md:52` says user
  chat still wakes it.
- Messages are also lost with a planner call that gives up: the synchronous mode clears them although no plan
  came back (`two_model_agent_loop.py:281-287`), the asynchronous one before the call has run (`:279`). And of
  more than five pending ones only the newest five reach the planner (`planner_loop.py:272`) before all are cleared.
- The state a handler returns is stored over a SetState made while it ran, so a takeover by the
  bridge can be lost; and set_bot_state awaiting_return counts a run that never saw its boss.
- `InitiateTrade` posts twice and enqueues a serial task "for an extra frame" (`TradeMgr.cpp:1983-1993`, the messages
  at 1987 and 1990); on the game thread all three run at once, in the frame that changed the target.
- `EnableTradeWindowCaptureForPlayerTrade` clears the flag of a queued switch-off and leaves the task in its lane
  (`TradeMgr.cpp:1850`, the message "capture re-armed" at 1863): it takes the hook of the new capture away.
- `OnChooseQuantityPopupUIMessage` takes mode and value of whichever request set them last (`TradeMgr.cpp:1528`): a prompt
  that a retry opens late is given the quantity of the other item, which the OK button then commits.
- A quote carries nothing of its request. One that came late or that the other thread asked for is
  bought as one's own; the comment at `ActionExecutorTrade.cpp:357-359` looks at the bridge's own
  calls only. `BuyConsetMaterialVerified` is what keeps the result right.
- `RestockConsetsOnce` deposits the character's own consets with those it crafted (`MaintenanceMgr.cpp:4203`),
  after the step that had restocked them; the decision at the end then stops the bot.
- `CraftCharacterConsetRestock` crafts from counts read before its withdrawal (3987-3989, 4029), so it
  can craft more than is missing.
- Town setup without need of maintenance leaves with a critically full bag when nothing can be
  sold or stored; `LeavesEquipped` states exactly this exception.

## 7. Not modelled

The wrappers, packet layouts and memory accessors (their state is the client's), the handlers of the
action executor, the contents of snapshots and messages, language-model decisions, HTTP routing,
logging, crash dumps, pattern scanning, and the scripts of the other bots (routes, coordinates,
dialogs: data for the machinery that is modelled). These make up most of the repository's lines. The
components still planned are listed in section 2; `PROJECT.json` gives the reason for each part left out.

In the modelled components these are left out: `IsResponsive`; the hook installation's memory
protection calls; the packet tap and the packet wrappers; failure of CreateNamedPipe (a retry that
changes nothing); the rate limit's clock; uuid collisions of generated request ids; exceptions between
registering a future and waiting for it. *Route and run*: combat and loot, the nearest-progress
backtrack, settings, the log. *Agent loop*: the older single-model loop, tools, prompts.
*Trading*: the second report of a quote by `TraderResponseDetour` (a repetition of the first, stored the
same way), prices that move between quote and transaction (a refusal stands for it), full rings that drop
a request, the resolution of a material to a trader's item, ordinary merchants.
*Player trades*: `ConfirmTradeQuantityPromptMax`
(reached only when the stack has gone meanwhile), `OfferItemPacket`, the trade patch (its caller is commented
out), failing MinHook calls, the branch behind `s_pendingOffer` (never armed), gold in an offer.
*Maintenance*: identification, salvage (disabled in the code), the sale of excess salvage kits and the
grades of salvage kit, item policies, the kinds of material, event items apart from other general
ones, deposits by `MoveItem` that silently fail, the prices of kits, materials and consets (a purchase may take any
part of the purse, nothing included), the 10,000 gold kept when no merchant opens, unclaimed
items and death-penalty sweets, and kits that arrive later than the second the code waits.
