----------------------------- MODULE PlayerTrade -----------------------------
(* Trading with another player: the bridge's trade actions                  *)
(* (ActionExecutorTrade.cpp) and TradeMgr.cpp, over the lanes of the        *)
(* game-thread dispatcher.                                                  *)
(* The actions are tasks of the game thread, so what TradeMgr enqueues from *)
(* inside one runs in place (`stack'), its waits hold up the very thread    *)
(* that would run a queued click, and its retries come back from detached   *)
(* threads (`timers') after other requests, or in another trade.            *)
EXTENDS Integers, Sequences, FiniteSets, SequencesExt

CONSTANTS
  Wares,          \* stackable items of the character
  FullStack,      \* the units it has of each
  Requests,       \* <<kind, item, quantity>>: what the bridge may ask for
  MaxRequests,    \* requests of one run
  MaxWindows,     \* trade windows that open in one run
  PromptRetries,  \* retries of a prompt that cannot open yet (5 in the code)
  ViewRetries,    \* retries behind an unopened incoming trade (3 in the code)
  Seams,          \* what the hook of the quantity popup may get hold of
  KeepsPrompt     \* the client may leave an open prompt when asked for another

NoWare == "no item"
Kinds == {"initiate", "offer", "value", "max", "default", "submit",
          "accept", "cancel", "change", "remove"}

ASSUME PlayerTradeAssumption ==
  /\ NoWare \notin Wares /\ FullStack \in Nat \ {0, 1}
  /\ Requests \subseteq Kinds \X (Wares \cup {NoWare}) \X (0..FullStack)
  /\ {MaxRequests, MaxWindows, PromptRetries, ViewRetries} \subseteq Nat
  /\ Seams \subseteq {"inventory slot", "passive", "none"}
  /\ KeepsPrompt \in BOOLEAN

VARIABLES
  phase,   \* where the game thread is: outside a frame, or in which part
  stack,   \* the task it runs, and what it has yet to do of the callers
  lanes,   \* the tasks that wait for it
  timers,  \* detached threads that sleep before they enqueue their task
  window, trade,  \* the trade window's state, and the number of the trade
  view,    \* an incoming trade waits for its View button
  invited, \* the partner has been asked to trade
  cart,    \* units of each item in the player's offer
  prompt,  \* the quantity prompt
  seam,    \* s_chooseQuantityPopupHookSeam, "none" when it cannot be hooked
  pending, \* s_pendingQuantityPromptMode, -ItemId, -Value and -Clicks
  hooked,  \* s_tradeCartHookEnabled
  capture, \* s_tradeCartCaptureRequested
  disable, \* s_tradeCartDisableQueued
  context, \* s_tradeWindowContext: the trade whose window it was, or 0
  asked    \* requests made so far

thread == <<phase, stack, lanes, timers>>
game == <<window, trade, view, invited, cart>>
cartHook == <<hooked, capture, disable, context>>
playerTradeVars == <<thread, game, prompt, seam, pending, cartHook, asked>>

NoPrompt == [req |-> 0, item |-> NoWare, count |-> 0, trade |-> 0,
             built |-> FALSE]
TradeTask(kind, i, q, n, r) ==
  [kind |-> kind, item |-> i, qty |-> q, left |-> n, req |-> r]
Plain(kind, r) == TradeTask(kind, NoWare, 0, 0, r)

PlayerTradeInit ==
  /\ phase = "outside" /\ stack = <<>> /\ timers = {}
  /\ lanes = [serial |-> <<>>, pre |-> <<>>, post |-> <<>>]
  /\ window = "none" /\ trade = 0 /\ view = FALSE /\ invited = FALSE
  /\ cart = [i \in Wares |-> 0] /\ prompt = NoPrompt /\ seam \in Seams
  /\ pending = [mode |-> "none", item |-> NoWare, value |-> 0, clicks |-> <<>>]
  /\ hooked = FALSE /\ capture = FALSE /\ disable = FALSE /\ context = 0
  /\ asked = 0

----------------------------------------------------------------------------
(* The game thread.                                                         *)

OnGameThread == phase # "outside"
Callers == IF stack = <<>> THEN <<>> ELSE Tail(stack)
Running(kind) == stack # <<>> /\ Head(stack).kind = kind
Now == Head(stack)

Return == stack' = Callers /\ UNCHANGED lanes

(* An Enqueue call of code that the game thread runs: inside a frame the    *)
(* task is run at once, and `rest' and the callers go on after it.          *)
Call(lane, task, rest) ==
  IF OnGameThread
    THEN stack' = <<task>> \o rest \o Callers /\ UNCHANGED lanes
    ELSE /\ lanes' = [lanes EXCEPT ![lane] = Append(@, task)]
         /\ stack' = rest \o Callers

(* The raw variants never run in place: ButtonClick's clicks wait.          *)
ReturnAfterClicks(clicks) ==
  /\ lanes' = [lanes EXCEPT !.pre = @ \o clicks]
  /\ stack' = Callers

Submit(lane, task) == lanes' = [lanes EXCEPT ![lane] = Append(@, task)]

TakeOne(lane) ==
  IF lanes[lane] = <<>> THEN UNCHANGED <<stack, lanes>>
  ELSE /\ stack' = <<Head(lanes[lane])>>
       /\ lanes' = [lanes EXCEPT ![lane] = Tail(@)]

(* A frame: one serial task, all pre tasks, the client, one post task.      *)
FrameBegins ==
  /\ phase = "outside" /\ stack = <<>>
  /\ phase' = "pre"
  /\ TakeOne("serial")
  /\ UNCHANGED <<timers, game, prompt, seam, pending, cartHook, asked>>

TakePre ==
  /\ phase = "pre" /\ stack = <<>> /\ lanes.pre # <<>>
  /\ TakeOne("pre")
  /\ UNCHANGED <<phase, timers, game, prompt, seam, pending, cartHook, asked>>

PreDrained ==
  /\ phase = "pre" /\ stack = <<>> /\ lanes.pre = <<>>
  /\ phase' = "client"
  /\ UNCHANGED <<stack, lanes, timers, game, prompt, seam, pending, cartHook,
                 asked>>

ClientReturns ==
  /\ phase = "client" /\ stack = <<>>
  /\ phase' = "post"
  /\ TakeOne("post")
  /\ UNCHANGED <<timers, game, prompt, seam, pending, cartHook, asked>>

FrameEnds ==
  /\ phase = "post" /\ stack = <<>>
  /\ phase' = "outside"
  /\ UNCHANGED <<stack, lanes, timers, game, prompt, seam, pending, cartHook,
                 asked>>

Frame ==
  FrameBegins \/ TakePre \/ PreDrained \/ ClientReturns \/ FrameEnds

----------------------------------------------------------------------------
(* The handlers, on the thread that executes the bridge's actions.          *)

Delayed == {"initiate"}
LaneOf(kind) == IF kind \in {"offer", "max", "attempt"} THEN "post" ELSE "pre"
Left(kind) == IF kind \in {"submit", "accept"} THEN ViewRetries ELSE 0
Units(kind, q) ==
  CASE kind = "max" -> FullStack [] kind = "default" -> 1 [] OTHER -> q

(* initiate_trade sleeps in a thread of its own before it enqueues.         *)
Handle(kind, i, q) ==
  /\ asked < MaxRequests /\ asked' = asked + 1
  /\ LET task == TradeTask(kind, i, Units(kind, q), Left(kind), asked') IN
       IF kind \in Delayed
         THEN timers' = timers \cup {task} /\ UNCHANGED lanes
         ELSE Submit(LaneOf(kind), task) /\ UNCHANGED timers
  /\ UNCHANGED <<phase, stack, game, prompt, seam, pending, cartHook>>

(* The sleep of a detached thread ends.                                     *)
TimerEnds(task) ==
  /\ timers' = timers \ {task}
  /\ Submit(LaneOf(task.kind), task)
  /\ UNCHANGED <<phase, stack, game, prompt, seam, pending, cartHook, asked>>

----------------------------------------------------------------------------
(* The hook of the client's cart update.                                    *)

QueueDisable(rest) ==
  IF disable
    THEN stack' = rest \o Callers /\ UNCHANGED <<disable, lanes>>
    ELSE disable' = TRUE /\ Call("post", Plain("disable", 0), rest)

DisableRuns ==
  /\ Running("disable")
  /\ disable' = FALSE /\ hooked' = FALSE
  /\ Return
  /\ UNCHANGED <<phase, timers, game, prompt, seam, pending, capture, context,
                 asked>>

\* Mutant: the capture is over, and the hook stays.
CapturedOnly == capture' = FALSE /\ UNCHANGED <<disable, stack, lanes>>

Captured == capture' = FALSE /\ QueueDisable(<<>>)

(* The client's own code updates the cart, inside a frame or out of it.     *)
ClientRuns == stack = <<>> /\ phase \in {"outside", "client"}

OnUpdateTradeCart ==
  /\ ClientRuns /\ hooked /\ window = "ready"
  /\ context' = trade
  /\ IF capture THEN Captured ELSE UNCHANGED <<capture, disable, stack, lanes>>
  /\ UNCHANGED <<phase, timers, game, prompt, seam, pending, hooked, asked>>

(* InitiateTrade: arm the capture, then two posts and a serial task.        *)
InitiateTrade ==
  /\ Running("initiate")
  /\ context' = 0 /\ capture' = TRUE /\ disable' = FALSE /\ hooked' = TRUE
  /\ Call("post", Plain("stage 2", Now.req), <<>>)
  /\ UNCHANGED <<phase, timers, game, prompt, seam, pending, asked>>

NextStage(from, lane, to) ==
  /\ Running(from)
  /\ Call(lane, Plain(to, Now.req), <<>>)
  /\ UNCHANGED <<phase, timers, game, prompt, seam, pending, cartHook, asked>>

(* The trade button is clicked, which waits for the pre lane, or the        *)
(* client gets a message if it shows none.                                  *)
InitiateTradeUiOnly ==
  /\ Running("ui")
  /\ \/ ReturnAfterClicks(<<Plain("click trade", Now.req)>>) /\ UNCHANGED invited
     \/ Return /\ invited' = TRUE
  /\ UNCHANGED <<phase, timers, window, trade, view, cart, prompt, seam,
                 pending, cartHook, asked>>

Invites ==
  /\ Running("click trade")
  /\ invited' = TRUE /\ Return
  /\ UNCHANGED <<phase, timers, window, trade, view, cart, prompt, seam,
                 pending, cartHook, asked>>

Initiating ==
  \/ InitiateTrade \/ InitiateTradeUiOnly \/ Invites
  \/ NextStage("stage 2", "post", "stage 3")
  \/ NextStage("stage 3", "serial", "ui")
----------------------------------------------------------------------------
(* The quantity prompt.                                                     *)

Prompts == {"value", "max", "default"}
Open == prompt # NoPrompt
Found == Open /\ prompt.built
Click(button, p) == TradeTask(button, p.item, 0, 0, p.req)

\* Mutant: the clicks of an earlier prompt stay.
ArmedKeepsClicks(kind, i, q) ==
  [pending EXCEPT !.mode = kind, !.item = i,
                  !.value = IF kind = "value" THEN q ELSE @]

Armed(kind, i, q) ==
  [pending EXCEPT !.mode = kind, !.item = i, !.clicks = <<>>,
                  !.value = IF kind = "value" THEN q ELSE @]

(* OfferItemPromptValue, -Max, -Default: the prompt is opened by a task of  *)
(* its own, which inside a frame runs before the call goes on.              *)
OfferItemPrompt(kind) ==
  /\ Running(kind)
  /\ IF seam = "none"
       THEN Return /\ UNCHANGED pending
       ELSE /\ pending' = Armed(kind, Now.item, Now.qty)
            /\ Call("post", [Now EXCEPT !.kind = "attempt", !.left = PromptRetries],
                    <<[Now EXCEPT !.kind = "await", !.left = IF kind = "max" THEN 0 ELSE 1]>>)
  /\ UNCHANGED <<phase, timers, game, prompt, seam, cartHook, asked>>

(* OnChooseQuantityPopupUIMessage, when the new prompt's frame is built:    *)
(* the mode and the value are whatever request set them last.               *)
Automate(p) ==
  IF seam = "inventory slot" /\ pending.mode # "none"
    THEN /\ prompt' = IF pending.mode = "value"
                        THEN [p EXCEPT !.count = pending.value] ELSE p
         /\ pending' =
              [pending EXCEPT !.mode = "none",
                 !.clicks = (IF pending.mode = "max"
                               THEN <<Click("click max", p)>> ELSE <<>>)
                            \o <<Click("click ok", p)>>]
    ELSE prompt' = p /\ UNCHANGED pending

(* The client opens a prompt, at once or later in its own time.  With one   *)
(* open already it shows the new one or leaves the old.                     *)
OpenPrompt(i, r) ==
  LET new(built) == [req |-> r, item |-> i, count |-> 1, trade |-> trade,
                     built |-> built]
  IN \/ Automate(new(TRUE))
     \/ prompt' = new(FALSE) /\ UNCHANGED pending
     \/ KeepsPrompt /\ Open /\ UNCHANGED <<prompt, pending>>

PromptBuilt ==
  /\ ClientRuns /\ Open /\ ~prompt.built
  /\ Automate([prompt EXCEPT !.built = TRUE])
  /\ UNCHANGED <<thread, game, seam, cartHook, asked>>

(* OfferItemPromptQuantityAttempt.  A captured window that is gone is read  *)
(* all the same, and the native call faults.                                *)
Stale == context # 0 /\ (context # trade \/ window = "none")

\* Mutant: the retry starts with all its attempts.
RetryOfPromptEndless == [Now EXCEPT !.left = PromptRetries]

RetryOfPrompt == [Now EXCEPT !.left = @ - 1]

AttemptRetries ==
  /\ Running("attempt") /\ window # "ready" /\ Now.left > 0
  /\ timers' = timers \cup {RetryOfPrompt}
  /\ Return
  /\ UNCHANGED <<phase, game, prompt, seam, pending, cartHook, asked>>

AttemptGivesUp ==
  /\ Running("attempt") /\ window # "ready" /\ Now.left = 0
  /\ QueueDisable(<<>>)
  /\ UNCHANGED <<phase, timers, game, prompt, seam, pending, hooked, capture,
                 context, asked>>

AttemptOpens ==
  /\ Running("attempt") /\ window = "ready"
  /\ OpenPrompt(Now.item, Now.req)
  /\ QueueDisable(<<>>)
  /\ UNCHANGED <<phase, timers, game, seam, hooked, capture, context, asked>>

AttemptFaults ==
  /\ Running("attempt") /\ Stale
  /\ QueueDisable(<<>>)
  /\ UNCHANGED <<phase, timers, game, prompt, seam, pending, hooked, capture,
                 context, asked>>

(* The client takes a confirmed quantity only in an open, unsubmitted trade.*)
Confirmed(q) ==
  /\ prompt' = NoPrompt
  /\ cart' = IF window = "ready" /\ prompt.trade = trade
               THEN [cart EXCEPT ![prompt.item] = q] ELSE cart

(* ConfirmTradeQuantityPromptValue: the quantity is written into whichever  *)
(* prompt is open, and Enter or a click closes it now, or a queued click    *)
(* later, or nothing does.                                                  *)
Confirm(q, clicks) ==
  \/ Confirmed(q) /\ ReturnAfterClicks(clicks)
  \/ /\ prompt' = [prompt EXCEPT !.count = q] /\ UNCHANGED cart
     /\ \/ ReturnAfterClicks(clicks)
        \/ ReturnAfterClicks(Append(clicks, Click("click ok", prompt)))

(* What a request does after its prompt was asked for, on the thread that   *)
(* would run its clicks.                                                    *)
AwaitPassive ==
  /\ Running("await") /\ seam = "passive"
  /\ pending' = [pending EXCEPT !.mode = "none", !.value = 0, !.clicks = <<>>]
  /\ IF Found THEN Confirm(Now.qty, <<>>)
              ELSE Return /\ UNCHANGED <<prompt, cart>>
  /\ UNCHANGED <<phase, timers, window, trade, view, invited, seam, cartHook,
                 asked>>

Clickable == Found /\ pending.clicks # <<>> /\ Head(pending.clicks).req = prompt.req

(* The clicks are queued; the prompt is the one-click kind, or the cart     *)
(* holds the quantity already, or a request other than Max goes on by hand. *)
AwaitClicks ==
  /\ Running("await") /\ seam = "inventory slot" /\ Clickable
  /\ \/ ReturnAfterClicks(pending.clicks) /\ UNCHANGED <<prompt, cart>>
     \/ /\ Now.left > 0 /\ cart[Now.item] < Now.qty
        /\ Confirm(Now.qty, pending.clicks)
  /\ UNCHANGED <<phase, timers, window, trade, view, invited, seam, pending,
                 cartHook, asked>>

AwaitManual ==
  /\ Running("await") /\ seam = "inventory slot" /\ ~Clickable
  /\ IF Found /\ Now.left > 0
       THEN Confirm(Now.qty, <<>>)
       ELSE Return /\ UNCHANGED <<prompt, cart>>
  /\ UNCHANGED <<phase, timers, window, trade, view, invited, seam, pending,
                 cartHook, asked>>

(* A queued click; on a prompt that is gone it does nothing.                *)
ClickRuns ==
  /\ Running("click ok") \/ Running("click max")
  /\ IF ~Open \/ prompt.req # Now.req THEN UNCHANGED <<prompt, cart>>
     ELSE IF Now.kind = "click ok" THEN Confirmed(prompt.count)
     ELSE prompt' = [prompt EXCEPT !.count = FullStack] /\ UNCHANGED cart
  /\ Return
  /\ UNCHANGED <<phase, timers, window, trade, view, invited, seam, pending,
                 cartHook, asked>>

Prompting ==
  \/ \E kind \in Prompts : OfferItemPrompt(kind)
  \/ AttemptRetries \/ AttemptGivesUp \/ AttemptOpens \/ AttemptFaults
  \/ AwaitPassive \/ AwaitClicks \/ AwaitManual \/ ClickRuns

----------------------------------------------------------------------------
(* The other actions on an open trade.                                      *)

OfferItem ==
  /\ Running("offer")
  /\ \/ /\ window = "ready"
        /\ cart' = [cart EXCEPT ![Now.item] = Now.qty]
     \/ Stale /\ UNCHANGED cart
     \/ window # "ready" /\ UNCHANGED cart
  /\ Return
  /\ UNCHANGED <<phase, timers, window, trade, view, invited, prompt, seam,
                 pending, cartHook, asked>>

(* SubmitOfferImpl and AcceptTradeImpl press the View button of an incoming *)
(* trade first, and come back in a while.                                   *)
PressView ==
  /\ Running("submit") \/ Running("accept")
  /\ view /\ Now.left > 0
  /\ view' \in BOOLEAN
  /\ timers' = timers \cup {[Now EXCEPT !.left = @ - 1]}
  /\ Return
  /\ UNCHANGED <<phase, window, trade, invited, cart, prompt, seam, pending,
                 cartHook, asked>>

(* The click may not be accepted: then the offer is submitted as it is.     *)
SubmitOffer ==
  /\ Running("submit")
  /\ window' = IF window = "ready" THEN "submitted" ELSE window
  /\ Return
  /\ UNCHANGED <<phase, timers, trade, view, invited, cart, prompt, seam,
                 pending, cartHook, asked>>

AcceptTrade ==
  /\ Running("accept")
  /\ Return
  /\ UNCHANGED <<phase, timers, game, prompt, seam, pending, cartHook, asked>>

(* The window's contents go with it; an open prompt may outlive it.         *)
WindowGone ==
  /\ window' = "none" /\ view' = FALSE /\ cart' = [i \in Wares |-> 0]
  /\ prompt' \in {prompt, NoPrompt}

(* The client is told to cancel, or a button of the window is to be         *)
(* clicked, or no button of it could be.                                    *)
CancelTrade ==
  /\ Running("cancel")
  /\ \/ Return /\ (WindowGone \/ UNCHANGED <<window, view, cart, prompt>>)
     \/ /\ window # "none" /\ UNCHANGED <<window, view, cart, prompt>>
        /\ ReturnAfterClicks(<<TradeTask("click cancel", NoWare, trade, 0, Now.req)>>)
  /\ UNCHANGED <<phase, timers, trade, invited, seam, pending, cartHook, asked>>

(* The button went with the window of its trade.                            *)
CancelClicked ==
  /\ Running("click cancel")
  /\ IF window # "none" /\ Now.qty = trade
       THEN WindowGone ELSE UNCHANGED <<window, view, cart, prompt>>
  /\ Return
  /\ UNCHANGED <<phase, timers, trade, invited, seam, pending, cartHook, asked>>

(* RemoveItem takes the offer back when the client has no call for it.      *)
OfferTakenBack ==
  window' = IF window = "submitted" THEN "ready" ELSE window

ChangeOffer ==
  /\ Running("change")
  /\ OfferTakenBack /\ Return
  /\ UNCHANGED <<phase, timers, trade, view, invited, cart, prompt, seam,
                 pending, cartHook, asked>>

RemoveItem ==
  /\ Running("remove")
  /\ \/ /\ cart' = IF window = "ready" THEN [cart EXCEPT ![Now.item] = 0] ELSE cart
        /\ UNCHANGED window
     \/ OfferTakenBack /\ UNCHANGED cart
  /\ Return
  /\ UNCHANGED <<phase, timers, trade, view, invited, prompt, seam, pending,
                 cartHook, asked>>

Trading ==
  \/ OfferItem \/ PressView \/ SubmitOffer \/ AcceptTrade \/ CancelTrade
  \/ CancelClicked \/ ChangeOffer \/ RemoveItem

----------------------------------------------------------------------------
(* The client and the partner.                                              *)

TradeOpens ==
  /\ ClientRuns /\ window = "none" /\ trade < MaxWindows
  /\ trade' = trade + 1 /\ window' = "init"
  /\ invited' = FALSE /\ view' = ~invited
  /\ UNCHANGED <<thread, cart, prompt, seam, pending, cartHook, asked>>

WindowSettles ==
  /\ ClientRuns /\ window = "init" /\ ~view
  /\ window' = "ready"
  /\ UNCHANGED <<thread, trade, view, invited, cart, prompt, seam, pending,
                 cartHook, asked>>

(* The player at the keyboard may press View as well.                       *)
Viewed ==
  /\ ClientRuns /\ view /\ view' = FALSE
  /\ UNCHANGED <<thread, window, trade, invited, cart, prompt, seam, pending,
                 cartHook, asked>>

TradeCloses ==
  /\ ClientRuns /\ window # "none"
  /\ WindowGone
  /\ UNCHANGED <<thread, trade, invited, seam, pending, cartHook, asked>>

Client ==
  \/ TradeOpens \/ WindowSettles \/ Viewed \/ TradeCloses
  \/ OnUpdateTradeCart \/ PromptBuilt

----------------------------------------------------------------------------
GameThread == Frame \/ DisableRuns \/ Initiating \/ Prompting \/ Trading

PlayerTradeNext ==
  \/ \E r \in Requests : Handle(r[1], r[2], r[3])
  \/ \E task \in timers : TimerEnds(task)
  \/ GameThread \/ Client

(* The client goes on rendering frames and sleeping threads wake up.        *)
Fairness ==
  /\ WF_playerTradeVars(GameThread)
  /\ WF_playerTradeVars(\E task \in timers : TimerEnds(task))

PlayerTradeSpec == PlayerTradeInit /\ [][PlayerTradeNext]_playerTradeVars /\ Fairness

----------------------------------------------------------------------------
(* A request clicks only in the prompt that it opened itself, for its item, *)
(* although clicks are left in the globals by prompts that a retry opened   *)
(* for an earlier request (TradeMgr.cpp OnChooseQuantityPopupUIMessage).    *)
OwnClicks ==
  Running("await") =>
    \A k \in DOMAIN pending.clicks :
      pending.clicks[k].req = Now.req /\ pending.clicks[k].item = Now.item

(* A hook that has captured its window goes off again, unless a new trade   *)
(* arms it first (TradeMgr.cpp CaptureTradeWindowContext).                  *)
HookGoesOff == (hooked /\ ~capture) ~> (~hooked \/ capture)

(* Every request is over in the end: no retry goes on for ever, whatever    *)
(* the partner does (TradeMgr.cpp OfferItemPromptQuantityAttempt,           *)
(* SubmitOfferImpl, AcceptTradeImpl).                                       *)
RequestsEnd ==
  <>[](timers = {} /\ \A l \in DOMAIN lanes : lanes[l] = <<>>)

=============================================================================
