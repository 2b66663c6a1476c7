----------------------------- MODULE TraderQuote -----------------------------
(* Buying from and selling to a material trader.                            *)
(* A trade is a quote request, a wait for the quote that the hooks of       *)
(* TraderHook.cpp leave in three globals, and a transaction made from what  *)
(* the globals then hold.  Nothing ties a quote to the request it answers,  *)
(* so a quote that comes late, or that another thread asked for, is read as *)
(* one's own.  Two threads trade: the bot's (MerchantMgr.cpp, called by     *)
(* MaintenanceMgr.cpp) and the one that executes the bridge's actions       *)
(* (ActionExecutorTrade.cpp).                                               *)
(* A request and the server's reply to it are one element of `wire': they   *)
(* are answered in order, at any later time.                                *)
EXTENDS Integers, Sequences, FiniteSets, SequencesExt

CONSTANTS
  Goods,       \* what the trader sells
  Scale,       \* the item the bot sells
  Wanted,      \* the material the bot buys
  Other,       \* the item the bridge asks for
  Scarce,      \* what it may be out of
  Price,       \* what the server asks or pays for each item
  Gold,        \* gold of the character at the start
  Pack,        \* units in one purchase (10 in the code)
  Want,        \* units the bot wants
  Attempts,    \* calls of BuyMaterials (3 in the code)
  Sales,       \* packs of scales to sell
  MaxTrades,   \* trader_buy actions of the bridge
  Wrap         \* quote number at which the count restarts (200 in the code)

NoItem == 0

ASSUME TradeAssumption ==
  /\ NoItem \notin Goods \cup {Scale} /\ Scale \notin Goods
  /\ Wanted \in Goods /\ Other \in Goods /\ Scarce \subseteq Goods
  /\ Price \in [Goods \cup {Scale} -> Nat \ {0}]
  /\ {Gold, Sales, MaxTrades} \subseteq Nat
  /\ {Want, Pack, Attempts} \subseteq Nat \ {0} /\ Wrap \in Nat \ {0, 1}

Threads == {"bot", "bridge"}

VARIABLES
  item, cost, quoteId,  \* s_costItemId, s_costValue, s_quoteId
  writing,   \* the report the game thread is storing, one global at a time
  lane,      \* tasks of each thread waiting for the game thread
  wire,      \* requests on their way to the server and back, oldest first
  gold, bag, \* the character's gold and its units of Wanted and Scale
  pc,        \* what each thread is about to do
  got,       \* <<item, cost>> a thread read from the globals
  before,    \* goldBefore of the bot's thread
  initialId, \* initialQuoteId of the sale
  left,      \* transactions left in the thread's current call
  attempt, remaining, had,  \* locals of BuyConsetMaterialVerified
  result,    \* what it returned
  clean,     \* history: no quote but the thread's own has been in play
  paid       \* history: packs of Wanted the bot's transactions paid for

hook == <<item, cost, quoteId, writing>>
world == <<lane, wire, gold, bag>>
buyer == <<attempt, remaining, had, result>>
vars == <<hook, world, buyer, pc, got, before, initialId, left, clean,
          paid>>

\* Mutant: the quantity is rounded the wrong way.
PacksAndOne(units) == units \div Pack + 1
Packs(units) == (units + Pack - 1) \div Pack
Idle == [todo |-> "nothing", item |-> NoItem, cost |-> 0]
Task(kind, i, c, t) == [kind |-> kind, item |-> i, cost |-> c, by |-> t]

(* The item a thread's current call is about.                               *)
Selling(t) == t = "bot" /\ result = "none"
Subject(t) == IF t = "bridge" THEN Other
              ELSE IF Selling(t) THEN Scale ELSE Wanted

Init ==
  /\ item = NoItem /\ cost = 0 /\ quoteId = 0 /\ writing = Idle
  /\ lane = [t \in Threads |-> <<>>] /\ wire = <<>>
  /\ gold = Gold
  /\ bag = [i \in {Wanted, Scale} |-> IF i = Scale THEN Sales * Pack ELSE 0]
  /\ pc = [t \in Threads |-> "next"]
  /\ got = [t \in Threads |-> <<NoItem, 0>>]
  /\ before = 0 /\ initialId = 0
  /\ left = [bot |-> Sales, bridge |-> MaxTrades]
  /\ attempt = 0 /\ remaining = 0 /\ had = 0 /\ result = "none"
  /\ clean = [t \in Threads |-> FALSE]
  /\ paid = 0

Goto(t, label) == pc' = [pc EXCEPT ![t] = label]
(* The locals and the history of a trade that is over.                      *)
Forget(t) ==
  /\ got' = [got EXCEPT ![t] = <<NoItem, 0>>]
  /\ clean' = [clean EXCEPT ![t] = FALSE]

Enqueue(t, task) == lane' = [lane EXCEPT ![t] = Append(@, task)]

----------------------------------------------------------------------------
(* One trade of a thread.                                                   *)

(* The head of the loops over packs and transactions, and the dispatch of   *)
(* one trader_buy action.                                                   *)
NextTrade(t) ==
  /\ pc[t] = "next" /\ left[t] > 0
  /\ left' = [left EXCEPT ![t] = @ - 1]
  /\ Goto(t, "reset quote")
  /\ UNCHANGED <<hook, world, buyer, got, before, initialId, clean, paid>>

(* TraderHook::Reset: three plain stores, of which nobody reads the first   *)
(* two together.                                                            *)
QuoteAlive ==
  \/ writing # Idle
  \/ \E q \in {wire} \cup {lane[t] : t \in Threads} :
       \E k \in DOMAIN q : q[k].kind \in {"ask buy", "ask sell"}

ResetQuote(t) ==
  /\ pc[t] = "reset quote"
  /\ quoteId' = 0 /\ item' = NoItem /\ Goto(t, "reset cost")
  /\ UNCHANGED <<cost, writing>>

\* Mutant: the price of the last quote stays.
ResetCostForgotten(t) ==
  /\ pc[t] = "reset cost"
  /\ Goto(t, IF Selling(t) THEN "initial" ELSE "ask")
  /\ UNCHANGED <<quoteId, item, cost, writing>>

ResetCost(t) ==
  /\ pc[t] = "reset cost"
  /\ cost' = 0 /\ Goto(t, IF Selling(t) THEN "initial" ELSE "ask")
  /\ UNCHANGED <<quoteId, item, writing>>

Reset(t) ==
  /\ ResetQuote(t) \/ ResetCost(t)
  /\ clean' = [clean EXCEPT ![t] = ~QuoteAlive]
  /\ UNCHANGED <<world, buyer, got, before, initialId, left, paid>>

ReadInitialId(t) ==
  /\ pc[t] = "initial"
  /\ initialId' = quoteId
  /\ Goto(t, "ask")
  /\ UNCHANGED <<hook, world, buyer, got, before, left, clean, paid>>

(* The quote request; from here on the request is in the other's way.       *)
Ask(t) ==
  /\ pc[t] = "ask"
  /\ Enqueue(t, Task(IF Selling(t) THEN "ask sell" ELSE "ask buy",
                     Subject(t), 0, t))
  /\ clean' = [u \in Threads |-> IF u = t THEN clean[u] ELSE FALSE]
  /\ Goto(t, "poll")
  /\ UNCHANGED <<hook, wire, gold, bag, buyer, got, before,
                 initialId, left, paid>>

ForgetId(t) == initialId' = IF t = "bot" THEN 0 ELSE initialId

QuoteSeen(t) == IF Selling(t) THEN quoteId # initialId ELSE cost > 0

PollSees(t) ==
  /\ pc[t] = "poll" /\ QuoteSeen(t)
  /\ Goto(t, "read cost") /\ ForgetId(t)
  /\ UNCHANGED <<hook, world, buyer, got, before, left, clean, paid>>

(* The bot breaks out of its loop; the bridge answers with an error.        *)
GiveUp(t) ==
  /\ left' = IF t = "bot" THEN [left EXCEPT !["bot"] = 0] ELSE left
  /\ Goto(t, "next")

\* Mutant: the wait for a quote has no end.
PollWaitsOn(t) ==
  /\ pc[t] = "poll" /\ t = "bridge"
  /\ Goto(t, "read cost")
  /\ UNCHANGED <<hook, world, buyer, got, before, initialId, left, clean, paid>>

(* Five seconds (two for the bridge).  A sale without a quote gives up; a   *)
(* purchase looks at the globals once more.                                 *)
PollTimesOut(t) ==
  /\ pc[t] = "poll"
  /\ ForgetId(t)
  /\ IF Selling(t)
       THEN GiveUp(t) /\ Forget(t)
       ELSE Goto(t, "read cost") /\ UNCHANGED <<left, got, clean>>
  /\ UNCHANGED <<hook, world, buyer, before, paid>>

ReadCost(t) ==
  /\ pc[t] = "read cost"
  /\ got' = [got EXCEPT ![t] = <<NoItem, cost>>]
  /\ Goto(t, "read item")
  /\ UNCHANGED <<hook, world, buyer, before, initialId, left, clean, paid>>

(* A purchase is made of the item the globals name, a sale of one's own.    *)
ReadItem(t) ==
  /\ pc[t] = "read item"
  /\ got' = [got EXCEPT ![t][1] = IF Selling(t) THEN Scale ELSE item]
  /\ Goto(t, "transact")
  /\ UNCHANGED <<hook, world, buyer, before, initialId, left, clean, paid>>

(* The bridge looks at the price only, and has nothing to wait for.         *)
Refused(t) == got[t][2] = 0 \/ (t = "bot" /\ got[t][1] = NoItem)

Transact(t) ==
  /\ pc[t] = "transact" /\ ~Refused(t)
  /\ before' = IF t = "bot" THEN gold ELSE before
  /\ Enqueue(t, Task(IF Selling(t) THEN "sell" ELSE "buy",
                     got[t][1], got[t][2], t))
  /\ Goto(t, IF t = "bot" THEN "watch" ELSE "next") /\ Forget(t)
  /\ UNCHANGED <<hook, wire, gold, bag, buyer, initialId, left, paid>>

TransactRefused(t) ==
  /\ pc[t] = "transact" /\ Refused(t)
  /\ GiveUp(t) /\ Forget(t)
  /\ UNCHANGED <<hook, world, buyer, before, initialId, paid>>

GoldMoved == IF Selling("bot") THEN gold > before ELSE gold < before

WatchSees ==
  /\ pc["bot"] = "watch" /\ GoldMoved
  /\ Goto("bot", "next") /\ before' = 0
  /\ UNCHANGED <<hook, world, buyer, got, initialId, left, clean, paid>>

(* The gold did not move within five seconds: no further transaction.       *)
WatchTimesOut ==
  /\ pc["bot"] = "watch" /\ ~GoldMoved
  /\ GiveUp("bot") /\ before' = 0
  /\ UNCHANGED <<hook, world, buyer, got, initialId, clean, paid>>

----------------------------------------------------------------------------
(* The bot's shopping: SellScalesToMaterialTrader, then                     *)
(* BuyConsetMaterialVerified for the wanted material.                       *)

StartBuying ==
  /\ pc["bot"] = "next" /\ left["bot"] = 0 /\ Selling("bot")
  /\ remaining' = Want /\ attempt' = 0
  /\ result' = "buying"
  /\ Goto("bot", "attempt")
  /\ UNCHANGED <<hook, world, had, got, before, initialId, left, clean, paid>>

(* The trader's window may not open: the purchase fails.                    *)
OpenTrader ==
  /\ pc["bot"] = "attempt" /\ result = "buying"
  /\ \/ /\ had' = bag[Wanted]
        /\ left' = [left EXCEPT !["bot"] = Packs(remaining)]
        /\ Goto("bot", "next") /\ UNCHANGED result
     \/ /\ result' = "false" /\ Goto("bot", "done") /\ UNCHANGED <<had, left>>
  /\ UNCHANGED <<hook, world, attempt, remaining, got, before, initialId, clean, paid>>

\* Mutant: the gold says whether the material came.
GainedByGold == IF gold < Gold THEN remaining ELSE 0

(* What the bag gained, whatever BuyMaterials said, is what counts.         *)
Gained == bag[Wanted] - had

CountGained ==
  /\ pc["bot"] = "next" /\ left["bot"] = 0 /\ result = "buying"
  /\ attempt' = attempt + 1
  /\ IF Gained >= remaining
       THEN result' = "true" /\ Goto("bot", "done") /\ UNCHANGED remaining
       ELSE /\ remaining' = remaining - Gained
            /\ result' = IF attempt' < Attempts THEN "buying" ELSE "false"
            /\ Goto("bot", IF attempt' < Attempts THEN "attempt" ELSE "done")
  /\ UNCHANGED <<hook, world, had, got, before, initialId, left, clean, paid>>

----------------------------------------------------------------------------
(* The game thread and the server.                                          *)

(* A task of a lane: the invokers leave without a call when there is no     *)
(* item, and, but for the bridge's, when there is no price.  A quote        *)
(* request passes RequestQuoteDetour, which notes the item asked for.       *)
RunTask(t) ==
  /\ writing = Idle /\ lane[t] # <<>>
  /\ lane' = [lane EXCEPT ![t] = Tail(@)]
  /\ LET task == Head(lane[t]) IN
       /\ wire' = IF task.item = NoItem THEN wire ELSE Append(wire, task)
       /\ item' = IF task.kind \in {"ask buy", "ask sell"} THEN task.item ELSE item
  /\ UNCHANGED <<cost, quoteId, writing, gold, bag, buyer, pc, got,
                 before, initialId, left, clean, paid>>

(* The quote comes, zero when the trader is out of stock.                   *)
QuoteArrives ==
  /\ writing = Idle /\ wire # <<>> /\ Head(wire).kind \in {"ask buy", "ask sell"}
  /\ LET q == Head(wire) IN
       \E p \in {Price[q.item]} \cup (IF q.item \in Scarce THEN {0} ELSE {}) :
            writing' = [todo |-> "item", item |-> q.item, cost |-> p]
  /\ wire' = Tail(wire)
  /\ UNCHANGED <<item, cost, quoteId, lane, gold, bag, buyer, pc,
                 got, before, initialId, left, clean, paid>>

(* OnVendorQuote: three interlocked stores, and a fourth when the count of  *)
(* quotes reaches its end.                                                  *)
StoreItem ==
  /\ writing.todo = "item"
  /\ item' = writing.item /\ UNCHANGED <<cost, quoteId>>
  /\ writing' = [writing EXCEPT !.todo = "cost"]

StoreCost ==
  /\ writing.todo = "cost"
  /\ cost' = writing.cost /\ UNCHANGED <<item, quoteId>>
  /\ writing' = [writing EXCEPT !.todo = "id"]

IncrementQuoteId ==
  /\ writing.todo = "id"
  /\ quoteId' = quoteId + 1 /\ UNCHANGED <<item, cost>>
  /\ writing' = IF quoteId' >= Wrap THEN [Idle EXCEPT !.todo = "wrap"] ELSE Idle

RestartQuoteId ==
  /\ writing.todo = "wrap"
  /\ quoteId' = 1 /\ UNCHANGED <<item, cost>>
  /\ writing' = Idle

StoreQuote ==
  /\ StoreItem \/ StoreCost \/ IncrementQuoteId \/ RestartQuoteId
  /\ UNCHANGED <<world, buyer, pc, got, before, initialId, left, clean, paid>>

(* The server takes a transaction at its own price only, and may refuse it  *)
(* (another player came first, the bag is full).                            *)
Accepts(tx) ==
  /\ tx.cost = Price[tx.item]
  /\ \/ tx.kind = "buy" /\ tx.item \in Goods /\ gold >= tx.cost
     \/ tx.kind = "sell" /\ tx.item = Scale /\ bag[Scale] >= Pack

TradeArrives ==
  /\ writing = Idle /\ wire # <<>> /\ Head(wire).kind \in {"buy", "sell"}
  /\ wire' = Tail(wire)
  /\ LET tx == Head(wire) IN
       \/ /\ Accepts(tx)
          /\ gold' = IF tx.kind = "buy" THEN gold - tx.cost ELSE gold + tx.cost
          /\ bag' = IF tx.item \notin DOMAIN bag THEN bag
                    ELSE [bag EXCEPT ![tx.item] =
                            IF tx.kind = "buy" THEN @ + Pack ELSE @ - Pack]
          /\ paid' = IF tx.by = "bot" /\ tx.item = Wanted THEN paid + 1 ELSE paid
       \/ UNCHANGED <<gold, bag, paid>>
  /\ UNCHANGED <<hook, lane, buyer, pc, got, before, initialId, left,
                 clean>>

----------------------------------------------------------------------------
TradeStep(t) ==
  \/ NextTrade(t) \/ Reset(t) \/ ReadInitialId(t) \/ Ask(t)
  \/ PollSees(t) \/ PollTimesOut(t) \/ ReadCost(t) \/ ReadItem(t)
  \/ Transact(t) \/ TransactRefused(t)

BotStep ==
  \/ TradeStep("bot") \/ WatchSees \/ WatchTimesOut
  \/ StartBuying \/ OpenTrader \/ CountGained

GameStep ==
  \/ \E t \in Threads : RunTask(t)
  \/ QuoteArrives \/ StoreQuote \/ TradeArrives

Next == BotStep \/ TradeStep("bridge") \/ GameStep

(* The bot's thread runs: its waits end by themselves.  Nothing is promised *)
(* of the server, nor of the bridge.                                        *)
Spec == Init /\ [][Next]_vars /\ WF_vars(BotStep)

----------------------------------------------------------------------------
(* A thread transacts on a quote that is not its own only when another      *)
(* quote was in play: with no quote left over from an earlier request and   *)
(* none asked for meanwhile, what it buys is what it asked for, at the      *)
(* price it was told (MerchantMgr.cpp BuyMaterials and                      *)
(* SellMaterialsToTrader, ActionExecutorTrade.cpp HandleTraderBuy).         *)
PaysItsPrice ==
  \A t \in Threads :
    pc[t] = "transact" /\ clean[t] /\ ~Refused(t)
      => /\ got[t][1] \in {Subject(t), NoItem}
         /\ got[t][2] = Price[Subject(t)]

(* BuyConsetMaterialVerified says the material is there only if the bag     *)
(* holds what was wanted, whatever the bridge's purchases and the late      *)
(* transactions made the gold do meanwhile.                                 *)
VerifiedMeansGained == result = "true" => bag[Wanted] >= Want

(* The bot's purchases pay for less than one pack per attempt on top of     *)
(* what was wanted, those that come after it has given up included: what a  *)
(* call paid for and the bag did not show is bought again.  Each trader_buy *)
(* of the bridge may add a pack, because the bot takes any gold that goes   *)
(* for its own and goes on with a transaction that nobody saw               *)
(* (MerchantMgr.cpp BuyMaterials, MaintenanceMgr.cpp                        *)
(* BuyConsetMaterialVerified).                                              *)
Begun == MaxTrades - left["bridge"]
BoundedOverbuy == paid * Pack < Want + Pack * (Attempts + Begun)

(* The purchase ends, answered or not.                                      *)
PurchaseEnds == <>(pc["bot"] = "done")
=============================================================================
