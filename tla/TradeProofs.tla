------------------------------ MODULE TradeProofs ------------------------------
(***************************************************************************)
(* Theorems about trades, for every set of items and requests: purchases    *)
(* from traders (TraderQuote.tla), whose quotes are shared by the bot and   *)
(* the bridge, and trades with other players (PlayerTrade.tla), whose       *)
(* prompts share the globals of TradeMgr.cpp.                               *)
(***************************************************************************)
EXTENDS TraderQuote, PlayerTrade, SequenceTheorems, FiniteSetTheorems, TLAPS

Labels == {"next", "reset quote", "reset cost", "initial", "ask", "poll", "read cost",
           "read item", "transact", "watch", "attempt", "done"}
Asks == {"ask buy", "ask sell"}
Items == Goods \cup {Scale}
TasksOf(items) ==
    [kind : Asks \cup {"buy", "sell"}, item : items, cost : Nat, by : Threads]

\* Only what names an item is passed on to the server.
HookOK ==
    /\ item \in Items \cup {NoItem} /\ cost \in Nat
    /\ writing \in [todo : {"nothing", "item", "cost", "id", "wrap"},
                     item : Items \cup {NoItem}, cost : Nat]
LanesOK ==
    /\ lane \in [Threads -> Seq(TasksOf(Items \cup {NoItem}))]
    /\ wire \in Seq(TasksOf(Items))
GoldOK == gold \in Int /\ bag \in [{Wanted, Scale} -> Int] /\ paid \in Nat
PcOK ==
    /\ pc \in [Threads -> Labels]
    /\ pc["bridge"] \notin {"watch", "attempt", "done"}
LocalsOK ==
    /\ got \in [Threads -> (Items \cup {NoItem}) \X Nat] /\ before \in Int
    /\ left \in [Threads -> Nat] /\ left["bridge"] <= MaxTrades
BuyerOK ==
    /\ attempt \in Nat /\ had \in Int /\ remaining \in Int
    /\ result \in {"none", "buying", "true", "false"}
    /\ result = "buying" => remaining > 0 /\ attempt < Attempts
TypeOK == HookOK /\ LanesOK /\ GoldOK /\ PcOK /\ LocalsOK /\ BuyerOK

\* What the assumption says of the numbers and the goods.
LEMMA Facts ==
    /\ Want \in Nat /\ Pack \in Nat /\ Sales \in Nat /\ MaxTrades \in Nat
    /\ Attempts \in Nat /\ Gold \in Nat
    /\ Want > 0 /\ Pack > 0 /\ Attempts > 0
    /\ Wanted # Scale /\ Scale \notin Goods /\ Wanted \in Goods /\ Other \in Goods
    /\ NoItem \notin Items /\ Price \in [Items -> Nat]
    /\ \A i \in Items : Price[i] # 0
BY TradeAssumption DEF Items

-----------------------------------------------------------------------------
(* The types.                                                               *)

\* Both threads begin with nothing asked and nothing under way.
LEMMA InitTyped == Init => TypeOK
<1> SUFFICES ASSUME Init PROVE TypeOK OBVIOUS
<1>1. lane \in [Threads -> Seq(TasksOf(Items \cup {NoItem}))] /\ wire \in Seq(TasksOf(Items))
    BY DEF Init
<1>2. writing \in [todo : {"nothing", "item", "cost", "id", "wrap"},
                   item : Items \cup {NoItem}, cost : Nat]
    BY DEF Init, Idle
<1>3. bag \in [{Wanted, Scale} -> Int] /\ left \in [Threads -> Nat] /\ left["bridge"] <= MaxTrades
    BY Facts DEF Init, Threads
<1>4. pc \in [Threads -> Labels] /\ pc["bridge"] = "next"
      /\ got \in [Threads -> (Items \cup {NoItem}) \X Nat]
    BY DEF Init, Labels, Threads
<1> QED BY <1>1, <1>2, <1>3, <1>4, Facts DEF Init, NoItem, TypeOK, HookOK, LanesOK, GoldOK, PcOK, LocalsOK, BuyerOK

\* A thread trades in one of the goods.
LEMMA SubjectTyped == ASSUME NEW t \in Threads PROVE Subject(t) \in Items
BY Facts DEF Subject, Selling, Items

\* A purchase is of a whole number of packs.
LEMMA PacksTyped == ASSUME NEW n \in Int, n > 0 PROVE Packs(n) \in Nat
BY Facts DEF Packs

\* A thread's lane takes one more task.
LEMMA EnqueueTyped ==
    ASSUME TypeOK, NEW t \in Threads, NEW task \in TasksOf(Items \cup {NoItem}),
           Enqueue(t, task)
    PROVE  lane' \in [Threads -> Seq(TasksOf(Items \cup {NoItem}))]
<1>1. Append(lane[t], task) \in Seq(TasksOf(Items \cup {NoItem}))
    BY AppendProperties DEF TypeOK, LanesOK
<1> QED BY <1>1 DEF Enqueue, TypeOK, LanesOK

\* Only the bot's thread comes to the labels of its own loop.
LEMMA GotoTyped ==
    ASSUME PcOK, NEW t \in Threads, NEW label \in Labels, Goto(t, label),
           t = "bridge" => label \notin {"watch", "attempt", "done"}
    PROVE  PcOK' /\ pc'[t] = label /\ \A u \in Threads \ {t} : pc'[u] = pc[u]
BY DEF Goto, PcOK, Threads

\* What a thread has read of a quote is forgotten with the right type.
LEMMA ForgetTyped ==
    ASSUME LocalsOK, NEW t \in Threads, Forget(t)
    PROVE  got' \in [Threads -> (Items \cup {NoItem}) \X Nat]
BY DEF Forget, LocalsOK

\* A call is never given more transactions by a step of a trade.
LEMMA LeftTyped ==
    ASSUME LocalsOK, NEW t \in Threads, left'[t] \in Nat, left'[t] <= left[t],
           left' = [left EXCEPT ![t] = left'[t]]
    PROVE  left' \in [Threads -> Nat] /\ left'["bridge"] <= MaxTrades
<1>1. left' \in [Threads -> Nat]
    BY DEF LocalsOK
<1>2. "bridge" \in Threads /\ left["bridge"] \in Nat
    BY DEF LocalsOK, Threads
<1>3. left'["bridge"] = left["bridge"] \/ t = "bridge"
    BY <1>2 DEF LocalsOK
<1>4. left'["bridge"] <= left["bridge"]
    BY <1>2, <1>3
<1> QED BY <1>1, <1>2, <1>4, Facts DEF LocalsOK

\* A thread's step of a trade keeps the types.
LEMMA TradeStepTyped ==
    ASSUME TypeOK, NEW t \in Threads, TradeStep(t)
    PROVE  TypeOK'
<1> USE DEF TypeOK
<1>1. CASE NextTrade(t)
  <2>1. PcOK'
      BY <1>1, GotoTyped DEF NextTrade, Labels
  <2>2. left' \in [Threads -> Nat] /\ left'["bridge"] <= MaxTrades
    <3>1. LocalsOK /\ left[t] \in Nat
        BY DEF LocalsOK
    <3>2. left' = [left EXCEPT ![t] = left[t] - 1] /\ left[t] > 0
        BY <1>1 DEF NextTrade
    <3>3. left'[t] = left[t] - 1
        BY <3>1, <3>2 DEF LocalsOK
    <3>4. left'[t] \in Nat /\ left'[t] <= left[t]
        BY <3>1, <3>2, <3>3
    <3> QED BY <3>1, <3>2, <3>3, <3>4, LeftTyped
  <2>3. LocalsOK'
      BY <1>1, <2>2 DEF NextTrade, LocalsOK
  <2> QED BY <1>1, <2>1, <2>3
          DEF NextTrade, hook, world, buyer, HookOK, LanesOK, GoldOK, BuyerOK
<1>2. CASE Reset(t)
  <2>1. PICK label \in {"reset cost", "initial", "ask"} : Goto(t, label)
      BY <1>2 DEF Reset, ResetQuote, ResetCost
  <2>2. PcOK'
      BY <2>1, GotoTyped DEF Labels
  <2>3. HookOK'
    <3>1. CASE ResetQuote(t)
        BY <3>1 DEF ResetQuote, HookOK
    <3>2. CASE ResetCost(t)
        BY <3>2 DEF ResetCost, HookOK
    <3> QED BY <1>2, <3>1, <3>2 DEF Reset
  <2> QED BY <1>2, <2>2, <2>3 DEF Reset, LanesOK, GoldOK, LocalsOK, BuyerOK, world, buyer
<1>3. CASE ReadInitialId(t)
  <2>1. PcOK'
      BY <1>3, GotoTyped DEF ReadInitialId, Labels
  <2> QED BY <1>3, <2>1
          DEF ReadInitialId, HookOK, LanesOK, GoldOK, LocalsOK, BuyerOK, hook, world, buyer
<1>4. CASE Ask(t)
  <2> DEFINE task == Task(IF Selling(t) THEN "ask sell" ELSE "ask buy", Subject(t), 0, t)
  <2>1. task \in TasksOf(Items \cup {NoItem})
      BY SubjectTyped DEF Task, TasksOf, Asks
  <2>2. Enqueue(t, task)
      BY <1>4 DEF Ask
  <2> HIDE DEF task
  <2>3. lane' \in [Threads -> Seq(TasksOf(Items \cup {NoItem}))]
      BY <2>1, <2>2, EnqueueTyped
  <2>4. PcOK'
      BY <1>4, GotoTyped DEF Ask, Labels
  <2> QED BY <1>4, <2>3, <2>4
          DEF Ask, HookOK, LanesOK, GoldOK, LocalsOK, BuyerOK, hook, buyer
<1>5. CASE PollSees(t)
  <2>1. PcOK'
      BY <1>5, GotoTyped DEF PollSees, Labels
  <2> QED BY <1>5, <2>1
          DEF PollSees, HookOK, LanesOK, GoldOK, LocalsOK, BuyerOK, hook, world, buyer
<1>6. CASE PollTimesOut(t)
  <2>1. PICK label \in {"next", "read cost"} : Goto(t, label)
      BY <1>6 DEF PollTimesOut, GiveUp
  <2>2. PcOK'
      BY <2>1, GotoTyped DEF Labels
  <2>3. got' \in [Threads -> (Items \cup {NoItem}) \X Nat]
      BY <1>6, ForgetTyped DEF PollTimesOut, LocalsOK
  <2>4. left' = left \/ left' = [left EXCEPT !["bot"] = 0]
      BY <1>6 DEF PollTimesOut, GiveUp
  <2>5. left' \in [Threads -> Nat] /\ left'["bridge"] <= MaxTrades
    <3>1. "bot" \in Threads /\ left["bot"] \in Nat
        BY DEF LocalsOK, Threads
    <3>2. CASE left' = left
        BY <3>2 DEF LocalsOK
    <3>3. CASE left' = [left EXCEPT !["bot"] = 0]
      <4>1. left' \in [Threads -> Nat]
          BY <3>3 DEF LocalsOK
      <4>2. left'["bridge"] = left["bridge"]
          BY <3>3 DEF LocalsOK, Threads
      <4> QED BY <4>1, <4>2 DEF LocalsOK
    <3> QED BY <2>4, <3>2, <3>3
  <2>6. LocalsOK'
    <3>1. before' = before
        BY <1>6 DEF PollTimesOut
    <3> QED BY <2>3, <2>5, <3>1 DEF LocalsOK
  <2> QED BY <1>6, <2>2, <2>6
          DEF PollTimesOut, HookOK, LanesOK, GoldOK, BuyerOK, hook, world, buyer
<1>7. CASE ReadCost(t)
  <2>1. PcOK'
      BY <1>7, GotoTyped DEF ReadCost, Labels
  <2>2. LocalsOK'
      BY <1>7 DEF ReadCost, LocalsOK, HookOK
  <2> QED BY <1>7, <2>1, <2>2
          DEF ReadCost, HookOK, LanesOK, GoldOK, BuyerOK, hook, world, buyer
<1>8. CASE ReadItem(t)
  <2>1. got[t] \in (Items \cup {NoItem}) \X Nat
      BY DEF LocalsOK
  <2>2. got' = [got EXCEPT ![t] = <<IF Selling(t) THEN Scale ELSE item, got[t][2]>>]
    <3> DEFINE x == IF Selling(t) THEN Scale ELSE item
    <3>1. got' = [got EXCEPT ![t] = [got[t] EXCEPT ![1] = x]]
        BY <1>8 DEF ReadItem, LocalsOK
    <3> HIDE DEF x
    <3>2. [got[t] EXCEPT ![1] = x] = <<x, got[t][2]>>
        BY <2>1
    <3> QED BY <3>1, <3>2 DEF x
  <2>3. (IF Selling(t) THEN Scale ELSE item) \in Items \cup {NoItem}
      BY DEF Items, HookOK
  <2>4. got' \in [Threads -> (Items \cup {NoItem}) \X Nat]
      BY <2>1, <2>2, <2>3 DEF LocalsOK
  <2>5. PcOK'
      BY <1>8, GotoTyped DEF ReadItem, Labels
  <2> QED BY <1>8, <2>4, <2>5
          DEF ReadItem, HookOK, LanesOK, GoldOK, LocalsOK, BuyerOK, hook, world, buyer
<1>9. CASE Transact(t)
  <2> DEFINE task == Task(IF Selling(t) THEN "sell" ELSE "buy", got[t][1], got[t][2], t)
  <2>1. got[t] \in (Items \cup {NoItem}) \X Nat
      BY DEF LocalsOK
  <2>2. task \in TasksOf(Items \cup {NoItem})
      BY <2>1 DEF Task, TasksOf
  <2>3. Enqueue(t, task)
      BY <1>9 DEF Transact
  <2> HIDE DEF task
  <2>4. lane' \in [Threads -> Seq(TasksOf(Items \cup {NoItem}))]
      BY <2>2, <2>3, EnqueueTyped
  <2>5. got' \in [Threads -> (Items \cup {NoItem}) \X Nat]
      BY <1>9, ForgetTyped DEF Transact
  <2>6. LocalsOK'
      BY <1>9, <2>5 DEF Transact, LocalsOK, GoldOK
  <2>7. PICK label \in {"watch", "next"} : Goto(t, label) /\ (t = "bridge" => label = "next")
      BY <1>9 DEF Transact, Threads
  <2>8. PcOK'
      BY <2>7, GotoTyped DEF Labels
  <2> QED BY <1>9, <2>4, <2>6, <2>8
          DEF Transact, HookOK, LanesOK, GoldOK, BuyerOK, hook, buyer
<1>10. CASE TransactRefused(t)
  <2>1. PcOK'
      BY <1>10, GotoTyped DEF TransactRefused, GiveUp, Labels
  <2>2. got' \in [Threads -> (Items \cup {NoItem}) \X Nat]
      BY <1>10, ForgetTyped DEF TransactRefused
  <2>3. LocalsOK'
      BY <1>10, <2>2 DEF TransactRefused, GiveUp, LocalsOK, Threads
  <2> QED BY <1>10, <2>1, <2>3
          DEF TransactRefused, HookOK, LanesOK, GoldOK, BuyerOK, hook, world, buyer
<1> QED
    BY <1>1, <1>2, <1>3, <1>4, <1>5, <1>6, <1>7, <1>8, <1>9, <1>10 DEF TradeStep

\* So does every other step.
LEMMA TypeKept ==
    ASSUME TypeOK, [Next]_vars
    PROVE  TypeOK'
<1> USE Facts DEF TypeOK
<1>1. CASE \E t \in Threads : TradeStep(t)
    BY <1>1, TradeStepTyped
<1>2. CASE WatchSees \/ WatchTimesOut
  <2>1. Goto("bot", "next")
      BY <1>2 DEF WatchSees, WatchTimesOut, GiveUp
  <2>2. PcOK'
      BY <2>1, GotoTyped DEF Labels, Threads
  <2>3. LocalsOK'
      BY <1>2 DEF WatchSees, WatchTimesOut, GiveUp, LocalsOK, Threads
  <2> QED BY <1>2, <2>2, <2>3
          DEF WatchSees, WatchTimesOut, HookOK, LanesOK, GoldOK, BuyerOK, hook, world, buyer
<1>3. CASE StartBuying
  <2>1. PcOK'
      BY <1>3, GotoTyped DEF StartBuying, Labels, Threads
  <2>2. BuyerOK'
      BY <1>3 DEF StartBuying, BuyerOK
  <2> QED BY <1>3, <2>1, <2>2
          DEF StartBuying, HookOK, LanesOK, GoldOK, LocalsOK, hook, world
<1>4. CASE OpenTrader
  <2>1. PICK label \in {"next", "done"} : Goto("bot", label)
      BY <1>4 DEF OpenTrader
  <2>2. PcOK'
      BY <2>1, GotoTyped DEF Labels, Threads
  <2>3. Packs(remaining) \in Nat
      BY <1>4, PacksTyped DEF OpenTrader, BuyerOK
  <2>4. LocalsOK'
      BY <1>4, <2>3 DEF OpenTrader, LocalsOK, Threads
  <2>5. BuyerOK'
      BY <1>4 DEF OpenTrader, GoldOK, BuyerOK
  <2> QED BY <1>4, <2>2, <2>4, <2>5
          DEF OpenTrader, HookOK, LanesOK, GoldOK, hook, world
<1>5. CASE CountGained
  <2>1. PICK label \in {"next", "attempt", "done"} : Goto("bot", label)
      BY <1>5 DEF CountGained
  <2>2. PcOK'
      BY <2>1, GotoTyped DEF Labels, Threads
  <2>3. BuyerOK'
    <3>1. Gained \in Int /\ remaining \in Int /\ attempt' \in Nat /\ had' = had
        BY <1>5 DEF CountGained, Gained, GoldOK, BuyerOK
    <3>2. CASE Gained >= remaining
        BY <1>5, <3>1, <3>2 DEF CountGained, BuyerOK
    <3>3. CASE ~(Gained >= remaining)
      <4>1. remaining' = remaining - Gained /\ remaining' > 0 /\ remaining' \in Int
          BY <1>5, <3>1, <3>3 DEF CountGained
      <4> QED BY <1>5, <3>1, <3>3, <4>1 DEF CountGained, BuyerOK
    <3> QED BY <3>2, <3>3
  <2> QED BY <1>5, <2>2, <2>3
          DEF CountGained, HookOK, LanesOK, GoldOK, LocalsOK, hook, world
<1>6. CASE \E t \in Threads : RunTask(t)
  <2>1. PICK t \in Threads : RunTask(t)
      BY <1>6
  <2> DEFINE task == Head(lane[t])
  <2>2. lane[t] \in Seq(TasksOf(Items \cup {NoItem})) /\ lane[t] # <<>>
      BY <2>1 DEF RunTask, LanesOK
  <2>3. task \in TasksOf(Items \cup {NoItem})
        /\ Tail(lane[t]) \in Seq(TasksOf(Items \cup {NoItem}))
      BY <2>2, HeadTailProperties
  <2>4. lane' \in [Threads -> Seq(TasksOf(Items \cup {NoItem}))]
      BY <2>1, <2>3 DEF RunTask, LanesOK
  <2>5. wire' = (IF task.item = NoItem THEN wire ELSE Append(wire, task))
        /\ item' = (IF task.kind \in {"ask buy", "ask sell"} THEN task.item ELSE item)
      BY <2>1 DEF RunTask
  <2> HIDE DEF task
  <2>6. HookOK'
      BY <2>1, <2>3, <2>5 DEF RunTask, TasksOf, HookOK
  <2>7. wire' \in Seq(TasksOf(Items))
    <3>1. CASE task.item = NoItem
        BY <2>5, <3>1 DEF LanesOK
    <3>2. CASE task.item # NoItem
      <4>1. task \in TasksOf(Items)
          BY <2>3, <3>2 DEF TasksOf
      <4> QED BY <2>5, <3>2, <4>1, AppendProperties DEF LanesOK
    <3> QED BY <3>1, <3>2
  <2> QED BY <2>1, <2>4, <2>6, <2>7
          DEF RunTask, LanesOK, GoldOK, PcOK, LocalsOK, BuyerOK, buyer
<1>7. CASE QuoteArrives
  <2>1. Head(wire) \in TasksOf(Items) /\ wire' \in Seq(TasksOf(Items))
      BY <1>7, HeadTailProperties DEF QuoteArrives, LanesOK
  <2>2. PICK p \in {Price[Head(wire).item]} \cup
                      (IF Head(wire).item \in Scarce THEN {0} ELSE {}) :
              writing' = [todo |-> "item", item |-> Head(wire).item, cost |-> p]
      BY <1>7 DEF QuoteArrives
  <2>3. p \in Nat /\ Head(wire).item \in Items
      BY <2>1 DEF TasksOf
  <2>4. HookOK'
      BY <1>7, <2>2, <2>3 DEF QuoteArrives, HookOK
  <2> QED BY <1>7, <2>1, <2>4
          DEF QuoteArrives, LanesOK, GoldOK, PcOK, LocalsOK, BuyerOK, buyer
<1>8. CASE StoreQuote
  <2>1. HookOK'
    <3>1. CASE StoreItem
        BY <3>1 DEF StoreItem, HookOK
    <3>2. CASE StoreCost
        BY <3>2 DEF StoreCost, HookOK
    <3>3. CASE IncrementQuoteId
        BY <3>3 DEF IncrementQuoteId, Idle, HookOK
    <3>4. CASE RestartQuoteId
        BY <3>4 DEF RestartQuoteId, Idle, HookOK
    <3> QED BY <1>8, <3>1, <3>2, <3>3, <3>4 DEF StoreQuote
  <2> QED BY <1>8, <2>1
          DEF StoreQuote, LanesOK, GoldOK, PcOK, LocalsOK, BuyerOK, world, buyer
<1>9. CASE TradeArrives
  <2> DEFINE tx == Head(wire)
  <2>1. tx \in TasksOf(Items) /\ wire' \in Seq(TasksOf(Items))
      BY <1>9, HeadTailProperties DEF TradeArrives, LanesOK
  <2>2. tx.cost \in Nat
      BY <2>1 DEF TasksOf
  <2>3. GoldOK'
    <3>1. CASE UNCHANGED <<gold, bag, paid>>
        BY <3>1 DEF GoldOK
    <3>2. CASE ~UNCHANGED <<gold, bag, paid>>
      <4>1. /\ gold' = (IF tx.kind = "buy" THEN gold - tx.cost ELSE gold + tx.cost)
            /\ bag' = (IF tx.item \notin DOMAIN bag THEN bag
                       ELSE [bag EXCEPT ![tx.item] =
                               IF tx.kind = "buy" THEN @ + Pack ELSE @ - Pack])
            /\ paid' = (IF tx.by = "bot" /\ tx.item = Wanted THEN paid + 1 ELSE paid)
          BY <1>9, <3>2 DEF TradeArrives
      <4> HIDE DEF tx
      <4>2. gold' \in Int /\ paid' \in Nat
          BY <2>2, <4>1 DEF GoldOK
      <4>3. bag' \in [{Wanted, Scale} -> Int]
          BY <4>1 DEF GoldOK
      <4> QED BY <4>2, <4>3 DEF GoldOK
    <3> QED BY <3>1, <3>2
  <2> QED BY <1>9, <2>1, <2>3
          DEF TradeArrives, HookOK, LanesOK, PcOK, LocalsOK, BuyerOK, hook, buyer
<1>10. CASE UNCHANGED vars
    BY <1>10 DEF vars, hook, world, buyer, HookOK, LanesOK, GoldOK, PcOK, LocalsOK, BuyerOK
<1> QED
    BY <1>1, <1>2, <1>3, <1>4, <1>5, <1>6, <1>7, <1>8, <1>9, <1>10
    DEF Next, BotStep, GameStep, Threads

-----------------------------------------------------------------------------
(* Verified purchases.                                                      *)

\* What the bag has gained since the purchase began.
Stocked ==
    /\ bag[Wanted] >= 0
    /\ result = "buying" => bag[Wanted] >= Want - remaining
    /\ result = "true" => bag[Wanted] >= Want

\* An attempt counts from a stock that already held what the earlier ones
\* brought.
CountedFrom ==
    result = "buying" /\ pc["bot"] # "attempt" => had >= Want - remaining

StockInv == Stocked /\ CountedFrom

\* The wanted material only comes: nothing but scales is ever sold.
LEMMA MaterialOnlyComes ==
    ASSUME TypeOK, TradeArrives
    PROVE  bag'[Wanted] >= bag[Wanted]
<1>1. CASE UNCHANGED bag
    BY <1>1 DEF TypeOK, GoldOK
<1>2. CASE ~UNCHANGED bag
  <2> DEFINE tx == Head(wire)
  <2>1. /\ Accepts(tx) /\ tx.item \in {Wanted, Scale}
        /\ bag' = [bag EXCEPT ![tx.item] =
                      IF tx.kind = "buy" THEN @ + Pack ELSE @ - Pack]
      BY <1>2 DEF TradeArrives, TypeOK, GoldOK
  <2>2. tx.kind = "buy" \/ tx.item = Scale
      BY <2>1 DEF Accepts
  <2> HIDE DEF tx
  <2> QED BY <2>1, <2>2, Facts DEF TypeOK, GoldOK
<1> QED BY <1>1, <1>2

\* A step that leaves the purchase alone, and the bot where an attempt is or
\* is not open.
LEMMA StockElsewhere ==
    ASSUME TypeOK, TypeOK', StockInv, UNCHANGED <<had, remaining, result>>,
           bag'[Wanted] >= bag[Wanted],
           pc["bot"] = "attempt" => pc'["bot"] = "attempt" \/ result # "buying"
    PROVE  StockInv'
<1>1. /\ bag[Wanted] \in Int /\ bag'[Wanted] \in Int /\ remaining \in Int /\ had \in Int
      /\ Want \in Int
    BY Facts DEF TypeOK, GoldOK, BuyerOK
<1>2. Stocked'
  <2>1. PICK b \in Int, c \in Int, n \in Int :
          b = bag[Wanted] /\ c = bag'[Wanted] /\ n = Want - remaining
      BY <1>1
  <2>2. b <= c /\ b >= 0
      BY <2>1 DEF StockInv, Stocked
  <2>3. result = "buying" => c >= n
      BY <2>1, <2>2 DEF StockInv, Stocked
  <2>4. result = "true" => c >= Want
      BY <1>1, <2>1, <2>2 DEF StockInv, Stocked
  <2> QED BY <2>1, <2>2, <2>3, <2>4 DEF Stocked
<1> QED BY <1>2 DEF StockInv, CountedFrom

\* Every step keeps what the bot knows of its stock.
LEMMA StockKept ==
    ASSUME TypeOK, StockInv, [Next]_vars
    PROVE  StockInv'
<1> USE Facts
<1>0. TypeOK' /\ bag[Wanted] \in Int
    BY TypeKept DEF TypeOK, GoldOK
<1>1. CASE \E t \in Threads : TradeStep(t)
  <2>1. PICK t \in Threads : TradeStep(t)
      BY <1>1
  <2>2. UNCHANGED <<bag, had, remaining, result>>
      BY <2>1 DEF TradeStep, NextTrade, Reset, ReadInitialId, Ask, PollSees, PollTimesOut,
         ReadCost, ReadItem, Transact, TransactRefused, Enqueue, buyer, world
  <2>3. pc[t] # "attempt" /\ \E label : Goto(t, label)
      BY <2>1 DEF TradeStep, NextTrade, Reset, ResetQuote, ResetCost, ReadInitialId, Ask,
         PollSees, PollTimesOut, ReadCost, ReadItem, Transact, TransactRefused, GiveUp
  <2>4. pc["bot"] = "attempt" => pc'["bot"] = "attempt"
      BY <2>3 DEF Goto, TypeOK, PcOK, Threads
  <2> QED BY <1>0, <2>2, <2>4, StockElsewhere
<1>2. CASE WatchSees \/ WatchTimesOut
  <2>1. UNCHANGED <<bag, had, remaining, result>> /\ pc["bot"] = "watch"
      BY <1>2 DEF WatchSees, WatchTimesOut, world, buyer
  <2> QED BY <1>0, <2>1, StockElsewhere
<1>3. CASE StartBuying
  <2>1. remaining' = Want /\ result' = "buying" /\ UNCHANGED <<bag, had>>
        /\ pc'["bot"] = "attempt"
      BY <1>3 DEF StartBuying, Goto, world, TypeOK, PcOK, Threads
  <2>2. bag[Wanted] >= 0 /\ bag[Wanted] >= Want - remaining'
      BY <1>0, <2>1 DEF StockInv, Stocked
  <2> QED BY <2>1, <2>2 DEF StockInv, Stocked, CountedFrom
<1>4. CASE OpenTrader
    BY <1>4 DEF OpenTrader, world, StockInv, Stocked, CountedFrom
<1>5. CASE CountGained
  <2>1. /\ result = "buying" /\ pc["bot"] = "next" /\ UNCHANGED <<bag, had>>
        /\ bag[Wanted] \in Int /\ had \in Int /\ remaining \in Int
        /\ had >= Want - remaining /\ bag[Wanted] >= 0
      BY <1>0, <1>5 DEF CountGained, world, TypeOK, BuyerOK, StockInv, Stocked, CountedFrom
  <2>2. CASE Gained >= remaining
    <3>1. remaining' = remaining /\ result' = "true"
        BY <1>5, <2>2 DEF CountGained
    <3>2. bag[Wanted] >= Want
        BY <2>1, <2>2 DEF Gained
    <3> QED BY <2>1, <3>1, <3>2 DEF StockInv, Stocked, CountedFrom
  <2>3. CASE ~(Gained >= remaining)
    <3>1. remaining' = remaining - (bag[Wanted] - had) /\ result' \in {"buying", "false"}
          /\ (result' = "buying" => pc'["bot"] = "attempt")
        BY <1>5, <2>3 DEF CountGained, Goto, Gained, TypeOK, PcOK, Threads
    <3>2. remaining' \in Int /\ bag[Wanted] >= Want - remaining'
        BY <2>1, <3>1
    <3> QED BY <2>1, <3>1, <3>2 DEF StockInv, Stocked, CountedFrom
  <2> QED BY <2>2, <2>3
<1>6. CASE QuoteArrives \/ StoreQuote \/ \E t \in Threads : RunTask(t)
  <2>1. UNCHANGED <<bag, had, remaining, result, pc>>
      BY <1>6 DEF QuoteArrives, StoreQuote, RunTask, world, buyer
  <2> QED BY <1>0, <2>1, StockElsewhere
<1>7. CASE TradeArrives
  <2>1. UNCHANGED <<had, remaining, result, pc>>
      BY <1>7 DEF TradeArrives, buyer
  <2> QED BY <1>0, <1>7, <2>1, MaterialOnlyComes, StockElsewhere
<1>8. CASE UNCHANGED vars
    BY <1>8 DEF vars, world, buyer, StockInv, Stocked, CountedFrom
<1> QED
    BY <1>1, <1>2, <1>3, <1>4, <1>5, <1>6, <1>7, <1>8 DEF Next, BotStep, GameStep, Threads

\* BuyConsetMaterialVerified reports success only with the wanted quantity in
\* the bag: the count of the bag, not the gold, decides.
THEOREM VerifiedIsGained == Spec => []VerifiedMeansGained
<1>1. Init => TypeOK /\ StockInv
  <2>1. Init => StockInv
      BY Facts DEF Init, StockInv, Stocked, CountedFrom
  <2> QED BY <2>1, InitTyped
<1>2. TypeOK /\ StockInv /\ [Next]_vars => TypeOK' /\ StockInv'
    BY TypeKept, StockKept
<1>3. StockInv => VerifiedMeansGained
    BY DEF StockInv, Stocked, VerifiedMeansGained
<1> QED BY <1>1, <1>2, <1>3, PTL DEF Spec

-----------------------------------------------------------------------------
(* Undisturbed trades.                                                      *)

\* The tasks and requests among which every quote asked for is about an item
\* of S.
AsksOf(S) == {task \in TasksOf(Items \cup {NoItem}) : task.kind \in Asks => task.item \in S}

\* No quote but for the items of S is in play: none is asked for, none is
\* being stored, and what the globals hold came of none.  An older item may
\* still be named, without a price, until the first answer comes.
Owned(S) ==
    /\ wire \in Seq(AsksOf(S)) /\ lane \in [Threads -> Seq(AsksOf(S))]
    /\ writing.todo \in {"item", "cost"}
         => writing.item \in S /\ writing.cost \in {0, Price[writing.item]}
    /\ cost \in {0} \cup {Price[i] : i \in S}
    /\ item \in S \cup {NoItem} \/ (cost = 0 /\ writing = Idle /\ wire \in Seq(AsksOf({})))

Own(t) == IF pc[t] \in {"initial", "ask"} THEN {} ELSE {Subject(t)}
Quoting == {"initial", "ask", "poll", "read cost", "read item", "transact"}

Undisturbed(t) ==
    clean[t] =>
      /\ pc[t] \in Quoting => Owned(Own(t))
      /\ pc[t] = "read item"
           => /\ got[t][2] \in {0, Price[Subject(t)]}
              /\ got[t][2] # 0 => item \in {Subject(t), NoItem}
      /\ pc[t] = "transact"
           => /\ got[t][2] \in {0, Price[Subject(t)]}
              /\ got[t][2] # 0 => got[t][1] \in {Subject(t), NoItem}

\* A sequence whose members are all in B is one over B.
LEMMA Narrowed ==
    ASSUME NEW A, NEW B, NEW q \in Seq(A), \A k \in 1 .. Len(q) : q[k] \in B
    PROVE  q \in Seq(B)
OBVIOUS

\* Asks about some goods are asks about more.
LEMMA AsksWiden ==
    ASSUME NEW S, NEW R, S \subseteq R
    PROVE  AsksOf(S) \subseteq AsksOf(R) /\ Seq(AsksOf(S)) \subseteq Seq(AsksOf(R))
<1>1. AsksOf(S) \subseteq AsksOf(R)
    BY DEF AsksOf
<1> QED BY <1>1, Narrowed

\* What touches neither the hook nor a queue leaves the quotes to whom they belong.
LEMMA OwnedElsewhere ==
    ASSUME NEW S, Owned(S), UNCHANGED <<hook, lane, wire>>
    PROVE  Owned(S)'
BY DEF Owned, hook

\* One more task, of a quote for an item of S or of no quote at all.
LEMMA OwnedByTask ==
    ASSUME NEW S, Owned(S), NEW t \in Threads, NEW task \in AsksOf(S),
           Enqueue(t, task), UNCHANGED <<hook, wire>>
    PROVE  Owned(S)'
<1>1. Append(lane[t], task) \in Seq(AsksOf(S))
    BY AppendProperties DEF Owned
<1>2. lane' \in [Threads -> Seq(AsksOf(S))]
    BY <1>1 DEF Enqueue, Owned
<1> QED BY <1>2 DEF Owned, hook

\* Quotes of nobody may be said to be anybody's.
LEMMA OwnedWiden ==
    ASSUME NEW S, Owned({})
    PROVE  Owned(S)
BY AsksWiden DEF Owned

\* Forgetting a quote gives nobody else's to a thread.
LEMMA ResetOwned ==
    ASSUME NEW S, Owned(S), NEW u \in Threads, Reset(u)
    PROVE  Owned(S)' /\ (item \in S \cup {NoItem} => item' \in S \cup {NoItem})
<1>1. UNCHANGED <<lane, wire, writing>>
    BY DEF Reset, ResetQuote, ResetCost, world
<1>2. CASE ResetQuote(u)
    BY <1>1, <1>2 DEF ResetQuote, Owned
<1>3. CASE ResetCost(u)
    BY <1>1, <1>3 DEF ResetCost, Owned
<1> QED BY <1>2, <1>3 DEF Reset

\* A reset that meets no quote leaves none.
LEMMA ResetClears ==
    ASSUME TypeOK, NEW u \in Threads, ResetCost(u), ~QuoteAlive, UNCHANGED world
    PROVE  Owned({})'
<1> USE DEF TypeOK
<1>1. wire \in Seq(TasksOf(Items)) /\ lane \in [Threads -> Seq(TasksOf(Items \cup {NoItem}))]
    BY DEF LanesOK
<1>2. \A q \in {wire} \cup {lane[t] : t \in Threads} :
        \A k \in DOMAIN q : q[k].kind \notin Asks
    BY DEF QuoteAlive, Asks
<1>3. wire \in Seq(AsksOf({}))
  <2>1. \A k \in 1 .. Len(wire) : wire[k] \in TasksOf(Items)
      BY <1>1
  <2>2. TasksOf(Items) \subseteq TasksOf(Items \cup {NoItem})
      BY DEF TasksOf
  <2>3. \A k \in DOMAIN wire : wire[k].kind \notin Asks
      BY <1>2
  <2>4. DOMAIN wire = 1 .. Len(wire)
      BY <1>1
  <2>5. \A k \in 1 .. Len(wire) : wire[k] \in AsksOf({})
      BY <2>1, <2>2, <2>3, <2>4 DEF AsksOf
  <2> QED BY <1>1, <2>5, Narrowed
<1>4. lane \in [Threads -> Seq(AsksOf({}))]
  <2>1. ASSUME NEW t \in Threads PROVE lane[t] \in Seq(AsksOf({}))
    <3>1. lane[t] \in Seq(TasksOf(Items \cup {NoItem}))
        BY <1>1
    <3>2. \A k \in DOMAIN lane[t] : lane[t][k].kind \notin Asks
        BY <1>2
    <3>3. \A k \in 1 .. Len(lane[t]) : lane[t][k] \in AsksOf({})
        BY <3>1, <3>2 DEF AsksOf
    <3> QED BY <3>1, <3>3, Narrowed
  <2> QED BY <1>1, <2>1
<1>5. writing = Idle
    BY DEF QuoteAlive
<1> QED BY <1>3, <1>4, <1>5 DEF ResetCost, world, Owned, Idle

\* What the game thread and the server do with quotes for S stays within S.
LEMMA GameOwned ==
    ASSUME TypeOK, NEW S, S \subseteq Items, Owned(S), GameStep
    PROVE  Owned(S)' /\ (item \in S \cup {NoItem} => item' \in S \cup {NoItem})
<1> USE DEF TypeOK
<1>0. NoItem \notin S
    BY Facts
<1>1. CASE \E t \in Threads : RunTask(t)
  <2>1. PICK t \in Threads : RunTask(t)
      BY <1>1
  <2> DEFINE task == Head(lane[t])
  <2>2. lane[t] \in Seq(AsksOf(S)) /\ lane[t] # <<>>
      BY <2>1 DEF RunTask, Owned
  <2>3. task \in AsksOf(S) /\ Tail(lane[t]) \in Seq(AsksOf(S))
      BY <2>2, HeadTailProperties
  <2>4. lane' \in [Threads -> Seq(AsksOf(S))]
      BY <2>1, <2>3 DEF RunTask, Owned
  <2>5. /\ wire' = (IF task.item = NoItem THEN wire ELSE Append(wire, task))
        /\ item' = (IF task.kind \in {"ask buy", "ask sell"} THEN task.item ELSE item)
        /\ UNCHANGED <<writing, cost>>
      BY <2>1 DEF RunTask
  <2> HIDE DEF task
  <2>6. wire' \in Seq(AsksOf(S))
      BY <2>3, <2>5, AppendProperties DEF Owned
  <2>7. item \in S \cup {NoItem} => item' \in S \cup {NoItem}
      BY <2>3, <2>5 DEF AsksOf, Asks
  <2>8. CASE task.kind \in Asks
    <3>1. item' \in S
        BY <2>3, <2>5, <2>8 DEF AsksOf, Asks
    <3> QED BY <2>4, <2>5, <2>6, <2>7, <3>1 DEF Owned
  <2>9. CASE task.kind \notin Asks
    <3>1. task \in AsksOf({})
        BY <2>3, <2>9 DEF AsksOf
    <3>2. wire \in Seq(AsksOf({})) => wire' \in Seq(AsksOf({}))
        BY <2>5, <3>1, AppendProperties
    <3>3. item' = item
        BY <2>5, <2>9 DEF Asks
    <3> QED BY <2>4, <2>5, <2>6, <3>2, <3>3 DEF Owned
  <2> QED BY <2>8, <2>9
<1>2. CASE QuoteArrives
  <2> DEFINE q == Head(wire)
  <2>1. q \in AsksOf(S) /\ wire' \in Seq(AsksOf(S)) /\ q.kind \in Asks
      BY <1>2, HeadTailProperties DEF QuoteArrives, Owned, Asks
  <2>2. q.item \in S
      BY <2>1 DEF AsksOf
  <2>3. PICK p \in {Price[q.item]} \cup (IF q.item \in Scarce THEN {0} ELSE {}) :
              writing' = [todo |-> "item", item |-> q.item, cost |-> p]
      BY <1>2 DEF QuoteArrives
  <2>4. wire \notin Seq(AsksOf({}))
    <3>1. wire # <<>>
        BY <1>2 DEF QuoteArrives
    <3>2. wire \in Seq(AsksOf({})) => q \in AsksOf({})
        BY <3>1, HeadTailProperties
    <3> QED BY <2>1, <3>2 DEF AsksOf
  <2> HIDE DEF q
  <2>5. writing'.item = q.item /\ writing'.cost \in {0, Price[q.item]}
      BY <2>3
  <2> QED BY <1>2, <2>1, <2>2, <2>4, <2>5 DEF QuoteArrives, Owned
<1>3. CASE StoreQuote
  <2>1. UNCHANGED <<lane, wire>>
      BY <1>3 DEF StoreQuote, world
  <2>2. writing \in [todo : {"nothing", "item", "cost", "id", "wrap"},
                     item : Items \cup {NoItem}, cost : Nat]
      BY DEF HookOK
  <2>3. writing # Idle
      BY <1>3 DEF StoreQuote, StoreItem, StoreCost, IncrementQuoteId, RestartQuoteId, Idle
  <2>4. item \in S \cup {NoItem}
      BY <2>3 DEF Owned
  <2>5. CASE StoreItem
      BY <2>1, <2>2, <2>4, <2>5 DEF StoreItem, Owned
  <2>6. CASE StoreCost
      BY <2>1, <2>2, <2>4, <2>6 DEF StoreCost, Owned
  <2>7. CASE IncrementQuoteId
      BY <2>1, <2>2, <2>4, <2>7 DEF IncrementQuoteId, Owned, Idle
  <2>8. CASE RestartQuoteId
      BY <2>1, <2>2, <2>4, <2>8 DEF RestartQuoteId, Owned, Idle
  <2> QED BY <1>3, <2>5, <2>6, <2>7, <2>8 DEF StoreQuote
<1>4. CASE TradeArrives
  <2>1. wire' = Tail(wire) /\ wire # <<>> /\ UNCHANGED <<hook, lane>>
      BY <1>4 DEF TradeArrives
  <2>2. \A R : wire \in Seq(AsksOf(R)) => wire' \in Seq(AsksOf(R))
      BY <2>1, HeadTailProperties
  <2> QED BY <2>1, <2>2 DEF Owned, hook
<1> QED BY <1>1, <1>2, <1>3, <1>4 DEF GameStep

\* What concerns an undisturbed trade of t stays as it is.
LEMMA UndisturbedElsewhere ==
    ASSUME NEW t \in Threads, Undisturbed(t), UNCHANGED <<hook, lane, wire>>,
           pc'[t] = pc[t], got'[t] = got[t], Subject(t)' = Subject(t),
           clean'[t] => clean[t]
    PROVE  Undisturbed(t)'
<1>1. Own(t)' = Own(t)
    BY DEF Own
<1>2. Owned(Own(t)) => Owned(Own(t))'
    BY <1>1, OwnedElsewhere
<1> QED BY <1>2 DEF Undisturbed, hook

\* A trade that is not under way is not disturbed.
LEMMA UndisturbedOver ==
    ASSUME NEW t \in Threads, pc'[t] \notin Quoting
    PROVE  Undisturbed(t)'
BY DEF Undisturbed, Quoting

\* A thread's own quotes are about what it trades in.
LEMMA OwnTyped ==
    ASSUME NEW t \in Threads
    PROVE  Own(t) \subseteq Items /\ Own(t) \subseteq {Subject(t)}
BY SubjectTyped DEF Own

\* The game thread's steps and the other thread's.
LEMMA UndisturbedByGame ==
    ASSUME TypeOK, NEW t \in Threads, Undisturbed(t),
           GameStep \/ \E u \in Threads \ {t} : Reset(u),
           pc'[t] = pc[t], got'[t] = got[t], Subject(t)' = Subject(t),
           clean'[t] => clean[t]
    PROVE  Undisturbed(t)'
<1>1. SUFFICES ASSUME clean'[t], pc[t] \in Quoting
               PROVE  Undisturbed(t)'
    BY UndisturbedOver DEF Undisturbed
<1>2. Owned(Own(t)) /\ clean[t]
    BY <1>1 DEF Undisturbed
<1>3. Owned(Own(t))' /\ (item \in Own(t) \cup {NoItem} => item' \in Own(t) \cup {NoItem})
  <2>1. Own(t)' = Own(t)
      BY DEF Own
  <2> DEFINE S == Own(t)
  <2>2. Owned(S) /\ S \subseteq Items
      BY <1>2, OwnTyped
  <2>3. (item \in S \cup {NoItem} => item' \in S \cup {NoItem})
      BY <2>2, GameOwned, ResetOwned
  <2>4. ASSUME NEW R, R = S PROVE Owned(R)'
      BY <2>2, <2>4, GameOwned, ResetOwned
  <2> QED BY <2>1, <2>3, <2>4
<1>4. CASE pc[t] = "read item"
  <2>1. Own(t) = {Subject(t)}
      BY <1>4 DEF Own
  <2> QED BY <1>1, <1>2, <1>3, <1>4, <2>1 DEF Undisturbed
<1>5. CASE pc[t] # "read item"
    BY <1>1, <1>2, <1>3, <1>5 DEF Undisturbed
<1> QED BY <1>4, <1>5

CleanOK == clean \in [Threads -> BOOLEAN]

\* A trade's transaction is no quote request.
LEMMA TransactionPlain ==
    ASSUME LocalsOK, NEW u \in Threads, NEW S
    PROVE  Task(IF Selling(u) THEN "sell" ELSE "buy", got[u][1], got[u][2], u) \in AsksOf(S)
<1>1. got[u] \in (Items \cup {NoItem}) \X Nat
    BY DEF LocalsOK
<1> QED BY <1>1 DEF Task, AsksOf, TasksOf, Asks

\* What a thread trades in stays the same while its purchase does.
LEMMA SubjectKept ==
    ASSUME NEW t \in Threads, UNCHANGED buyer \/ (result # "none" /\ result' # "none")
    PROVE  Subject(t)' = Subject(t)
BY DEF Subject, Selling, buyer

\* The other thread's steps.
LEMMA UndisturbedByOther ==
    ASSUME TypeOK, CleanOK, NEW t \in Threads, NEW u \in Threads, u # t,
           Undisturbed(t), TradeStep(u)
    PROVE  Undisturbed(t)'
<1> USE DEF TypeOK
<1>1. Subject(t)' = Subject(t)
  <2>1. UNCHANGED buyer
      BY DEF TradeStep, NextTrade, Reset, ReadInitialId, Ask, PollSees, PollTimesOut,
         ReadCost, ReadItem, Transact, TransactRefused
  <2> QED BY <2>1, SubjectKept
<1>2. pc'[t] = pc[t]
  <2>1. \E label : Goto(u, label)
      BY DEF TradeStep, NextTrade, Reset, ResetQuote, ResetCost, ReadInitialId, Ask,
         PollSees, PollTimesOut, ReadCost, ReadItem, Transact, TransactRefused, GiveUp
  <2> QED BY <2>1 DEF Goto, PcOK
<1>3. got'[t] = got[t]
    BY DEF TradeStep, NextTrade, Reset, ReadInitialId, Ask, PollSees, PollTimesOut,
       ReadCost, ReadItem, Transact, TransactRefused, Forget, LocalsOK
<1>4. clean'[t] => clean[t]
    BY DEF TradeStep, NextTrade, Reset, ReadInitialId, Ask, PollSees, PollTimesOut,
       ReadCost, ReadItem, Transact, TransactRefused, Forget, CleanOK
<1>5. CASE Reset(u)
    BY <1>1, <1>2, <1>3, <1>4, <1>5, UndisturbedByGame
<1>6. CASE Ask(u)
  <2>1. ~clean'[t]
      BY <1>6 DEF Ask
  <2> QED BY <2>1 DEF Undisturbed
<1>7. CASE Transact(u)
  <2> DEFINE task == Task(IF Selling(u) THEN "sell" ELSE "buy", got[u][1], got[u][2], u)
  <2>1. SUFFICES ASSUME clean'[t], pc[t] \in Quoting
                 PROVE  Undisturbed(t)'
      BY <1>2, UndisturbedOver DEF Undisturbed
  <2>2. Owned(Own(t)) /\ clean[t] /\ Own(t)' = Own(t)
      BY <1>1, <1>2, <1>4, <2>1 DEF Undisturbed, Own
  <2>3. Enqueue(u, task) /\ UNCHANGED <<hook, wire>>
      BY <1>7 DEF Transact
  <2>4. task \in AsksOf(Own(t))
      BY TransactionPlain
  <2> HIDE DEF task
  <2>5. ASSUME NEW S, S = Own(t) PROVE Owned(S)'
      BY <2>2, <2>3, <2>4, <2>5, OwnedByTask
  <2>6. Owned(Own(t))'
      BY <2>2, <2>5
  <2> QED BY <1>1, <1>2, <1>3, <2>2, <2>3, <2>6 DEF Undisturbed, hook
<1>8. CASE UNCHANGED <<hook, lane, wire>>
    BY <1>1, <1>2, <1>3, <1>4, <1>8, UndisturbedElsewhere
<1> QED
    BY <1>5, <1>6, <1>7, <1>8 DEF TradeStep, NextTrade, ReadInitialId, PollSees, PollTimesOut,
       ReadCost, ReadItem, TransactRefused, world

\* The thread's own steps.
LEMMA UndisturbedBySelf ==
    ASSUME TypeOK, CleanOK, NEW t \in Threads, Undisturbed(t), TradeStep(t)
    PROVE  Undisturbed(t)'
<1> USE DEF TypeOK
<1>0. PICK s \in Items : s = Subject(t)
    BY SubjectTyped
<1>1. Subject(t)' = s
  <2>1. UNCHANGED buyer
      BY DEF TradeStep, NextTrade, Reset, ReadInitialId, Ask, PollSees, PollTimesOut,
         ReadCost, ReadItem, Transact, TransactRefused
  <2> QED BY <1>0, <2>1, SubjectKept
<1>2. ASSUME NEW label, Goto(t, label) PROVE pc'[t] = label
    BY <1>2 DEF Goto, PcOK
<1>3. CASE NextTrade(t) \/ Transact(t) \/ TransactRefused(t)
  <2>1. pc'[t] \in {"reset quote", "watch", "next"}
      BY <1>2, <1>3 DEF NextTrade, Transact, TransactRefused, GiveUp
  <2> QED BY <2>1, UndisturbedOver DEF Quoting
<1>4. CASE Reset(t)
  <2>1. CASE ResetQuote(t)
    <3>1. pc'[t] = "reset cost"
        BY <1>2, <2>1 DEF ResetQuote
    <3> QED BY <3>1, UndisturbedOver DEF Quoting
  <2>2. CASE ResetCost(t)
    <3>1. pc'[t] \in {"initial", "ask"}
        BY <1>2, <2>2 DEF ResetCost
    <3>2. clean'[t] => ~QuoteAlive
        BY <1>4 DEF Reset, CleanOK
    <3>3. clean'[t] => Owned({})'
        BY <1>4, <2>2, <3>2, ResetClears DEF Reset
    <3>4. Own(t)' = {}
        BY <3>1 DEF Own
    <3> QED BY <3>1, <3>3, <3>4 DEF Undisturbed
  <2> QED BY <1>4, <2>1, <2>2 DEF Reset
<1>5. CASE ReadInitialId(t)
  <2>1. /\ pc[t] = "initial" /\ pc'[t] = "ask" /\ clean' = clean
        /\ UNCHANGED <<hook, lane, wire>>
      BY <1>2, <1>5 DEF ReadInitialId, world
  <2>2. Own(t) = {} /\ Own(t)' = {}
      BY <2>1 DEF Own
  <2>3. Owned({}) => Owned({})'
      BY <2>1, OwnedElsewhere
  <2> QED BY <2>1, <2>2, <2>3 DEF Undisturbed, Quoting
<1>6. CASE Ask(t)
  <2> DEFINE task == Task(IF Selling(t) THEN "ask sell" ELSE "ask buy", Subject(t), 0, t)
  <2>1. pc[t] = "ask" /\ pc'[t] = "poll" /\ clean'[t] = clean[t]
      BY <1>2, <1>6 DEF Ask, CleanOK
  <2>2. Enqueue(t, task) /\ UNCHANGED <<hook, wire>>
      BY <1>6 DEF Ask
  <2>3. task \in AsksOf({s})
      BY <1>0 DEF Task, AsksOf, TasksOf, Asks
  <2> HIDE DEF task
  <2>4. Own(t) = {} /\ Own(t)' = {s}
      BY <1>1, <2>1 DEF Own
  <2>5. clean[t] => Owned({s})
      BY <2>1, <2>4, OwnedWiden DEF Undisturbed, Quoting
  <2>6. clean[t] => Owned({s})'
      BY <2>2, <2>3, <2>5, OwnedByTask
  <2> QED BY <2>1, <2>4, <2>6 DEF Undisturbed
<1>7. CASE PollSees(t) \/ PollTimesOut(t)
  <2>1. CASE pc'[t] = "next"
      BY <2>1, UndisturbedOver DEF Quoting
  <2>2. CASE pc'[t] # "next"
    <3>1. /\ pc[t] = "poll" /\ pc'[t] = "read cost" /\ clean' = clean
          /\ UNCHANGED <<hook, lane, wire>>
        BY <1>2, <1>7, <2>2 DEF PollSees, PollTimesOut, GiveUp, world
    <3>2. Own(t) = {s} /\ Own(t)' = {s}
        BY <1>0, <1>1, <3>1 DEF Own
    <3>3. Owned({s}) => Owned({s})'
        BY <3>1, OwnedElsewhere
    <3> QED BY <3>1, <3>2, <3>3 DEF Undisturbed, Quoting
  <2> QED BY <2>1, <2>2
<1>8. CASE ReadCost(t)
  <2>1. /\ pc[t] = "read cost" /\ pc'[t] = "read item" /\ clean' = clean
        /\ UNCHANGED <<hook, lane, wire>> /\ got'[t][2] = cost
      BY <1>2, <1>8 DEF ReadCost, world, LocalsOK
  <2>2. Own(t) = {s} /\ Own(t)' = {s}
      BY <1>0, <1>1, <2>1 DEF Own
  <2>3. Owned({s}) => Owned({s})'
      BY <2>1, OwnedElsewhere
  <2>4. Owned({s}) => cost \in {0, Price[s]} /\ (cost # 0 => item \in {s, NoItem})
      BY DEF Owned
  <2>5. item' = item
      BY <2>1 DEF hook
  <2> QED BY <1>0, <1>1, <2>1, <2>2, <2>3, <2>4, <2>5 DEF Undisturbed, Quoting
<1>9. CASE ReadItem(t)
  <2>1. /\ pc[t] = "read item" /\ pc'[t] = "transact" /\ clean' = clean
        /\ UNCHANGED <<hook, lane, wire>>
      BY <1>2, <1>9 DEF ReadItem, world
  <2>2. got'[t][1] = (IF Selling(t) THEN Scale ELSE item) /\ got'[t][2] = got[t][2]
    <3>1. got[t] \in (Items \cup {NoItem}) \X Nat
        BY DEF LocalsOK
    <3>2. got'[t] = [got[t] EXCEPT ![1] = IF Selling(t) THEN Scale ELSE item]
        BY <1>9 DEF ReadItem, LocalsOK
    <3> QED BY <3>1, <3>2
  <2>3. Own(t) = {s} /\ Own(t)' = {s}
      BY <1>0, <1>1, <2>1 DEF Own
  <2>4. Owned({s}) => Owned({s})'
      BY <2>1, OwnedElsewhere
  <2>5. Selling(t) => s = Scale
      BY <1>0 DEF Selling, Subject, Threads
  <2> QED BY <1>0, <1>1, <2>1, <2>2, <2>3, <2>4, <2>5 DEF Undisturbed, Quoting
<1> QED
    BY <1>3, <1>4, <1>5, <1>6, <1>7, <1>8, <1>9 DEF TradeStep

\* Nobody's trade counts as undisturbed again but by starting anew.
LEMMA CleanKept ==
    ASSUME CleanOK, [Next]_vars
    PROVE  CleanOK'
<1>1. ASSUME NEW t \in Threads, TradeStep(t) PROVE CleanOK'
    BY <1>1 DEF TradeStep, NextTrade, Reset, ReadInitialId, Ask, PollSees, PollTimesOut,
       ReadCost, ReadItem, Transact, TransactRefused, Forget, CleanOK, QuoteAlive
<1>2. CASE ~(\E t \in Threads : TradeStep(t))
  <2>1. UNCHANGED clean
      BY <1>2 DEF Next, BotStep, GameStep, WatchSees, WatchTimesOut, StartBuying, OpenTrader,
         CountGained, RunTask, QuoteArrives, StoreQuote, TradeArrives, vars, Threads
  <2> QED BY <2>1 DEF CleanOK
<1> QED BY <1>1, <1>2

QuotesInv == TypeOK /\ CleanOK /\ \A t \in Threads : Undisturbed(t)

\* Every step keeps the quotes of undisturbed trades their own.
LEMMA QuotesKept ==
    ASSUME QuotesInv, [Next]_vars
    PROVE  QuotesInv'
<1> USE DEF QuotesInv
<1>1. TypeOK' /\ CleanOK'
    BY TypeKept, CleanKept
<1>2. ASSUME NEW t \in Threads PROVE Undisturbed(t)'
  <2>1. CASE \E u \in Threads : TradeStep(u)
      BY <2>1, UndisturbedBySelf, UndisturbedByOther
  <2>2. CASE GameStep
    <3>1. UNCHANGED <<pc, got, clean, buyer>>
        BY <2>2 DEF GameStep, RunTask, QuoteArrives, StoreQuote, TradeArrives
    <3>2. Subject(t)' = Subject(t)
        BY <3>1, SubjectKept
    <3> QED BY <2>2, <3>1, <3>2, UndisturbedByGame
  <2>3. CASE WatchSees \/ WatchTimesOut \/ StartBuying \/ OpenTrader \/ CountGained
    <3>1. UNCHANGED <<hook, lane, wire, got, clean>> /\ pc["bot"] \notin Quoting
          /\ \E label \in {"next", "attempt", "done"} : Goto("bot", label)
        BY <2>3 DEF WatchSees, WatchTimesOut, StartBuying, OpenTrader, CountGained, GiveUp,
           world, Quoting
    <3>2. CASE t = "bot"
      <4>1. pc'[t] \notin Quoting
          BY <3>1, <3>2 DEF Goto, TypeOK, PcOK, Quoting
      <4> QED BY <4>1, UndisturbedOver
    <3>3. CASE t # "bot"
      <4>1. pc'[t] = pc[t]
          BY <3>1, <3>3 DEF Goto, TypeOK, PcOK
      <4>2. Subject(t)' = Subject(t)
          BY <3>3 DEF Subject, Selling, Threads
      <4> QED BY <3>1, <4>1, <4>2, UndisturbedElsewhere
    <3> QED BY <3>2, <3>3
  <2>4. CASE UNCHANGED vars
    <3>1. UNCHANGED <<hook, lane, wire, pc, got, clean, buyer>>
        BY <2>4 DEF vars, world
    <3>2. Subject(t)' = Subject(t)
        BY <3>1, SubjectKept
    <3> QED BY <3>1, <3>2, UndisturbedElsewhere
  <2> QED BY <2>1, <2>2, <2>3, <2>4 DEF Next, BotStep, Threads
<1> QED BY <1>1, <1>2

\* What a thread buys or sells with no quote but its own in play is what it
\* asked for, or the nothing that was never quoted, at the price it was told:
\* the quotes that could reach the globals between its reset and its
\* transaction are all its own.
THEOREM UndisturbedPays == Spec => []PaysItsPrice
<1>1. Init => QuotesInv
  <2> SUFFICES ASSUME Init PROVE QuotesInv
      OBVIOUS
  <2>1. CleanOK /\ \A t \in Threads : ~clean[t]
      BY DEF Init, CleanOK
  <2> QED BY <2>1, InitTyped DEF QuotesInv, Undisturbed
<1>2. QuotesInv /\ [Next]_vars => QuotesInv'
    BY QuotesKept
<1>3. QuotesInv => PaysItsPrice
    BY DEF QuotesInv, Undisturbed, PaysItsPrice, Refused
<1> QED BY <1>1, <1>2, <1>3, PTL DEF Spec

-----------------------------------------------------------------------------
(* Overbuying.                                                              *)

\* The purchases of a lane or of the wire.
Buys(q) == {k \in DOMAIN q : q[k].kind = "buy"}
Count(q) == Cardinality(Buys(q))

\* The purchases that may still be paid for, that the bridge is about to ask
\* for included, and those paid for, beyond what the bridge began.
LaneBuys == Count(lane["bot"]) + Count(lane["bridge"])
Outstanding == LaneBuys + Count(wire) + (IF pc["bridge"] = "next" THEN 0 ELSE 1)
Owed == paid + Outstanding - Begun

\* The purchase the bot's current attempt may end without, or that may still
\* be on its way: the last of the attempt.
Slack ==
    IF \/ pc["bot"] = "watch" /\ gold >= before
       \/ pc["bot"] = "next" /\ left["bot"] = 0
    THEN 1 ELSE 0

\* The purchases still to be made in the attempt.
Due ==
    IF result # "buying" \/ pc["bot"] = "attempt" THEN 0
    ELSE left["bot"] + (IF pc["bot"] \in {"next", "watch"} THEN 0 ELSE 1)

\* What the bot knows it has got, or will when the attempt is counted.
Brought ==
    Want - remaining + (IF pc["bot"] = "attempt" THEN 0 ELSE bag[Wanted] - had)

OverbuyInv ==
    /\ result = "none" => Owed <= 0
    /\ result = "buying" => Pack * (Owed - attempt - Slack) <= Brought
    /\ result # "none" => Pack * (Owed + Due - Attempts) < Want
    /\ result \in {"true", "false"} => pc["bot"] = "done"

\* Packs of the wanted item, in units.
LEMMA ScaledMonotone ==
    ASSUME NEW a \in Int, NEW b \in Int, a <= b
    PROVE  Pack * a <= Pack * b /\ Pack * a \in Int /\ Pack * b \in Int
BY Facts

\* A bound on more packs bounds fewer.
LEMMA ScaledBound ==
    ASSUME NEW a \in Int, NEW b \in Int, a <= b
    PROVE  /\ \A c \in Int : Pack * b <= c => Pack * a <= c
           /\ \A c \in Int : Pack * b < c => Pack * a < c
<1>1. Pack * a <= Pack * b /\ Pack * a \in Int /\ Pack * b \in Int
    BY ScaledMonotone
<1> QED BY <1>1

\* Units of packs taken together.
LEMMA ScaledSum ==
    ASSUME NEW a \in Int, NEW b \in Int
    PROVE  Pack * (a + b) = Pack * a + Pack * b /\ Pack * a \in Int /\ Pack * b \in Int
BY Facts

\* Rounding up to packs buys less than one pack too many.
LEMMA PacksBound ==
    ASSUME NEW n \in Int, n > 0
    PROVE  Packs(n) \in Nat /\ Pack * Packs(n) < n + Pack
<1> DEFINE m == n + Pack - 1
<1>1. m \in Nat /\ Pack \in Nat /\ Pack > 0
    BY Facts
<1>2. m \div Pack \in Nat /\ Pack * (m \div Pack) <= m
  <2>1. \A x, y \in Nat : y > 0 => x \div y \in Nat /\ y * (x \div y) <= x
      OBVIOUS
  <2> QED BY <1>1, <2>1
<1> QED BY <1>1, <1>2 DEF Packs

\* The purchases among the tasks of a queue can be counted, ...
LEMMA CountTyped ==
    ASSUME NEW A, NEW q \in Seq(A)
    PROVE  Count(q) \in Nat /\ IsFiniteSet(Buys(q))
<1>1. IsFiniteSet(1 .. Len(q))
    BY FS_Interval
<1>2. Buys(q) \subseteq 1 .. Len(q)
    BY DEF Buys
<1> QED BY <1>1, <1>2, FS_Subset, FS_CardinalityType DEF Count

\* ... one more when a purchase is put at its end, ...
LEMMA CountAppend ==
    ASSUME NEW A, NEW q \in Seq(A), NEW e \in A
    PROVE  Count(Append(q, e)) = Count(q) + (IF e.kind = "buy" THEN 1 ELSE 0)
<1> DEFINE r == Append(q, e)
<1>1. /\ DOMAIN r = DOMAIN q \cup {Len(q) + 1} /\ Len(q) + 1 \notin DOMAIN q
      /\ \A k \in DOMAIN q : r[k] = q[k]
      /\ r[Len(q) + 1] = e
    BY AppendProperties
<1> HIDE DEF r
<1>2. Buys(r) = Buys(q) \cup (IF e.kind = "buy" THEN {Len(q) + 1} ELSE {})
      /\ Len(q) + 1 \notin Buys(q)
    BY <1>1 DEF Buys
<1>3. Count(r) = Count(q) + (IF e.kind = "buy" THEN 1 ELSE 0)
  <2>1. CASE e.kind = "buy"
      BY <1>2, <2>1, CountTyped, FS_AddElement DEF Count
  <2>2. CASE e.kind # "buy"
    <3>1. Buys(r) = Buys(q)
        BY <1>2, <2>2
    <3> QED BY <2>2, <3>1, CountTyped DEF Count
  <2> QED BY <2>1, <2>2
<1> QED BY <1>3 DEF r

\* ... and one less when its first is taken.
LEMMA CountTail ==
    ASSUME NEW A, NEW q \in Seq(A), q # <<>>
    PROVE  Count(q) = Count(Tail(q)) + (IF Head(q).kind = "buy" THEN 1 ELSE 0)
<1> DEFINE r == Tail(q)
           f == [k \in Buys(r) |-> k + 1]
           S == Buys(q) \ {1}
<1>1. /\ r \in Seq(A) /\ Len(r) = Len(q) - 1 /\ Len(q) \in Nat /\ Len(q) > 0
      /\ \A k \in 1 .. Len(r) : r[k] = q[k + 1]
    BY HeadTailProperties, EmptySeq
<1>2. DOMAIN r = 1 .. Len(q) - 1 /\ DOMAIN q = 1 .. Len(q)
    BY <1>1
<1> HIDE DEF r
<1>3. \A k : k \in S <=> k - 1 \in Buys(r) /\ k \in Int
    BY <1>1, <1>2 DEF Buys
<1>4. f \in Bijection(Buys(r), S)
  <2>1. \A k \in Buys(r) : k \in Int /\ k + 1 \in S
      BY <1>1, <1>2, <1>3 DEF Buys
  <2>2. f \in Injection(Buys(r), S)
      BY <2>1 DEF Injection, IsInjective
  <2>3. f \in Surjection(Buys(r), S)
    <3>1. ASSUME NEW k \in S PROVE \E j \in Buys(r) : f[j] = k
        BY <1>3
    <3> QED BY <2>1, <3>1 DEF Surjection
  <2> QED BY <2>2, <2>3 DEF Bijection
<1>5. IsFiniteSet(Buys(r)) /\ IsFiniteSet(Buys(q))
    BY <1>1, CountTyped
<1>6. Cardinality(S) = Count(r) /\ IsFiniteSet(S)
  <2>1. ExistsBijection(Buys(r), S)
      BY <1>4 DEF ExistsBijection
  <2> QED BY <1>5, <2>1, FS_Bijection DEF Count
<1>7. CASE Head(q).kind = "buy"
  <2>1. Buys(q) = S \cup {1} /\ 1 \notin S
      BY <1>1, <1>2, <1>7 DEF Buys
  <2> QED BY <1>5, <1>6, <1>7, <2>1, FS_AddElement DEF Count, r
<1>8. CASE Head(q).kind # "buy"
  <2>1. Buys(q) = S
      BY <1>1, <1>2, <1>8 DEF Buys
  <2>2. Count(r) \in Nat
      BY <1>1, CountTyped
  <2>3. Count(q) = Count(r)
      BY <1>6, <2>1 DEF Count
  <2> QED BY <1>8, <2>2, <2>3 DEF r
<1> QED BY <1>7, <1>8

\* The counts of purchases are whole numbers, ...
LEMMA OwedTyped ==
    ASSUME TypeOK
    PROVE  /\ LaneBuys \in Nat /\ Count(wire) \in Nat /\ Begun \in Int
           /\ Outstanding \in Nat /\ Owed \in Int
           /\ Slack \in {0, 1} /\ Due \in Nat /\ Brought \in Int
<1> USE DEF TypeOK
<1>1. LaneBuys \in Nat /\ Count(wire) \in Nat
    BY CountTyped DEF LanesOK, Threads, LaneBuys
<1>2. Begun \in Int
    BY Facts DEF Begun, LocalsOK, Threads
<1>3. Outstanding \in Nat /\ Owed \in Int
    BY <1>1, <1>2 DEF Outstanding, Owed, GoldOK
<1>4. Due \in Nat
    BY DEF Due, LocalsOK, Threads
<1>5. Brought \in Int
    BY Facts DEF Brought, GoldOK, BuyerOK
<1> QED BY <1>1, <1>2, <1>3, <1>4, <1>5 DEF Slack

Numbers == Owed \in Int /\ Slack \in {0, 1} /\ Due \in Nat /\ Brought \in Int

\* ... after a step as before it.
LEMMA OwedTypedNext == TypeOK' => Numbers'
<1>1. TypeOK => Numbers
    BY OwedTyped DEF Numbers
<1> QED BY <1>1, PTL

\* A task put in a lane.
LEMMA EnqueueCounts ==
    ASSUME TypeOK, NEW t \in Threads, NEW task \in TasksOf(Items \cup {NoItem}),
           Enqueue(t, task)
    PROVE  LaneBuys' = LaneBuys + (IF task.kind = "buy" THEN 1 ELSE 0)
<1>1. /\ lane \in [Threads -> Seq(TasksOf(Items \cup {NoItem}))]
      /\ lane' = [lane EXCEPT ![t] = Append(lane[t], task)]
    BY DEF TypeOK, LanesOK, Enqueue
<1>2. Count(lane'[t]) = Count(lane[t]) + (IF task.kind = "buy" THEN 1 ELSE 0)
    BY <1>1, CountAppend
<1>3. \A u \in Threads : Count(lane[u]) \in Nat /\ (u # t => lane'[u] = lane[u])
    BY <1>1, CountTyped
<1>4. LaneBuys' = Count(lane'["bot"]) + Count(lane'["bridge"])
    BY DEF LaneBuys, Count, Buys
<1> QED BY <1>2, <1>3, <1>4 DEF LaneBuys, Threads

\* A task taken from a lane.
LEMMA DequeueCounts ==
    ASSUME TypeOK, NEW t \in Threads, lane[t] # <<>>, lane' = [lane EXCEPT ![t] = Tail(@)]
    PROVE  LaneBuys' = LaneBuys - (IF Head(lane[t]).kind = "buy" THEN 1 ELSE 0)
<1>1. /\ lane \in [Threads -> Seq(TasksOf(Items \cup {NoItem}))]
      /\ lane' = [lane EXCEPT ![t] = Tail(lane[t])]
    BY DEF TypeOK, LanesOK
<1>2. Count(lane[t]) = Count(lane'[t]) + (IF Head(lane[t]).kind = "buy" THEN 1 ELSE 0)
      /\ Count(lane'[t]) \in Nat
  <2>1. lane'[t] = Tail(lane[t]) /\ lane[t] \in Seq(TasksOf(Items \cup {NoItem}))
      BY <1>1
  <2>2. Tail(lane[t]) \in Seq(TasksOf(Items \cup {NoItem}))
      BY <2>1, HeadTailProperties
  <2>3. Count(Tail(lane[t])) \in Nat
      BY <2>2, CountTyped
  <2> QED BY <2>1, <2>3, CountTail
<1>3. \A u \in Threads : Count(lane[u]) \in Nat /\ (u # t => lane'[u] = lane[u])
    BY <1>1, CountTyped
<1>4. LaneBuys' = Count(lane'["bot"]) + Count(lane'["bridge"])
    BY DEF LaneBuys, Count, Buys
<1> QED BY <1>2, <1>3, <1>4 DEF LaneBuys, Threads

\* Steps that leave lanes, wire and payments alone.
LEMMA OwedElsewhere ==
    ASSUME TypeOK, UNCHANGED <<lane, wire, paid>>, left'["bridge"] = left["bridge"],
           pc'["bridge"] = pc["bridge"] \/ pc'["bridge"] = "next"
    PROVE  Owed' <= Owed /\ (pc'["bridge"] = pc["bridge"] => Owed' = Owed)
<1>1. LaneBuys' = LaneBuys /\ Count(wire)' = Count(wire)
    BY DEF LaneBuys, Count, Buys
<1>2. Begun' = Begun
    BY DEF Begun
<1>3. Outstanding' <= Outstanding /\ (pc'["bridge"] = pc["bridge"] => Outstanding' = Outstanding)
      /\ Outstanding' \in Int
    BY <1>1, OwedTyped DEF Outstanding
<1> QED BY <1>2, <1>3, OwedTyped DEF Owed, TypeOK, GoldOK

\* A trade of the bridge is counted from the moment it begins.
LEMMA BridgeOwes ==
    ASSUME TypeOK, TradeStep("bridge")
    PROVE  Owed' <= Owed
<1> USE DEF TypeOK
<1>0. "bridge" \in Threads /\ ~Selling("bridge")
    BY DEF Threads, Selling
<1>1. CASE NextTrade("bridge")
  <2>1. /\ pc["bridge"] = "next" /\ pc'["bridge"] # "next"
        /\ left'["bridge"] = left["bridge"] - 1
        /\ UNCHANGED <<lane, wire, paid>>
      BY <1>0, <1>1 DEF NextTrade, Goto, PcOK, LocalsOK, world
  <2>2. LaneBuys' = LaneBuys /\ Count(wire)' = Count(wire)
      BY <2>1 DEF LaneBuys, Count, Buys
  <2>3. Begun' = Begun + 1
    <3>1. left["bridge"] \in Int /\ MaxTrades \in Int
        BY <1>0, Facts DEF LocalsOK
    <3> QED BY <2>1, <3>1 DEF Begun
  <2>4. Outstanding' = Outstanding + 1
    <3>1. Outstanding = LaneBuys + Count(wire)
        BY <2>1, OwedTyped DEF Outstanding
    <3>2. Outstanding' = LaneBuys + Count(wire) + 1
        BY <2>1, <2>2 DEF Outstanding
    <3> QED BY <3>1, <3>2
  <2>5. Outstanding \in Int /\ Begun \in Int /\ paid \in Int
      BY OwedTyped DEF GoldOK
  <2> QED BY <2>1, <2>3, <2>4, <2>5 DEF Owed
<1>2. CASE Ask("bridge")
  <2> DEFINE task == Task("ask buy", Subject("bridge"), 0, "bridge")
  <2>1. /\ Enqueue("bridge", task) /\ task.kind # "buy"
        /\ task \in TasksOf(Items \cup {NoItem})
      BY <1>0, <1>2, SubjectTyped DEF Ask, Task, TasksOf, Asks
  <2> HIDE DEF task
  <2>2. LaneBuys' = LaneBuys
      BY <1>0, <2>1, EnqueueCounts, OwedTyped
  <2>3. /\ pc["bridge"] = "ask" /\ pc'["bridge"] = "poll"
        /\ UNCHANGED <<wire, paid, left>>
      BY <1>0, <1>2 DEF Ask, Goto, PcOK
  <2>4. Begun' = Begun /\ Count(wire)' = Count(wire)
      BY <2>3 DEF Begun, Count, Buys
  <2>5. Outstanding' = Outstanding
      BY <2>2, <2>3, <2>4 DEF Outstanding
  <2> QED BY <2>3, <2>4, <2>5, OwedTyped DEF Owed
<1>3. CASE Transact("bridge")
  <2> DEFINE task == Task("buy", got["bridge"][1], got["bridge"][2], "bridge")
  <2>0. got["bridge"] \in (Items \cup {NoItem}) \X Nat
      BY <1>0 DEF LocalsOK
  <2>1. /\ Enqueue("bridge", task) /\ task.kind = "buy"
        /\ task \in TasksOf(Items \cup {NoItem})
      BY <1>0, <1>3, <2>0 DEF Transact, Task, TasksOf
  <2> HIDE DEF task
  <2>2. LaneBuys' = LaneBuys + 1
      BY <1>0, <2>1, EnqueueCounts, OwedTyped
  <2>3. /\ pc["bridge"] = "transact" /\ pc'["bridge"] = "next"
        /\ UNCHANGED <<wire, paid, left>>
      BY <1>0, <1>3 DEF Transact, Goto, PcOK
  <2>4. Begun' = Begun /\ Count(wire)' = Count(wire)
      BY <2>3 DEF Begun, Count, Buys
  <2>5. Outstanding' = Outstanding
      BY <2>2, <2>3, <2>4, OwedTyped DEF Outstanding
  <2> QED BY <2>3, <2>4, <2>5, OwedTyped DEF Owed
<1>4. CASE UNCHANGED <<lane, wire, paid, left>> /\ pc["bridge"] # "next"
  <2>1. Begun' = Begun /\ LaneBuys' = LaneBuys /\ Count(wire)' = Count(wire)
      BY <1>4 DEF Begun, LaneBuys, Count, Buys
  <2>2. Outstanding' <= Outstanding /\ Outstanding' \in Int
      BY <1>4, <2>1, OwedTyped DEF Outstanding
  <2> QED BY <1>4, <2>1, <2>2, OwedTyped DEF Owed, GoldOK
<1> QED
    BY <1>1, <1>2, <1>3, <1>4 DEF TradeStep, Reset, ResetQuote, ResetCost, ReadInitialId,
       PollSees, PollTimesOut, ReadCost, ReadItem, TransactRefused, GiveUp, world, Selling

\* The game thread and the server turn owed purchases into paid ones, or
\* lose them.
LEMMA GameOwes ==
    ASSUME TypeOK, GameStep
    PROVE  Owed' <= Owed
<1> USE DEF TypeOK
<1>0. UNCHANGED <<pc, left>>
    BY DEF GameStep, RunTask, QuoteArrives, StoreQuote, TradeArrives
<1>1. Begun' = Begun /\ Begun \in Int
    BY <1>0, OwedTyped DEF Begun
<1>2. CASE \E t \in Threads : RunTask(t)
  <2>1. PICK t \in Threads : RunTask(t)
      BY <1>2
  <2> DEFINE task == Head(lane[t])
             one == IF task.kind = "buy" THEN 1 ELSE 0
  <2>2. lane[t] \in Seq(TasksOf(Items \cup {NoItem})) /\ lane[t] # <<>> /\ paid' = paid
      BY <2>1 DEF RunTask, LanesOK
  <2>3. task \in TasksOf(Items \cup {NoItem})
      BY <2>2, HeadTailProperties
  <2>4. LaneBuys' = LaneBuys - one
      BY <2>1, <2>2, DequeueCounts DEF RunTask
  <2>5. wire' = (IF task.item = NoItem THEN wire ELSE Append(wire, task))
      BY <2>1 DEF RunTask
  <2>6. Count(wire') <= Count(wire) + one /\ Count(wire') \in Int
    <3>1. CASE task.item = NoItem
        BY <2>5, <3>1, OwedTyped
    <3>2. CASE task.item # NoItem
      <4>1. task \in TasksOf(Items)
          BY <2>3, <3>2 DEF TasksOf
      <4>2. Count(Append(wire, task)) = Count(wire) + one
          BY <4>1, CountAppend DEF LanesOK
      <4> QED BY <2>5, <3>2, <4>2, OwedTyped
    <3> QED BY <3>1, <3>2
  <2>7. Count(wire)' = Count(wire')
      BY DEF Count, Buys
  <2> HIDE DEF one, task
  <2>8. one \in {0, 1}
      BY DEF one
  <2>9. Outstanding' <= Outstanding /\ Outstanding' \in Int
      BY <1>0, <2>4, <2>6, <2>7, <2>8, OwedTyped DEF Outstanding
  <2>10. PICK p \in Int, u \in Int, v \in Int, b \in Int :
            p = paid /\ u = Outstanding /\ v = Outstanding' /\ b = Begun /\ v <= u
      BY <1>1, <2>9, OwedTyped DEF GoldOK
  <2>11. p + v - b <= p + u - b
    <3>1. v <= u
        BY <2>10
    <3> QED BY <3>1
  <2>12. Owed = p + u - b /\ Owed' = p + v - b
      BY <1>1, <2>2, <2>10 DEF Owed
  <2> QED BY <2>11, <2>12, Zenon
<1>3. CASE QuoteArrives \/ TradeArrives
  <2> DEFINE one == IF Head(wire).kind = "buy" THEN 1 ELSE 0
  <2>1. wire # <<>> /\ wire' = Tail(wire) /\ lane' = lane
      BY <1>3 DEF QuoteArrives, TradeArrives
  <2>2. Count(wire') = Count(wire) - one /\ Count(wire') \in Int
    <3>1. Tail(wire) \in Seq(TasksOf(Items))
        BY <2>1, HeadTailProperties DEF LanesOK
    <3>2. Count(Tail(wire)) \in Nat
        BY <3>1, CountTyped
    <3> QED BY <2>1, <3>2, CountTail, OwedTyped DEF LanesOK
  <2>3. paid' \in Int /\ paid' <= paid + one
    <3>1. CASE paid' = paid
        BY <3>1 DEF GoldOK
    <3>2. CASE paid' # paid
      <4>1. /\ Accepts(Head(wire)) /\ Head(wire).item = Wanted /\ paid' = paid + 1
          BY <1>3, <3>2 DEF QuoteArrives, TradeArrives
      <4>2. Head(wire).kind = "buy"
          BY <4>1, Facts DEF Accepts
      <4> QED BY <4>1, <4>2 DEF GoldOK
    <3> QED BY <3>1, <3>2
  <2>4. Count(wire)' = Count(wire') /\ LaneBuys' = LaneBuys
      BY <2>1 DEF Count, Buys, LaneBuys
  <2>5. one \in {0, 1}
      OBVIOUS
  <2> HIDE DEF one
  <2>6. Outstanding' = Outstanding - one /\ Outstanding' \in Int
      BY <1>0, <2>2, <2>4, <2>5, OwedTyped DEF Outstanding
  <2> QED BY <1>1, <2>3, <2>5, <2>6, OwedTyped DEF Owed, GoldOK
<1>4. CASE StoreQuote
  <2>1. UNCHANGED <<lane, wire, paid>>
      BY <1>4 DEF StoreQuote, world
  <2> QED BY <1>0, <2>1, OwedElsewhere
<1> QED BY <1>2, <1>3, <1>4 DEF GameStep

\* An attempt that goes on: what is owed grows only with the purchase that
\* the bot now waits for, and was due.
LEMMA OverbuyCarried ==
    ASSUME TypeOK, TypeOK', OverbuyInv, result = "buying", result' = "buying",
           attempt' = attempt, Owed' - Slack' <= Owed - Slack, Brought <= Brought',
           Owed' + Due' <= Owed + Due
    PROVE  OverbuyInv'
<1>1. /\ Owed \in Int /\ Slack \in Int /\ Due \in Int /\ Brought \in Int
      /\ Owed' \in Int /\ Slack' \in Int /\ Due' \in Int /\ Brought' \in Int
      /\ attempt \in Int /\ Attempts \in Int /\ Want \in Int
    BY OwedTyped, OwedTypedNext, Facts DEF Numbers, TypeOK, BuyerOK
<1>2. Pack * (Owed' - attempt' - Slack') <= Brought'
  <2>1. /\ Owed - attempt - Slack \in Int /\ Owed' - attempt - Slack' \in Int
        /\ Owed' - attempt - Slack' <= Owed - attempt - Slack
    <3>1. PICK a \in Int, b \in Int, c \in Int, d \in Int, n \in Int :
            a = Owed' /\ b = Slack' /\ c = Owed /\ d = Slack /\ n = attempt
        BY <1>1
    <3>2. a - b <= c - d
        BY <3>1
    <3>3. a - n - b <= c - n - d /\ a - n - b \in Int /\ c - n - d \in Int
        BY <3>2
    <3> QED BY <3>1, <3>3
  <2>2. Pack * (Owed - attempt - Slack) <= Brought
      BY DEF OverbuyInv
  <2>3. Pack * (Owed' - attempt - Slack') <= Brought
      BY <1>1, <2>1, <2>2, ScaledBound
  <2>4. Pack * (Owed' - attempt - Slack') \in Int
      BY <2>1, ScaledMonotone
  <2> QED BY <1>1, <2>3, <2>4
<1>3. Pack * (Owed' + Due' - Attempts) < Want
  <2>1. /\ Owed + Due - Attempts \in Int /\ Owed' + Due' - Attempts \in Int
        /\ Owed' + Due' - Attempts <= Owed + Due - Attempts
    <3>1. PICK a \in Int, b \in Int, c \in Int, d \in Int, n \in Int :
            a = Owed' /\ b = Due' /\ c = Owed /\ d = Due /\ n = Attempts
        BY <1>1
    <3>2. a + b <= c + d
        BY <3>1
    <3>3. a + b - n <= c + d - n /\ a + b - n \in Int /\ c + d - n \in Int
        BY <3>2
    <3> QED BY <3>1, <3>3
  <2>2. Pack * (Owed + Due - Attempts) < Want
      BY DEF OverbuyInv
  <2> QED BY <1>1, <2>1, <2>2, ScaledBound
<1> QED BY <1>2, <1>3 DEF OverbuyInv

\* Before the purchase and after it.
LEMMA OverbuyOutside ==
    ASSUME TypeOK, TypeOK', OverbuyInv, result # "buying", result' = result, Owed' <= Owed,
           pc["bot"] = "done" => pc'["bot"] = "done"
    PROVE  OverbuyInv'
<1>1. Owed \in Int /\ Owed' \in Int /\ Attempts \in Int /\ Want \in Int
    BY OwedTyped, OwedTypedNext, Facts DEF Numbers
<1>2. CASE result = "none"
    BY <1>1, <1>2 DEF OverbuyInv
<1>3. CASE result # "none"
  <2>1. Due = 0 /\ Due' = 0
      BY DEF Due
  <2>2. /\ Owed + Due - Attempts \in Int /\ Owed' + Due' - Attempts \in Int
        /\ Owed' + Due' - Attempts <= Owed + Due - Attempts
    <3>1. PICK a \in Int, b \in Int, c \in Int, d \in Int, n \in Int :
            a = Owed' /\ b = Due' /\ c = Owed /\ d = Due /\ n = Attempts
        BY <1>1, <2>1
    <3>2. a <= c /\ b = 0 /\ d = 0
        BY <3>1, <2>1
    <3>3. a + b - n <= c + d - n /\ a + b - n \in Int /\ c + d - n \in Int
        BY <3>2
    <3> QED BY <3>1, <3>3
  <2>3. Pack * (Owed + Due - Attempts) < Want
      BY <1>3 DEF OverbuyInv
  <2>5. Pack * (Owed' + Due' - Attempts) < Want
      BY <1>1, <2>2, <2>3, ScaledBound
  <2> QED BY <1>3, <2>5 DEF OverbuyInv, TypeOK, BuyerOK
<1> QED BY <1>2, <1>3

\* Whatever the others do, as long as gold and bag stay.
LEMMA OverbuyElsewhere ==
    ASSUME TypeOK, TypeOK', OverbuyInv, UNCHANGED <<buyer, gold, bag, before, paid>>,
           pc'["bot"] = pc["bot"], left'["bot"] = left["bot"], Owed' <= Owed
    PROVE  OverbuyInv'
<1>1. Slack' = Slack /\ Due' = Due /\ Brought' = Brought
    BY DEF Slack, Due, Brought, buyer
<1>2. Owed' - Slack' <= Owed - Slack /\ Owed' + Due' <= Owed + Due /\ Brought <= Brought'
    BY <1>1, OwedTyped, OwedTypedNext DEF Numbers
<1>3. CASE result = "buying"
    BY <1>2, <1>3, OverbuyCarried DEF buyer
<1>4. CASE result # "buying"
    BY <1>4, OverbuyOutside DEF buyer
<1> QED BY <1>3, <1>4

\* The bot's steps of a trade.
LEMMA BotTrades ==
    ASSUME TypeOK, TypeOK', OverbuyInv, TradeStep("bot")
    PROVE  OverbuyInv'
<1> USE DEF TypeOK
<1> DEFINE busy == pc["bot"] \notin {"next", "watch", "attempt", "done"}
           busyNext == pc'["bot"] \notin {"next", "watch", "attempt", "done"}
<1>0. "bot" \in Threads
    BY DEF Threads
<1>1. UNCHANGED <<buyer, gold, bag, wire, paid>> /\ pc'["bridge"] = pc["bridge"]
      /\ left'["bridge"] = left["bridge"] /\ pc["bot"] # "done"
  <2>1. \E label : Goto("bot", label)
      BY DEF TradeStep, NextTrade, Reset, ResetQuote, ResetCost, ReadInitialId, Ask,
         PollSees, PollTimesOut, ReadCost, ReadItem, Transact, TransactRefused, GiveUp
  <2>2. pc'["bridge"] = pc["bridge"]
      BY <2>1 DEF Goto, PcOK, Threads
  <2>3. left'["bridge"] = left["bridge"]
      BY DEF TradeStep, NextTrade, Reset, ReadInitialId, Ask, PollSees, PollTimesOut,
         ReadCost, ReadItem, Transact, TransactRefused, GiveUp, LocalsOK, Threads
  <2>4. UNCHANGED <<buyer, gold, bag, wire, paid>> /\ pc["bot"] # "done"
      BY DEF TradeStep, NextTrade, Reset, ResetQuote, ResetCost, ReadInitialId, Ask,
         PollSees, PollTimesOut, ReadCost, ReadItem, Transact, TransactRefused, world
  <2> QED BY <2>2, <2>3, <2>4
<1>2. Begun' = Begun /\ Count(wire)' = Count(wire)
    BY <1>1 DEF Begun, Count, Buys
<1>3. CASE Transact("bot")
  <2> DEFINE task == Task(IF Selling("bot") THEN "sell" ELSE "buy",
                          got["bot"][1], got["bot"][2], "bot")
             one == IF Selling("bot") THEN 0 ELSE 1
  <2>0. got["bot"] \in (Items \cup {NoItem}) \X Nat
      BY <1>0 DEF LocalsOK
  <2>1. /\ Enqueue("bot", task) /\ task \in TasksOf(Items \cup {NoItem})
        /\ task.kind = (IF Selling("bot") THEN "sell" ELSE "buy")
      BY <1>3, <2>0 DEF Transact, Task, TasksOf, Threads
  <2> HIDE DEF task
  <2>2. LaneBuys' = LaneBuys + one
      BY <1>0, <2>1, EnqueueCounts
  <2>3. Owed' = Owed + one
    <3>1. Outstanding' = Outstanding + one
        BY <1>1, <1>2, <2>2, OwedTyped DEF Outstanding
    <3> QED BY <1>1, <1>2, <3>1, OwedTyped DEF Owed, GoldOK
  <2>4. busy /\ pc'["bot"] = "watch" /\ before' = gold /\ gold' = gold /\ left' = left
      BY <1>0, <1>1, <1>3 DEF Transact, Goto, PcOK
  <2>5. CASE result = "buying"
    <3>1. Slack = 0 /\ Slack' = 1
        BY <2>4 DEF Slack, GoldOK
    <3>2. Due = left["bot"] + 1 /\ Due' = left["bot"]
      <4>1. Due' = left["bot"] + 0
          BY <1>1, <2>4, <2>5 DEF Due, buyer
      <4>2. left["bot"] \in Nat
          BY <1>0 DEF LocalsOK
      <4> QED BY <2>4, <2>5, <4>1, <4>2 DEF Due
    <3>3. Brought' = Brought /\ one = 1
        BY <1>1, <2>4, <2>5 DEF Brought, buyer, Selling
    <3>4. left["bot"] \in Nat
        BY <1>0 DEF LocalsOK
    <3> QED BY <1>1, <2>3, <2>5, <3>1, <3>2, <3>3, <3>4, OwedTyped, OverbuyCarried DEF buyer
  <2>6. CASE result = "none"
    <3>1. one = 0
        BY <2>6 DEF Selling
    <3> QED BY <1>1, <2>3, <2>6, <3>1, OwedTyped, OverbuyOutside DEF buyer
  <2>7. CASE result \in {"true", "false"}
      BY <1>1, <2>7 DEF OverbuyInv
  <2> QED BY <2>5, <2>6, <2>7 DEF BuyerOK
<1>4. CASE ~Transact("bot")
  <2>1. Owed' = Owed
    <3>1. LaneBuys' = LaneBuys
      <4>1. CASE lane' = lane
          BY <4>1 DEF LaneBuys, Count, Buys
      <4>2. CASE Ask("bot")
        <5> DEFINE task == Task(IF Selling("bot") THEN "ask sell" ELSE "ask buy",
                                Subject("bot"), 0, "bot")
        <5>1. task \in TasksOf(Items \cup {NoItem}) /\ task.kind # "buy"
            BY SubjectTyped DEF Task, TasksOf, Asks, Threads
        <5>2. Enqueue("bot", task)
            BY <4>2 DEF Ask
        <5> HIDE DEF task
        <5> QED BY <1>0, <5>1, <5>2, EnqueueCounts, OwedTyped
      <4> QED BY <1>4, <4>1, <4>2 DEF TradeStep, NextTrade, Reset, ReadInitialId, PollSees,
              PollTimesOut, ReadCost, ReadItem, TransactRefused, world
    <3> QED BY <1>1, <1>2, <3>1 DEF Outstanding, Owed
  <2>2. pc["bot"] # "watch" /\ before' = before
      BY <1>4 DEF TradeStep, NextTrade, Reset, ResetQuote, ResetCost, ReadInitialId, Ask,
         PollSees, PollTimesOut, ReadCost, ReadItem, TransactRefused
  <2>3. \/ pc["bot"] = "next" /\ left["bot"] > 0 /\ busyNext /\ left'["bot"] = left["bot"] - 1
        \/ busy /\ busyNext /\ left'["bot"] = left["bot"]
        \/ busy /\ pc'["bot"] = "next" /\ left'["bot"] = 0
    <3>1. ASSUME NEW label, Goto("bot", label) PROVE pc'["bot"] = label
        BY <1>0, <3>1 DEF Goto, PcOK
    <3>2. CASE NextTrade("bot")
        BY <1>0, <3>1, <3>2 DEF NextTrade, LocalsOK
    <3>3. CASE GiveUp("bot") /\ busy
        BY <1>0, <3>1, <3>3 DEF GiveUp, LocalsOK
    <3>4. CASE busy /\ busyNext /\ left' = left
        BY <3>4
    <3> QED BY <1>4, <3>1, <3>2, <3>3, <3>4
            DEF TradeStep, Reset, ResetQuote, ResetCost, ReadInitialId, Ask,
                PollSees, PollTimesOut, ReadCost, ReadItem, TransactRefused
  <2>4. left["bot"] \in Nat
      BY <1>0 DEF LocalsOK
  <2> HIDE DEF busy, busyNext
  <2>5. Slack = 0 /\ Slack' \in {0, 1}
      BY <2>2, <2>3, <2>4 DEF Slack, busy
  <2>6. Brought' = Brought
      BY <1>1, <2>3 DEF Brought, buyer, busy, busyNext
  <2>7. Due' <= Due
      BY <1>1, <2>2, <2>3, <2>4 DEF Due, buyer, busy, busyNext
  <2>8. CASE result = "buying"
    <3>1. Owed' - Slack' <= Owed - Slack /\ Owed' + Due' <= Owed + Due /\ Brought <= Brought'
        BY <2>1, <2>5, <2>6, <2>7, OwedTyped, OwedTypedNext DEF Numbers
    <3> QED BY <1>1, <2>8, <3>1, OverbuyCarried DEF buyer
  <2>9. CASE result # "buying"
      BY <1>1, <2>1, <2>9, OwedTyped, OverbuyOutside DEF buyer
  <2> QED BY <2>8, <2>9
<1> QED BY <1>3, <1>4

\* The bot's wait for its purchase to arrive.
LEMMA BotWatches ==
    ASSUME TypeOK, TypeOK', OverbuyInv, WatchSees \/ WatchTimesOut
    PROVE  OverbuyInv'
<1> USE DEF TypeOK
<1>0. "bot" \in Threads /\ "bridge" \in Threads /\ "bot" # "bridge"
    BY DEF Threads
<1>1. /\ pc["bot"] = "watch" /\ pc'["bot"] = "next" /\ pc'["bridge"] = pc["bridge"]
      /\ left'["bridge"] = left["bridge"]
      /\ UNCHANGED <<lane, wire, gold, bag, buyer, paid>>
    BY <1>0 DEF WatchSees, WatchTimesOut, GiveUp, Goto, PcOK, LocalsOK, world
<1>2. Owed' = Owed
    BY <1>1, OwedElsewhere
<1>3. left["bot"] \in Nat /\ left'["bot"] \in Nat
    BY <1>0 DEF LocalsOK
<1>4. CASE result = "buying"
  <2>1. Slack <= Slack' /\ Due' <= Due
    <3>1. CASE WatchSees
      <4>1. gold < before /\ left' = left
          BY <1>4, <3>1 DEF WatchSees, GoldMoved, Selling
      <4>2. Slack = 0
          BY <1>1, <4>1 DEF Slack, GoldOK, LocalsOK
      <4>3. Slack' \in {0, 1} /\ Due' = Due
          BY <1>1, <1>4, <4>1 DEF Slack, Due, buyer
      <4> QED BY <4>2, <4>3, OwedTyped
    <3>2. CASE WatchTimesOut
      <4>1. left'["bot"] = 0
          BY <1>0, <3>2 DEF WatchTimesOut, GiveUp, LocalsOK
      <4>2. Slack' = 1 /\ Due' = 0
          BY <1>1, <1>4, <4>1 DEF Slack, Due, buyer
      <4> QED BY <4>2, OwedTyped
    <3> QED BY <3>1, <3>2
  <2>2. Brought' = Brought
      BY <1>1 DEF Brought, buyer
  <2>3. Owed' - Slack' <= Owed - Slack /\ Owed' + Due' <= Owed + Due /\ Brought <= Brought'
      BY <1>2, <2>1, <2>2, OwedTyped, OwedTypedNext DEF Numbers
  <2> QED BY <1>1, <1>4, <2>3, OverbuyCarried DEF buyer
<1>5. CASE result # "buying"
    BY <1>1, <1>2, <1>5, OwedTyped, OverbuyOutside DEF buyer
<1> QED BY <1>4, <1>5

\* The bot's own steps between two attempts.
LEMMA PurchaseBegins ==
    ASSUME TypeOK, TypeOK', OverbuyInv, StartBuying
    PROVE  OverbuyInv'
<1> USE DEF TypeOK
<1>0. "bot" \in Threads /\ "bridge" \in Threads /\ "bot" # "bridge"
    BY DEF Threads
<1>1. /\ pc'["bot"] = "attempt" /\ pc'["bridge"] = pc["bridge"] /\ result = "none"
      /\ result' = "buying" /\ remaining' = Want /\ attempt' = 0
      /\ UNCHANGED <<lane, wire, left, paid>>
    BY <1>0 DEF StartBuying, Selling, Goto, PcOK, world
<1>2. Owed' = Owed /\ Owed <= 0 /\ Owed \in Int
    BY <1>1, OwedElsewhere, OwedTyped DEF OverbuyInv
<1>3. Slack' = 0 /\ Due' = 0 /\ Brought' = 0
    BY <1>1, Facts DEF Slack, Due, Brought
<1>4. PICK o \in Int : o = Owed' /\ o <= 0
    BY <1>2
<1>5. Pack * (o - 0 - 0) <= 0 /\ Pack * (o + 0 - Attempts) < Want
  <2>1. Pack * 0 = 0
      BY Facts
  <2>2. o <= 0 /\ Want > 0 /\ Want \in Int
      BY <1>4, Facts
  <2>3. PICK m \in Int : m = Attempts /\ m > 0
      BY Facts
  <2>4. m > 0
      BY <2>3
  <2>5. o - 0 - 0 \in Int /\ o - 0 - 0 <= 0 /\ o + 0 - m \in Int /\ o + 0 - m <= 0
      BY <2>2, <2>4
  <2> QED BY <2>1, <2>2, <2>3, <2>5, ScaledBound
<1>6. Pack * (Owed' - attempt' - Slack') <= Brought' /\ Pack * (Owed' + Due' - Attempts) < Want
    BY <1>1, <1>3, <1>4, <1>5
<1> QED BY <1>1, <1>6 DEF OverbuyInv

\* An attempt that begins buys no more than is missing.
LEMMA AttemptBegins ==
    ASSUME TypeOK, TypeOK', OverbuyInv, OpenTrader
    PROVE  OverbuyInv'
<1> USE DEF TypeOK
<1>0. "bot" \in Threads /\ "bridge" \in Threads /\ "bot" # "bridge"
    BY DEF Threads
<1>1. /\ pc["bot"] = "attempt" /\ pc'["bridge"] = pc["bridge"] /\ result = "buying"
      /\ left'["bridge"] = left["bridge"]
      /\ UNCHANGED <<lane, wire, gold, bag, attempt, remaining, paid>>
    BY <1>0 DEF OpenTrader, Goto, PcOK, LocalsOK, world
<1>2. Owed' = Owed
    BY <1>1, OwedElsewhere
<1>3. Slack = 0 /\ Due = 0 /\ Brought = Want - remaining
    BY <1>1, Facts DEF Slack, Due, Brought, BuyerOK
<1>4. /\ remaining \in Int /\ remaining > 0 /\ attempt \in Int /\ attempt < Attempts
      /\ Attempts \in Int /\ Want \in Int /\ Pack \in Int
    BY <1>1, Facts DEF BuyerOK
<1>5. PICK o \in Int, r \in Int, n \in Int :
        o = Owed /\ r = remaining /\ n = attempt /\ r > 0 /\ n < Attempts
    BY <1>4, OwedTyped
<1>6. Pack * (o - n) <= Want - r
  <2>1. Pack * (o - n - 0) <= Want - r
      BY <1>1, <1>3, <1>5 DEF OverbuyInv
  <2> QED BY <1>5, <2>1
<1>7. CASE result' = "buying"
  <2>1. /\ had' = bag[Wanted] /\ left' = [left EXCEPT !["bot"] = Packs(remaining)]
        /\ pc'["bot"] = "next"
      BY <1>0, <1>7 DEF OpenTrader, Goto, PcOK
  <2>2. PICK p \in Int : p = Packs(r) /\ Pack * p < r + Pack /\ p >= 0
      BY <1>5, PacksBound
  <2>3. left'["bot"] = p /\ p # 0
    <3>1. left'["bot"] = p
        BY <1>0, <1>5, <2>1, <2>2 DEF LocalsOK
    <3>2. Packs(r) # 0
      <4>1. \A x, y \in Nat : y > 0 /\ x >= y => x \div y # 0
          OBVIOUS
      <4> QED BY <1>5, <4>1, Facts DEF Packs
    <3> QED BY <2>2, <3>1, <3>2
  <2>4. Slack' = 0 /\ Due' = p /\ Brought' = Want - r
    <3>1. Slack' = 0
        BY <2>1, <2>3 DEF Slack
    <3>2. Due' = p
        BY <1>7, <2>1, <2>2, <2>3 DEF Due
    <3>3. bag[Wanted] \in Int
        BY DEF GoldOK
    <3>4. Brought' = Want - r
        BY <1>1, <1>4, <1>5, <2>1, <3>3 DEF Brought
    <3> QED BY <3>1, <3>2, <3>4
  <2>5. Pack * (o - n - 0) <= Want - r
      BY <1>5, <1>6
  <2>6. Pack * (o + p - Attempts) < Want
    <3>1. Pack * ((o - n) + p) = Pack * (o - n) + Pack * p
          /\ Pack * (o - n) \in Int /\ Pack * p \in Int
      <4>1. o - n \in Int
          OBVIOUS
      <4> QED BY <4>1, ScaledSum
    <3>2. Pack * ((o - n) + p) < Want + Pack
        BY <1>4, <1>5, <1>6, <2>2, <3>1
    <3>3. Pack * (((o - n) + p - 1) + 1) = Pack * ((o - n) + p - 1) + Pack * 1
          /\ Pack * ((o - n) + p - 1) \in Int
      <4>1. (o - n) + p - 1 \in Int /\ 1 \in Int
          OBVIOUS
      <4> QED BY <4>1, ScaledSum
    <3>4. ((o - n) + p - 1) + 1 = (o - n) + p /\ Pack * 1 = Pack
        BY <1>4, <1>5, <2>2
    <3>5. Pack * ((o - n) + p - 1) < Want
        BY <1>4, <3>2, <3>3, <3>4
    <3>6. o + p - Attempts <= (o - n) + p - 1 /\ o + p - Attempts \in Int
          /\ (o - n) + p - 1 \in Int
        BY <1>4, <1>5, <2>2
    <3> QED BY <1>4, <3>5, <3>6, ScaledBound
  <2>7. Pack * (Owed' - attempt' - Slack') <= Brought' /\ Pack * (Owed' + Due' - Attempts) < Want
      BY <1>1, <1>2, <1>5, <2>4, <2>5, <2>6
  <2> QED BY <1>7, <2>7 DEF OverbuyInv
<1>8. CASE result' # "buying"
  <2>1. result' = "false" /\ pc'["bot"] = "done"
      BY <1>0, <1>1, <1>8 DEF OpenTrader, Goto, PcOK
  <2>2. Due' = 0
      BY <1>8 DEF Due
  <2>3. Pack * (Owed' + Due' - Attempts) < Want
      BY <1>1, <1>2, <1>3, <2>2 DEF OverbuyInv
  <2> QED BY <1>8, <2>1, <2>3 DEF OverbuyInv
<1> QED BY <1>7, <1>8

\* An attempt that ends.
LEMMA AttemptEnds ==
    ASSUME TypeOK, TypeOK', OverbuyInv, CountGained
    PROVE  OverbuyInv'
<1> USE DEF TypeOK
<1>0. "bot" \in Threads /\ "bridge" \in Threads /\ "bot" # "bridge"
    BY DEF Threads
<1>1. /\ pc["bot"] = "next" /\ pc'["bridge"] = pc["bridge"] /\ result = "buying"
      /\ left["bot"] = 0 /\ attempt' = attempt + 1
      /\ UNCHANGED <<lane, wire, left, bag, had, paid>>
    BY <1>0 DEF CountGained, Goto, PcOK, world
<1>2. Owed' = Owed
    BY <1>1, OwedElsewhere
<1>3. Slack = 1 /\ Due = 0 /\ Brought = Want - remaining + (bag[Wanted] - had)
    BY <1>1 DEF Slack, Due, Brought
<1>4. Due' = 0
    BY <1>0, <1>1 DEF CountGained, Goto, PcOK, Due
<1>5. Pack * (Owed' + Due' - Attempts) < Want
    BY <1>1, <1>2, <1>3, <1>4 DEF OverbuyInv
<1>6. CASE result' = "buying"
  <2>1. remaining' = remaining - Gained /\ pc'["bot"] = "attempt"
      BY <1>0, <1>6 DEF CountGained, Goto, PcOK
  <2>2. PICK o \in Int, r \in Int, n \in Int, g \in Int, w \in Int :
          o = Owed /\ r = remaining /\ n = attempt /\ g = bag[Wanted] - had /\ w = Want
      BY OwedTyped, Facts DEF GoldOK, BuyerOK
  <2>3. Slack' = 0 /\ Brought' = w - (r - g)
      BY <2>1, <2>2, Facts DEF Slack, Brought, Gained
  <2>4. Pack * (o - n - 1) <= w - r + g
      BY <1>1, <1>3, <2>2 DEF OverbuyInv
  <2>5. o - (n + 1) - 0 = o - n - 1 /\ w - (r - g) = w - r + g
      BY <2>2
  <2>6. Pack * (Owed' - attempt' - Slack') <= Brought'
      BY <1>1, <1>2, <2>2, <2>3, <2>4, <2>5
  <2> QED BY <1>5, <1>6, <2>6 DEF OverbuyInv
<1>7. CASE result' # "buying"
  <2>1. result' \in {"true", "false"} /\ pc'["bot"] = "done"
      BY <1>0, <1>7 DEF CountGained, Goto, PcOK
  <2> QED BY <1>5, <1>7, <2>1 DEF OverbuyInv
<1> QED BY <1>6, <1>7

\* Gold that goes is a pack that came, or a purchase of something else that
\* is owed no more.
LEMMA TradeArrivesKept ==
    ASSUME TypeOK, TypeOK', OverbuyInv, TradeArrives
    PROVE  OverbuyInv'
<1> USE DEF TypeOK
<1>1. UNCHANGED <<lane, pc, left, before, buyer>>
    BY DEF TradeArrives
<1>2. Owed' <= Owed
    BY GameOwes DEF GameStep
<1>3. Due' = Due
    BY <1>1 DEF Due, buyer
<1>4. CASE result = "buying"
  <2>1. bag[Wanted] \in Int /\ bag'[Wanted] \in Int /\ gold \in Int /\ gold' \in Int
        /\ had \in Int /\ remaining \in Int /\ Want \in Int /\ before \in Int
      BY Facts DEF GoldOK, BuyerOK, LocalsOK
  <2>2. bag'[Wanted] >= bag[Wanted]
      BY MaterialOnlyComes
  <2>3. Brought <= Brought'
      BY <1>1, <2>1, <2>2 DEF Brought, buyer
  <2>4. CASE Slack' >= Slack
    <3>1. Owed' - Slack' <= Owed - Slack /\ Owed' + Due' <= Owed + Due
        BY <1>2, <1>3, <2>4, OwedTyped, OwedTypedNext DEF Numbers
    <3> QED BY <1>1, <1>4, <2>3, <3>1, OverbuyCarried DEF buyer
  <2>5. CASE ~(Slack' >= Slack)
    <3> DEFINE tx == Head(wire)
    <3>1. Slack = 1 /\ Slack' = 0
        BY <2>5 DEF Slack
    <3>2. pc["bot"] = "watch" /\ gold' < gold
        BY <1>1, <2>1, <3>1 DEF Slack
    <3>3. /\ Accepts(tx)
          /\ gold' = (IF tx.kind = "buy" THEN gold - tx.cost ELSE gold + tx.cost)
          /\ bag' = (IF tx.item \notin DOMAIN bag THEN bag
                     ELSE [bag EXCEPT ![tx.item] =
                             IF tx.kind = "buy" THEN @ + Pack ELSE @ - Pack])
          /\ paid' = (IF tx.by = "bot" /\ tx.item = Wanted THEN paid + 1 ELSE paid)
          /\ wire # <<>> /\ wire' = Tail(wire)
        BY <2>1, <3>2 DEF TradeArrives
    <3>4. tx \in TasksOf(Items) /\ tx.cost \in Nat
      <4>1. tx \in TasksOf(Items)
          BY <3>3, HeadTailProperties DEF LanesOK
      <4> QED BY <4>1 DEF TasksOf
    <3>5. tx.kind = "buy"
        BY <2>1, <3>2, <3>3, <3>4
    <3>6. Owed' = Owed - 1 + (paid' - paid)
      <4>1. Count(wire)' = Count(wire) - 1
        <5>1. Count(wire) = Count(Tail(wire)) + 1
            BY <3>3, <3>5, CountTail DEF LanesOK
        <5>2. Tail(wire) \in Seq(TasksOf(Items))
            BY <3>3, HeadTailProperties DEF LanesOK
        <5>3. Count(Tail(wire)) \in Nat
            BY <5>2, CountTyped
        <5>4. Count(wire)' = Count(Tail(wire))
            BY <3>3 DEF Count, Buys
        <5> QED BY <5>1, <5>3, <5>4
      <4>2. LaneBuys' = LaneBuys /\ Begun' = Begun
          BY <1>1 DEF LaneBuys, Count, Buys, Begun
      <4>3. Outstanding' = Outstanding - 1
          BY <1>1, <4>1, <4>2, OwedTyped DEF Outstanding
      <4> QED BY <4>2, <4>3, OwedTyped DEF Owed, GoldOK
    <3> HIDE DEF tx
    <3>7. CASE tx.item = Wanted
      <4>1. bag'[Wanted] = bag[Wanted] + Pack
          BY <3>3, <3>5, <3>7 DEF GoldOK
      <4>2. Brought' = Brought + Pack
          BY <1>1, <2>1, <3>2, <4>1, Facts DEF Brought, buyer
      <4>3. PICK a \in Int, b \in Int, n \in Int, g \in Int, p \in Int :
              a = Owed' /\ b = Owed /\ n = attempt /\ g = Brought /\ a <= b /\ p = Pack
          BY <1>2, OwedTyped, OwedTypedNext, Facts DEF Numbers, BuyerOK
      <4>4. Pack * (b - n - 1) <= g
          BY <1>4, <3>1, <4>3 DEF OverbuyInv
      <4>5. Pack * (b - n - 1 + 1) = Pack * (b - n - 1) + Pack * 1
            /\ Pack * (b - n - 1) \in Int
          BY <4>3, ScaledSum
      <4>6. b - n - 1 + 1 = b - n /\ Pack * 1 = Pack
          BY <4>3, Facts
      <4>7. Pack * (b - n) <= g + Pack
          BY <4>3, <4>4, <4>5, <4>6
      <4>8. a - n - 0 \in Int /\ b - n \in Int /\ a - n - 0 <= b - n /\ g + p \in Int
        <5>1. a <= b
            BY <4>3
        <5> QED BY <5>1
      <4>9. Pack * (a - n - 0) <= g + Pack
          BY <4>3, <4>7, <4>8, ScaledBound
      <4>10. Pack * (Owed' - attempt' - Slack') <= Brought'
          BY <1>1, <3>1, <4>2, <4>3, <4>9 DEF buyer
      <4>11. Pack * (Owed' + Due' - Attempts) < Want
        <5>1. PICK c \in Int, d \in Int, m \in Int :
                c = Due /\ d = Want /\ m = Attempts /\ Pack * (b + c - m) < d
            BY <1>4, <4>3, OwedTyped, Facts DEF OverbuyInv
        <5>2. a + c - m \in Int /\ b + c - m \in Int /\ a + c - m <= b + c - m
          <6>1. a <= b
              BY <4>3
          <6> QED BY <6>1
        <5>3. Pack * (a + c - m) < d
            BY <5>1, <5>2, ScaledBound
        <5> QED BY <1>3, <4>3, <5>1, <5>3
      <4> QED BY <1>1, <1>4, <4>10, <4>11 DEF OverbuyInv, buyer
    <3>8. CASE tx.item # Wanted
      <4>1. Owed' = Owed - 1
          BY <3>3, <3>6, <3>8, OwedTyped DEF GoldOK
      <4>2. Owed' - Slack' <= Owed - Slack /\ Owed' + Due' <= Owed + Due
          BY <1>3, <3>1, <4>1, OwedTyped
      <4> QED BY <1>1, <1>4, <2>3, <4>2, OverbuyCarried DEF buyer
    <3> QED BY <3>7, <3>8
  <2> QED BY <2>4, <2>5
<1>5. CASE result # "buying"
    BY <1>1, <1>2, <1>5, OverbuyOutside DEF buyer
<1> QED BY <1>4, <1>5

\* Every step keeps what is owed and had within the bound.
LEMMA OverbuyKept ==
    ASSUME TypeOK, OverbuyInv, [Next]_vars
    PROVE  OverbuyInv'
<1>0. TypeOK'
    BY TypeKept
<1>1. CASE TradeStep("bot")
    BY <1>0, <1>1, BotTrades
<1>2. CASE TradeStep("bridge")
  <2>1. UNCHANGED <<buyer, gold, bag, before, paid>>
      BY <1>2 DEF TradeStep, NextTrade, Reset, ReadInitialId, Ask, PollSees, PollTimesOut,
         ReadCost, ReadItem, Transact, TransactRefused, world
  <2>2. pc'["bot"] = pc["bot"]
    <3>1. \E label : Goto("bridge", label)
        BY <1>2 DEF TradeStep, NextTrade, Reset, ResetQuote, ResetCost, ReadInitialId, Ask,
           PollSees, PollTimesOut, ReadCost, ReadItem, Transact, TransactRefused, GiveUp
    <3> QED BY <3>1 DEF Goto, TypeOK, PcOK, Threads
  <2>3. left'["bot"] = left["bot"]
      BY <1>2 DEF TradeStep, NextTrade, Reset, ReadInitialId, Ask, PollSees, PollTimesOut,
         ReadCost, ReadItem, Transact, TransactRefused, GiveUp, Selling, TypeOK, LocalsOK, Threads
  <2> QED BY <1>0, <1>2, <2>1, <2>2, <2>3, BridgeOwes, OverbuyElsewhere
<1>3. CASE TradeArrives
    BY <1>0, <1>3, TradeArrivesKept
<1>4. CASE QuoteArrives \/ StoreQuote \/ \E t \in Threads : RunTask(t)
  <2>1. UNCHANGED <<buyer, gold, bag, before, paid, pc, left>>
      BY <1>4 DEF QuoteArrives, StoreQuote, RunTask, world
  <2>2. Owed' <= Owed
      BY <1>4, GameOwes DEF GameStep
  <2> QED BY <1>0, <2>1, <2>2, OverbuyElsewhere
<1>5. CASE UNCHANGED vars
  <2>1. UNCHANGED <<buyer, gold, bag, before, paid, pc, left, lane, wire>>
      BY <1>5 DEF vars, world
  <2>2. Owed' <= Owed
      BY <2>1, OwedElsewhere
  <2> QED BY <1>0, <2>1, <2>2, OverbuyElsewhere
<1> QED
    BY <1>0, <1>1, <1>2, <1>3, <1>4, <1>5, BotWatches, PurchaseBegins, AttemptBegins, AttemptEnds
    DEF Next, BotStep, GameStep

\* At the start nothing is owed.
LEMMA OverbuyInit == Init => OverbuyInv
<1> SUFFICES ASSUME Init PROVE OverbuyInv
    OBVIOUS
<1>1. Count(<<>>) = 0
    BY FS_EmptySet DEF Count, Buys
<1>2. LaneBuys = 0 /\ Count(wire) = 0 /\ Begun = 0 /\ pc["bridge"] = "next" /\ paid = 0
    BY <1>1, Facts DEF Init, LaneBuys, Begun, Threads
<1>3. Owed = 0
    BY <1>2 DEF Owed, Outstanding
<1> QED BY <1>3 DEF Init, OverbuyInv

\* The bound of the invariant is the stated one.
LEMMA OverbuyBounds ==
    ASSUME TypeOK, OverbuyInv
    PROVE  BoundedOverbuy
<1>1. PICK p \in Int, u \in Int, b \in Int, d \in Int, m \in Int, w \in Int, k \in Int :
        /\ p = paid /\ u = Outstanding /\ b = Begun /\ d = Due /\ m = Attempts /\ w = Want
        /\ k = Pack /\ u >= 0 /\ d >= 0 /\ m > 0 /\ w > 0 /\ Owed = p + u - b
    BY OwedTyped, Facts DEF TypeOK, GoldOK, Owed
<1>2. u >= 0 /\ d >= 0 /\ m > 0 /\ w > 0 /\ Owed = p + u - b
    BY <1>1
<1>3. Pack * (p - (m + b)) < w
  <2>1. CASE result = "none"
    <3>1. p + u - b <= 0
        BY <1>2, <2>1 DEF OverbuyInv
    <3>2. p - (m + b) <= 0 /\ p - (m + b) \in Int
        BY <1>2, <3>1
    <3>3. Pack * 0 < w
        BY <1>1, Facts
    <3> QED BY <3>2, <3>3, ScaledBound
  <2>2. CASE result # "none"
    <3>1. Pack * (p + u - b + d - m) < w
        BY <1>1, <1>2, <2>2 DEF OverbuyInv
    <3>2. p - (m + b) <= p + u - b + d - m /\ p - (m + b) \in Int /\ p + u - b + d - m \in Int
        BY <1>2
    <3> QED BY <3>1, <3>2, ScaledBound
  <2> QED BY <2>1, <2>2
<1>4. Pack * ((p - (m + b)) + (m + b)) = Pack * (p - (m + b)) + Pack * (m + b)
      /\ Pack * (p - (m + b)) \in Int /\ Pack * (m + b) \in Int
  <2>1. p - (m + b) \in Int /\ m + b \in Int
      OBVIOUS
  <2> QED BY <2>1, ScaledSum
<1>5. (p - (m + b)) + (m + b) = p
    OBVIOUS
<1>6. Pack * p < w + Pack * (m + b)
    BY <1>3, <1>4, <1>5
<1>7. k * p = p * k
    OBVIOUS
<1> QED BY <1>1, <1>6, <1>7 DEF BoundedOverbuy

\* The packs the bot's transactions pay for are fewer than one for each
\* attempt and for each transaction the bridge began, beyond what was wanted,
\* however late they are served: what an attempt may yet owe is bounded by
\* what it has not counted, and at most one of its purchases goes uncounted.
THEOREM OverbuyIsBounded == Spec => []BoundedOverbuy
<1>1. Init => TypeOK /\ OverbuyInv
    BY InitTyped, OverbuyInit
<1>2. TypeOK /\ OverbuyInv /\ [Next]_vars => TypeOK' /\ OverbuyInv'
    BY TypeKept, OverbuyKept
<1>3. TypeOK /\ OverbuyInv => BoundedOverbuy
    BY OverbuyBounds
<1> QED BY <1>1, <1>2, <1>3, PTL DEF Spec

-----------------------------------------------------------------------------
(* Trades with other players (PlayerTrade.tla).                             *)

\* The kinds of task that wait in a lane or on a timer, and their tasks.
TaskKinds == Kinds \cup {"stage 2", "stage 3", "ui", "click trade", "attempt", "disable",
                         "click ok", "click max", "click cancel"}
Named == Wares \cup {NoWare}
Queued == [kind : TaskKinds, item : Named, qty : Nat, left : Nat, req : Nat]

\* What a prompting request goes on with: it is never queued.
Awaiting == [kind : {"await"}, item : Named, qty : Nat, left : Nat, req : Nat]

TradeTyped ==
    /\ phase \in {"outside", "pre", "client", "post"}
    /\ lanes \in [{"serial", "pre", "post"} -> Seq(Queued)]
    /\ timers \subseteq Queued
    /\ window \in {"none", "init", "ready", "submitted"} /\ trade \in Nat
    /\ view \in BOOLEAN /\ invited \in BOOLEAN /\ cart \in [Wares -> Nat]
    /\ prompt \in [req : Nat, item : Named, count : Nat, trade : Nat, built : BOOLEAN]
    /\ seam \in Seams
    /\ pending \in [mode : Prompts \cup {"none"}, item : Named, value : Nat, clicks : Seq(Queued)]
    /\ hooked \in BOOLEAN /\ capture \in BOOLEAN /\ disable \in BOOLEAN /\ context \in Nat
    /\ asked \in Nat

\* Clicks of the prompt that request w opened for its item.
ClicksOf(clicks, w) == \A k \in DOMAIN clicks : clicks[k].req = w.req /\ clicks[k].item = w.item

\* What the game thread has before it: nothing; one task; a prompting request that
\* goes on; or, above such a request, the attempt that opens its prompt or the
\* task that disables the hook.
Shape(s, clicks) ==
    \/ s = <<>>
    \/ \E t \in Queued : s = <<t>>
    \/ \E w \in Awaiting : s = <<w>> /\ ClicksOf(clicks, w)
    \/ \E t \in Queued, w \in Awaiting :
         s = <<t, w>> /\ t.kind = "disable" /\ ClicksOf(clicks, w)
    \/ \E t \in Queued, w \in Awaiting :
         s = <<t, w>> /\ t.kind = "attempt" /\ t.req = w.req /\ t.item = w.item /\ clicks = <<>>

StackOK == Shape(stack, pending.clicks) /\ (stack # <<>> => phase # "outside")

-----------------------------------------------------------------------------
(* Short sequences.                                                         *)

\* What is left of one and of two.
LEMMA ShortTails ==
    /\ \A a : Head(<<a>>) = a /\ Tail(<<a>>) = <<>>
    /\ \A a, b : Head(<<a, b>>) = a /\ Tail(<<a, b>>) = <<b>>
OBVIOUS

\* What a call puts before what goes on after it.
LEMMA ShortJoins ==
    /\ \A S : \A s \in Seq(S) : <<>> \o s = s /\ s \o <<>> = s
    /\ \A a, b : <<a>> \o <<b>> = <<a, b>>
<1>1. \A S : \A s \in Seq(S) : <<>> \o s = s /\ s \o <<>> = s BY ConcatEmptySeq
<1>2. ASSUME NEW a, NEW b PROVE <<a>> \o <<b>> = <<a, b>>
  <2>1. <<a>> \in Seq({a, b}) /\ <<b>> \in Seq({a, b}) /\ <<a, b>> \in Seq({a, b}) OBVIOUS
  <2>2. PICK s \in Seq({a, b}) : s = <<a>> \o <<b>> BY <2>1, ConcatProperties
  <2>3. Len(s) = 2 /\ s[1] = a /\ s[2] = b BY <2>1, <2>2, ConcatProperties
  <2>4. Len(<<a, b>>) = 2 /\ <<a, b>>[1] = a /\ <<a, b>>[2] = b OBVIOUS
  <2>5. s = <<a, b>> BY <2>1, <2>3, <2>4, SeqEqual
  <2> QED BY <2>2, <2>5
<1> QED BY <1>1, <1>2

\* The first of a queue, and the rest of it.
LEMMA QueueParts ==
    ASSUME NEW s \in Seq(Queued), s # <<>>
    PROVE  Head(s) \in Queued /\ Tail(s) \in Seq(Queued)
BY HeadTailProperties

\* Lanes take tasks at their end.
LEMMA LanesTake ==
    ASSUME TradeTyped, NEW queue \in {"serial", "pre", "post"}, NEW s \in Seq(Queued)
    PROVE  /\ lanes[queue] \o s \in Seq(Queued)
           /\ [lanes EXCEPT ![queue] = @ \o s] \in [{"serial", "pre", "post"} -> Seq(Queued)]
<1>1. lanes \in [{"serial", "pre", "post"} -> Seq(Queued)] BY DEF TradeTyped
<1>2. lanes[queue] \o s \in Seq(Queued) BY <1>1, ConcatProperties
<1> QED BY <1>1, <1>2

\* No task that waits is one that is never queued.
LEMMA WaitingApart ==
    /\ "await" \notin TaskKinds /\ Kinds \subseteq TaskKinds
    /\ {"stage 2", "stage 3", "ui", "click trade", "attempt", "disable",
        "click ok", "click max", "click cancel"} \subseteq TaskKinds
    /\ \A k \in Prompts : k \in Kinds
BY DEF TaskKinds, Kinds, Prompts

\* The tasks that the code makes.
LEMMA TasksTyped ==
    /\ \A kind \in TaskKinds : \A i \in Named : \A q, n, r \in Nat :
         TradeTask(kind, i, q, n, r) \in Queued
    /\ \A kind \in TaskKinds : \A r \in Nat : Plain(kind, r) \in Queued
BY DEF TradeTask, Plain, Queued, Named

\* What runs: a task with nothing after it, unless it is one of the last three kinds.
LEMMA RunsAlone ==
    ASSUME StackOK, stack # <<>>, Now.kind \notin {"attempt", "disable", "await"}
    PROVE  Now \in Queued /\ Callers = <<>> /\ phase # "outside"
<1>1. CASE \E t \in Queued : stack = <<t>>
  BY <1>1, ShortTails DEF StackOK, Now, Callers
<1>2. CASE \E w \in Awaiting : stack = <<w>>
  BY <1>2, ShortTails DEF Now, Awaiting
<1>3. CASE \E t \in Queued, w \in Awaiting : stack = <<t, w>> /\ t.kind \in {"disable", "attempt"}
  BY <1>3, ShortTails DEF Now
<1> QED BY <1>1, <1>2, <1>3 DEF StackOK, Shape

\* An attempt or the disabling task, with or without a request that goes on after it.
LEMMA RunsAbove ==
    ASSUME StackOK, Running("attempt") \/ Running("disable")
    PROVE  /\ Now \in Queued /\ phase # "outside"
           /\ \/ Callers = <<>>
              \/ \E w \in Awaiting :
                   /\ Callers = <<w>>
                   /\ Now.kind = "attempt" =>
                        Now.req = w.req /\ Now.item = w.item /\ pending.clicks = <<>>
                   /\ Now.kind = "disable" => ClicksOf(pending.clicks, w)
<1> USE DEF Now, Callers
<1>0. stack # <<>> /\ Now.kind \in {"attempt", "disable"} /\ phase # "outside"
  BY DEF Running, StackOK
<1>1. CASE \E t \in Queued : stack = <<t>> BY <1>0, <1>1, ShortTails
<1>2. CASE \E w \in Awaiting : stack = <<w>> BY <1>0, <1>2, ShortTails DEF Awaiting
<1>3. CASE \E t \in Queued, w \in Awaiting :
             stack = <<t, w>> /\ t.kind = "disable" /\ ClicksOf(pending.clicks, w)
  <2>1. PICK t \in Queued, w \in Awaiting :
          stack = <<t, w>> /\ t.kind = "disable" /\ ClicksOf(pending.clicks, w)
    BY <1>3
  <2>2. Head(stack) = t /\ Tail(stack) = <<w>> BY <2>1, ShortTails
  <2> QED BY <1>0, <2>1, <2>2
<1>4. CASE \E t \in Queued, w \in Awaiting :
             /\ stack = <<t, w>> /\ t.kind = "attempt"
             /\ t.req = w.req /\ t.item = w.item /\ pending.clicks = <<>>
  <2>1. PICK t \in Queued, w \in Awaiting :
             /\ stack = <<t, w>> /\ t.kind = "attempt"
             /\ t.req = w.req /\ t.item = w.item /\ pending.clicks = <<>>
    BY <1>4
  <2>2. Head(stack) = t /\ Tail(stack) = <<w>> BY <2>1, ShortTails
  <2> QED BY <1>0, <2>1, <2>2
<1> QED BY <1>0, <1>1, <1>2, <1>3, <1>4 DEF StackOK, Shape

\* A request that goes on, with nothing after it.
LEMMA RunsLast ==
    ASSUME StackOK, Running("await")
    PROVE  /\ Now \in Awaiting /\ Callers = <<>> /\ phase # "outside"
           /\ ClicksOf(pending.clicks, Now)
<1> USE DEF Now, Callers
<1>0. stack # <<>> /\ Now.kind = "await" /\ phase # "outside" BY DEF Running, StackOK
<1>1. CASE \E t \in Queued : stack = <<t>>
  BY <1>0, <1>1, ShortTails, WaitingApart DEF Queued
<1>2. CASE \E w \in Awaiting : stack = <<w>> /\ ClicksOf(pending.clicks, w)
  BY <1>0, <1>2, ShortTails
<1>3. CASE \E t \in Queued, w \in Awaiting : stack = <<t, w>>
  BY <1>0, <1>3, ShortTails, WaitingApart DEF Queued
<1> QED BY <1>0, <1>1, <1>2, <1>3 DEF StackOK, Shape

-----------------------------------------------------------------------------
(* What calls and returns do to the stack of the game thread.               *)

\* The types of the queues alone, and of the rest.
LanesTyped == lanes \in [{"serial", "pre", "post"} -> Seq(Queued)]

\* Nothing, or one queued task, is always a stack that is allowed.
LEMMA ShortStacks ==
    /\ stack' = <<>> => StackOK'
    /\ phase' # "outside" /\ (\E t \in Queued : stack' = <<t>>) => StackOK'
BY DEF StackOK, Shape

\* A frame that begins or comes to a lane.
LEMMA TakesOne ==
    ASSUME TradeTyped, stack = <<>>, NEW queue \in {"serial", "pre", "post"}, TakeOne(queue)
    PROVE  LanesTyped' /\ (stack' = <<>> \/ \E t \in Queued : stack' = <<t>>)
<1>1. lanes \in [{"serial", "pre", "post"} -> Seq(Queued)] BY DEF TradeTyped
<1>2. CASE lanes[queue] = <<>> BY <1>1, <1>2 DEF TakeOne, LanesTyped
<1>3. CASE lanes[queue] # <<>>
  <2>1. Head(lanes[queue]) \in Queued /\ Tail(lanes[queue]) \in Seq(Queued)
    BY <1>1, <1>3, QueueParts
  <2>2. stack' = <<Head(lanes[queue])>> /\ lanes' = [lanes EXCEPT ![queue] = Tail(@)]
    BY <1>3 DEF TakeOne
  <2> QED BY <1>1, <2>1, <2>2 DEF LanesTyped
<1> QED BY <1>2, <1>3

\* A task put at the end of a lane.
LEMMA LanesAppend ==
    ASSUME TradeTyped, NEW queue \in {"serial", "pre", "post"}, NEW t \in Queued
    PROVE  [lanes EXCEPT ![queue] = Append(@, t)] \in [{"serial", "pre", "post"} -> Seq(Queued)]
<1>1. lanes \in [{"serial", "pre", "post"} -> Seq(Queued)] BY DEF TradeTyped
<1>2. Append(lanes[queue], t) \in Seq(Queued) BY <1>1, AppendProperties
<1> QED BY <1>1, <1>2

\* A call from inside a frame is made at once; one from outside waits.
LEMMA Calls1 ==
    ASSUME TradeTyped, NEW queue \in {"serial", "pre", "post"}, NEW t \in Queued,
           NEW rest, Call(queue, t, rest)
    PROVE  /\ LanesTyped'
           /\ phase # "outside" => stack' = <<t>> \o rest \o Callers
           /\ phase = "outside" => stack' = rest \o Callers
<1>1. CASE phase # "outside"
  BY <1>1 DEF Call, OnGameThread, LanesTyped, TradeTyped
<1>2. CASE phase = "outside"
  <2>1. lanes' = [lanes EXCEPT ![queue] = Append(@, t)] /\ stack' = rest \o Callers
    BY <1>2 DEF Call, OnGameThread
  <2> QED BY <1>2, <2>1, LanesAppend DEF LanesTyped
<1> QED BY <1>1, <1>2

\* The disabling task is called, or it is queued already.
LEMMA DisableCalled ==
    ASSUME TradeTyped, QueueDisable(<<>>),
           Callers = <<>> \/ \E w \in Awaiting : Callers = <<w>>
    PROVE  /\ LanesTyped' /\ disable' \in BOOLEAN
           /\ \/ stack' = Callers
              \/ phase # "outside" /\ stack' = <<Plain("disable", 0)>> \o Callers
<1>1. PICK S : Callers \in Seq(S)
  <2>1. \A w : <<w>> \in Seq({w}) OBVIOUS
  <2>2. <<>> \in Seq({}) OBVIOUS
  <2> QED BY <2>1, <2>2
<1>2. <<>> \o Callers = Callers BY <1>1, ShortJoins
<1>3. PICK t : t = Plain("disable", 0) OBVIOUS
<1>4. t \in Queued BY <1>3, TasksTyped, WaitingApart
<1>5. <<t>> \o <<>> = <<t>>
  <2>1. <<t>> \in Seq({t}) OBVIOUS
  <2> QED BY <2>1, ShortJoins
<1>6. CASE disable
  BY <1>2, <1>6 DEF QueueDisable, LanesTyped, TradeTyped
<1>7. CASE ~disable
  <2>1. disable' = TRUE /\ Call("post", t, <<>>) BY <1>3, <1>7 DEF QueueDisable
  <2>2. /\ LanesTyped'
        /\ phase # "outside" => stack' = <<t>> \o <<>> \o Callers
        /\ phase = "outside" => stack' = <<>> \o Callers
    BY <1>4, <2>1, Calls1
  <2> QED BY <1>2, <1>3, <1>5, <2>1, <2>2
<1> QED BY <1>6, <1>7 DEF TradeTyped

\* After an attempt, the disabling task runs above what goes on.
LEMMA DisableAbove ==
    ASSUME TradeTyped, StackOK, Running("attempt"), QueueDisable(<<>>), phase' = phase,
           \A w \in Awaiting : w.req = Now.req /\ w.item = Now.item
                                 => (pending.clicks = <<>> => ClicksOf(pending'.clicks, w))
    PROVE  StackOK' /\ LanesTyped' /\ disable' \in BOOLEAN
<1>1. /\ Now \in Queued /\ phase # "outside" /\ Now.kind = "attempt"
      /\ \/ Callers = <<>>
         \/ \E w \in Awaiting :
              /\ Callers = <<w>>
              /\ Now.req = w.req /\ Now.item = w.item /\ pending.clicks = <<>>
  BY RunsAbove DEF Running, Now
<1>2. PICK t \in Queued : t = Plain("disable", 0) /\ t.kind = "disable"
  <2>1. Plain("disable", 0) \in Queued BY TasksTyped, WaitingApart
  <2>2. Plain("disable", 0).kind = "disable" BY DEF Plain, TradeTask
  <2> QED BY <2>1, <2>2
<1>3. /\ LanesTyped' /\ disable' \in BOOLEAN
      /\ stack' = Callers \/ stack' = <<t>> \o Callers
  BY <1>1, <1>2, DisableCalled
<1>4. CASE Callers = <<>>
  <2>1. <<t>> \o <<>> = <<t>>
    <3>1. <<t>> \in Seq({t}) OBVIOUS
    <3> QED BY <3>1, ShortJoins
  <2> QED BY <1>1, <1>3, <1>4, <2>1, ShortStacks
<1>5. CASE \E w \in Awaiting :
              /\ Callers = <<w>>
              /\ Now.req = w.req /\ Now.item = w.item /\ pending.clicks = <<>>
  <2>1. PICK w \in Awaiting :
              /\ Callers = <<w>>
              /\ Now.req = w.req /\ Now.item = w.item /\ pending.clicks = <<>>
    BY <1>5
  <2>2. ClicksOf(pending'.clicks, w) BY <2>1
  <2>3. stack' = <<w>> \/ stack' = <<t, w>> BY <1>3, <2>1, ShortJoins
  <2> QED BY <1>1, <1>2, <1>3, <2>2, <2>3 DEF StackOK, Shape
<1> QED BY <1>1, <1>3, <1>4, <1>5

\* A task that is done leaves what was before it.
LEMMA Returned ==
    ASSUME TradeTyped, StackOK, stack # <<>>, phase' = phase, Return,
           pending' = pending \/ Now.kind \notin {"attempt", "disable"}
    PROVE  StackOK' /\ LanesTyped'
<1>1. stack' = Callers /\ LanesTyped' BY DEF Return, LanesTyped, TradeTyped
<1>2. CASE Now.kind \notin {"attempt", "disable", "await"}
  BY <1>1, <1>2, RunsAlone, ShortStacks
<1>3. CASE Now.kind = "await"
  <2>1. Running("await") BY <1>3 DEF Running, Now
  <2> QED BY <1>1, <2>1, RunsLast, ShortStacks
<1>4. CASE Now.kind \in {"attempt", "disable"}
  <2>1. Running("attempt") \/ Running("disable") BY <1>4 DEF Running, Now
  <2>2. CASE Callers = <<>> BY <1>1, <2>2, ShortStacks
  <2>3. CASE \E w \in Awaiting :
               /\ Callers = <<w>>
               /\ Now.kind = "attempt" =>
                    Now.req = w.req /\ Now.item = w.item /\ pending.clicks = <<>>
               /\ Now.kind = "disable" => ClicksOf(pending.clicks, w)
    <3>1. PICK w \in Awaiting :
               /\ Callers = <<w>>
               /\ Now.kind = "attempt" =>
                    Now.req = w.req /\ Now.item = w.item /\ pending.clicks = <<>>
               /\ Now.kind = "disable" => ClicksOf(pending.clicks, w)
      BY <2>3
    <3>2. ClicksOf(pending.clicks, w)
      BY <1>4, <3>1 DEF ClicksOf
    <3> QED BY <1>1, <1>4, <3>1, <3>2 DEF StackOK, Shape
  <2> QED BY <2>1, <2>2, <2>3, RunsAbove
<1> QED BY <1>2, <1>3, <1>4

\* A task that is done with clicks that wait.
LEMMA ReturnedWithClicks ==
    ASSUME TradeTyped, StackOK, stack # <<>>, phase' = phase,
           NEW clicks \in Seq(Queued), ReturnAfterClicks(clicks),
           Now.kind \notin {"attempt", "disable"}
    PROVE  StackOK' /\ LanesTyped'
<1>1. stack' = Callers /\ lanes' = [lanes EXCEPT !["pre"] = @ \o clicks]
  BY DEF ReturnAfterClicks
<1>2. LanesTyped' BY <1>1, LanesTake DEF LanesTyped
<1>3. CASE Now.kind # "await" BY <1>1, <1>2, <1>3, RunsAlone, ShortStacks
<1>4. CASE Now.kind = "await"
  <2>1. Running("await") BY <1>4 DEF Running, Now
  <2> QED BY <1>1, <1>2, <2>1, RunsLast, ShortStacks
<1> QED BY <1>2, <1>3, <1>4

-----------------------------------------------------------------------------
(* Frames, requests and the hook of the cart.                               *)

\* The types of what the game holds, and of the globals of the trade code.
GameTyped ==
    /\ window \in {"none", "init", "ready", "submitted"} /\ trade \in Nat
    /\ view \in BOOLEAN /\ invited \in BOOLEAN /\ cart \in [Wares -> Nat]
    /\ seam \in Seams
PromptTyped ==
    /\ prompt \in [req : Nat, item : Named, count : Nat, trade : Nat, built : BOOLEAN]
    /\ pending \in [mode : Prompts \cup {"none"}, item : Named, value : Nat, clicks : Seq(Queued)]
HookTypes == hooked \in BOOLEAN /\ capture \in BOOLEAN /\ disable \in BOOLEAN /\ context \in Nat
ThreadTyped == phase \in {"outside", "pre", "client", "post"} /\ timers \subseteq Queued

\* The types, part by part.
LEMMA TypedParts ==
    /\ TradeTyped <=> /\ ThreadTyped /\ LanesTyped /\ GameTyped /\ PromptTyped
                      /\ HookTypes /\ asked \in Nat
    /\ TradeTyped' <=> /\ ThreadTyped' /\ LanesTyped' /\ GameTyped' /\ PromptTyped'
                       /\ HookTypes' /\ asked' \in Nat
BY DEF TradeTyped, ThreadTyped, LanesTyped, GameTyped, PromptTyped, HookTypes

\* What is left alone keeps its types.
LEMMA LeftAlone ==
    ASSUME TradeTyped
    PROVE  /\ UNCHANGED <<phase, timers>> => ThreadTyped'
           /\ UNCHANGED lanes => LanesTyped'
           /\ UNCHANGED <<game, seam>> => GameTyped'
           /\ UNCHANGED <<prompt, pending>> => PromptTyped'
           /\ UNCHANGED cartHook => HookTypes'
BY DEF TradeTyped, ThreadTyped, LanesTyped, GameTyped, PromptTyped, HookTypes, game, cartHook

\* A frame takes tasks from the lanes, one at a time.
LEMMA FrameStep ==
    ASSUME TradeTyped, StackOK, Frame
    PROVE  TradeTyped' /\ StackOK'
<1>1. stack = <<>> /\ UNCHANGED <<timers, game, prompt, seam, pending, cartHook, asked>>
  BY DEF Frame, FrameBegins, TakePre, PreDrained, ClientReturns, FrameEnds
<1>2. GameTyped' /\ PromptTyped' /\ HookTypes' /\ asked' \in Nat
  BY <1>1, LeftAlone DEF TradeTyped
<1>3. phase' \in {"outside", "pre", "client", "post"} /\ ThreadTyped'
  BY <1>1 DEF Frame, FrameBegins, TakePre, PreDrained, ClientReturns, FrameEnds, ThreadTyped,
     TradeTyped
<1>4. CASE \/ phase' # "outside" /\ \E queue \in {"serial", "pre", "post"} : TakeOne(queue)
  BY <1>1, <1>2, <1>3, <1>4, TakesOne, ShortStacks, TypedParts
<1>5. CASE UNCHANGED <<stack, lanes>>
  BY <1>1, <1>2, <1>3, <1>5, LeftAlone, ShortStacks, TypedParts
<1> QED BY <1>4, <1>5 DEF Frame, FrameBegins, TakePre, PreDrained, ClientReturns, FrameEnds

\* A request becomes a task of a kind the bridge knows.
LEMMA HandleStep ==
    ASSUME TradeTyped, StackOK, NEW r \in Requests, Handle(r[1], r[2], r[3])
    PROVE  TradeTyped' /\ StackOK'
<1>1. r[1] \in Kinds /\ r[2] \in Named /\ r[3] \in Nat /\ FullStack \in Nat /\ ViewRetries \in Nat
  <2>1. r \in Kinds \X (Wares \cup {NoWare}) \X (0..FullStack) /\ FullStack \in Nat
        /\ ViewRetries \in Nat
    BY PlayerTradeAssumption
  <2> QED BY <2>1 DEF Named
<1>2. PICK task : task = TradeTask(r[1], r[2], Units(r[1], r[3]), Left(r[1]), asked')
  OBVIOUS
<1>3. asked' \in Nat BY DEF Handle, TradeTyped
<1>4. Units(r[1], r[3]) \in Nat /\ Left(r[1]) \in Nat BY <1>1 DEF Units, Left
<1>5. task \in Queued BY <1>1, <1>2, <1>3, <1>4, TasksTyped, WaitingApart
<1>6. LaneOf(r[1]) \in {"serial", "pre", "post"} BY DEF LaneOf
<1>7. UNCHANGED <<phase, stack, game, prompt, seam, pending, cartHook>> BY DEF Handle
<1>8. LanesTyped' /\ timers' \subseteq Queued
  <2>1. CASE r[1] \in Delayed
    <3>1. timers' = timers \cup {task} /\ UNCHANGED lanes BY <1>2, <2>1 DEF Handle
    <3> QED BY <1>5, <3>1 DEF LanesTyped, TradeTyped
  <2>2. CASE r[1] \notin Delayed
    <3>1. lanes' = [lanes EXCEPT ![LaneOf(r[1])] = Append(@, task)] /\ UNCHANGED timers
      BY <1>2, <2>2 DEF Handle, Submit
    <3> QED BY <1>5, <1>6, <3>1, LanesAppend DEF LanesTyped, TradeTyped
  <2> QED BY <2>1, <2>2
<1>9. ThreadTyped' BY <1>7, <1>8 DEF ThreadTyped, TradeTyped
<1>10. StackOK' BY <1>7 DEF StackOK
<1> QED BY <1>3, <1>7, <1>8, <1>9, <1>10, LeftAlone, TypedParts

\* A sleeping thread submits what it was given.
LEMMA TimerStep ==
    ASSUME TradeTyped, StackOK, NEW task \in timers, TimerEnds(task)
    PROVE  TradeTyped' /\ StackOK'
<1>1. task \in Queued /\ timers' \subseteq Queued BY DEF TimerEnds, TradeTyped
<1>2. LaneOf(task.kind) \in {"serial", "pre", "post"} BY DEF LaneOf
<1>3. lanes' = [lanes EXCEPT ![LaneOf(task.kind)] = Append(@, task)]
      /\ UNCHANGED <<phase, stack, game, prompt, seam, pending, cartHook, asked>>
  BY DEF TimerEnds, Submit
<1>4. LanesTyped' BY <1>1, <1>2, <1>3, LanesAppend DEF LanesTyped
<1>5. ThreadTyped' /\ asked' \in Nat BY <1>1, <1>3 DEF ThreadTyped, TradeTyped
<1>6. StackOK' BY <1>3 DEF StackOK
<1> QED BY <1>3, <1>4, <1>5, <1>6, LeftAlone, TypedParts

\* What disarms the hook, and what arms it and asks for the trade.
LEMMA DisableStep ==
    ASSUME TradeTyped, StackOK, DisableRuns
    PROVE  TradeTyped' /\ StackOK'
<1>1. stack # <<>> /\ Return /\ phase' = phase /\ pending' = pending
  BY DEF DisableRuns, Running
<1>2. StackOK' /\ LanesTyped' BY <1>1, Returned
<1>3. HookTypes' /\ ThreadTyped' /\ asked' \in Nat
  BY DEF DisableRuns, HookTypes, ThreadTyped, TradeTyped
<1>4. GameTyped' /\ PromptTyped' BY LeftAlone DEF DisableRuns
<1> QED BY <1>2, <1>3, <1>4, TypedParts

\* A task that calls the next one in its place.
LEMMA StageCalled ==
    ASSUME TradeTyped, StackOK, stack # <<>>, Now.kind \notin {"attempt", "disable", "await"},
           NEW to \in TaskKinds, NEW queue \in {"serial", "pre", "post"},
           Call(queue, Plain(to, Now.req), <<>>), phase' = phase
    PROVE  StackOK' /\ LanesTyped'
<1>1. Now \in Queued /\ Callers = <<>> /\ phase # "outside" BY RunsAlone
<1>2. PICK t \in Queued : t = Plain(to, Now.req)
  BY <1>1, TasksTyped DEF Queued
<1>3. Call(queue, t, <<>>) BY <1>2
<1>4. stack' = <<t>> \o <<>> \o Callers /\ LanesTyped' BY <1>1, <1>3, Calls1
<1>5. <<t>> \in Seq({t}) /\ <<t>> \o <<>> = <<t>>
  <2>1. <<t>> \in Seq({t}) OBVIOUS
  <2> QED BY <2>1, ShortJoins
<1>6. stack' = <<t>> BY <1>1, <1>4, <1>5
<1> QED BY <1>1, <1>4, <1>6, ShortStacks

\* Asking another player to trade, stage by stage.
LEMMA InitiatingStep ==
    ASSUME TradeTyped, StackOK, Initiating
    PROVE  TradeTyped' /\ StackOK'
<1>1. UNCHANGED <<phase, timers, prompt, seam, pending, asked>> /\ stack # <<>>
      /\ Now.kind \notin {"attempt", "disable", "await"}
  BY DEF Initiating, InitiateTrade, InitiateTradeUiOnly, Invites, NextStage, Running, Now
<1>2. GameTyped'
  BY DEF Initiating, InitiateTrade, InitiateTradeUiOnly, Invites, NextStage, GameTyped, TradeTyped,
     game
<1>3. HookTypes'
  <2>1. CASE InitiateTrade
    <3>1. context' = 0 /\ capture' = TRUE /\ disable' = FALSE /\ hooked' = TRUE
      BY <2>1 DEF InitiateTrade
    <3> QED BY <3>1 DEF HookTypes
  <2>2. CASE UNCHANGED cartHook BY <2>2, LeftAlone
  <2> QED BY <2>1, <2>2 DEF Initiating, InitiateTradeUiOnly, Invites, NextStage
<1>4. StackOK' /\ LanesTyped'
  <2>1. CASE \E queue \in {"serial", "pre", "post"}, to \in TaskKinds :
               Call(queue, Plain(to, Now.req), <<>>)
    BY <1>1, <2>1, StageCalled
  <2>2. CASE Return BY <1>1, <2>2, Returned
  <2>3. CASE ReturnAfterClicks(<<Plain("click trade", Now.req)>>)
    <3>1. Now \in Queued BY <1>1, RunsAlone
    <3>2. PICK t \in Queued : t = Plain("click trade", Now.req)
      BY <3>1, TasksTyped, WaitingApart DEF Queued
    <3>3. <<t>> \in Seq(Queued) OBVIOUS
    <3> QED BY <1>1, <2>3, <3>2, <3>3, ReturnedWithClicks
  <2> QED BY <2>1, <2>2, <2>3, WaitingApart
      DEF Initiating, InitiateTrade, InitiateTradeUiOnly, Invites, NextStage
<1> QED BY <1>1, <1>2, <1>3, <1>4, LeftAlone, TypedParts DEF TradeTyped

-----------------------------------------------------------------------------
(* Prompts and their clicks.                                                *)

PromptRecord == [req : Nat, item : Named, count : Nat, trade : Nat, built : BOOLEAN]
PendingRecord ==
    [mode : Prompts \cup {"none"}, item : Named, value : Nat, clicks : Seq(Queued)]

\* The prompt that the client shows, built or not, and none at all.
LEMMA PromptsTyped ==
    ASSUME TradeTyped
    PROVE  /\ NoPrompt \in PromptRecord /\ prompt \in PromptRecord /\ pending \in PendingRecord
           /\ PromptTyped' <=> prompt' \in PromptRecord /\ pending' \in PendingRecord
BY DEF TradeTyped, PromptTyped, PromptRecord, PendingRecord, NoPrompt, Named

\* The clicks on a prompt.
LEMMA ClicksTyped ==
    ASSUME NEW p \in PromptRecord
    PROVE  \A button \in {"click ok", "click max"} :
             /\ Click(button, p) \in Queued
             /\ Click(button, p).req = p.req /\ Click(button, p).item = p.item
<1>1. p.req \in Nat /\ p.item \in Named BY DEF PromptRecord
<1>2. \A button \in {"click ok", "click max"} : Click(button, p) \in Queued
  BY <1>1, TasksTyped, WaitingApart DEF Click
<1>3. \A button : Click(button, p).req = p.req /\ Click(button, p).item = p.item
  BY DEF Click, TradeTask
<1> QED BY <1>2, <1>3

\* What the hook of the popup leaves: the clicks of the prompt that was built.
LEMMA AutomateLeaves ==
    ASSUME TradeTyped, NEW p \in PromptRecord, Automate(p)
    PROVE  /\ PromptTyped'
           /\ pending'.clicks = pending.clicks
              \/ \A k \in DOMAIN pending'.clicks :
                   pending'.clicks[k].req = p.req /\ pending'.clicks[k].item = p.item
<1>0. pending \in PendingRecord BY PromptsTyped
<1>1. CASE ~(seam = "inventory slot" /\ pending.mode # "none")
  BY <1>0, <1>1, PromptsTyped DEF Automate
<1>2. CASE seam = "inventory slot" /\ pending.mode # "none"
  <2>1. PICK a \in Queued : a = Click("click max", p) /\ a.req = p.req /\ a.item = p.item
    BY ClicksTyped
  <2>2. PICK b \in Queued : b = Click("click ok", p) /\ b.req = p.req /\ b.item = p.item
    BY ClicksTyped
  <2>3. /\ prompt' = IF pending.mode = "value" THEN [p EXCEPT !.count = pending.value] ELSE p
        /\ pending' = [pending EXCEPT !.mode = "none",
                         !.clicks = (IF pending.mode = "max" THEN <<a>> ELSE <<>>) \o <<b>>]
    BY <1>2, <2>1, <2>2 DEF Automate
  <2>4. PICK s : s = (IF pending.mode = "max" THEN <<a>> ELSE <<>>) \o <<b>> OBVIOUS
  <2>5. s = <<a, b>> \/ s = <<b>>
    <3>1. <<b>> \in Seq({b}) OBVIOUS
    <3>2. <<>> \o <<b>> = <<b>> BY <3>1, ShortJoins
    <3>3. <<a>> \o <<b>> = <<a, b>> BY ShortJoins
    <3> QED BY <2>4, <3>2, <3>3
  <2>6. s \in Seq(Queued)
    <3>1. <<b>> \in Seq(Queued) /\ <<a, b>> \in Seq(Queued) OBVIOUS
    <3> QED BY <2>5, <3>1
  <2>7. \A k \in DOMAIN s : s[k].req = p.req /\ s[k].item = p.item
    <3>1. CASE s = <<b>>
      <4>1. DOMAIN s = {1} /\ s[1] = b BY <3>1
      <4> QED BY <4>1, <2>2
    <3>2. CASE s = <<a, b>>
      <4>1. DOMAIN s = {1, 2} /\ s[1] = a /\ s[2] = b BY <3>2
      <4> QED BY <4>1, <2>1, <2>2
    <3> QED BY <2>5, <3>1, <3>2
  <2>8. pending' = [pending EXCEPT !.mode = "none", !.clicks = s] BY <2>3, <2>4
  <2>9. pending' \in PendingRecord /\ pending'.clicks = s BY <1>0, <2>6, <2>8 DEF PendingRecord
  <2>10. prompt' \in PromptRecord BY <1>0, <2>3 DEF PromptRecord, PendingRecord
  <2> QED BY <2>7, <2>9, <2>10, PromptsTyped
<1> QED BY <1>1, <1>2

\* A request for a prompt goes on once the attempt it called is over.
LEMMA OfferPromptStep ==
    ASSUME TradeTyped, StackOK, NEW kind \in Prompts, OfferItemPrompt(kind)
    PROVE  TradeTyped' /\ StackOK'
<1>1. /\ stack # <<>> /\ Now.kind = kind /\ kind \in {"value", "max", "default"}
      /\ UNCHANGED <<phase, timers, game, prompt, seam, cartHook, asked>>
  BY DEF OfferItemPrompt, Running, Now, Prompts
<1>2. Now \in Queued /\ Callers = <<>> /\ phase # "outside" BY <1>1, RunsAlone
<1>3. StackOK' /\ LanesTyped' /\ PromptTyped'
  <2>1. CASE seam = "none"
    BY <1>1, <2>1, Returned, LeftAlone DEF OfferItemPrompt
  <2>2. CASE seam # "none"
    <3>1. PICK a : a = [Now EXCEPT !.kind = "attempt", !.left = PromptRetries] OBVIOUS
    <3>2. PICK n : n = IF kind = "max" THEN 0 ELSE 1 OBVIOUS
    <3>3. PICK w : w = [Now EXCEPT !.kind = "await", !.left = n] OBVIOUS
    <3>4. PromptRetries \in Nat /\ n \in Nat BY <3>2, PlayerTradeAssumption
    <3>5. a \in Queued /\ a.kind = "attempt" /\ a.req = Now.req /\ a.item = Now.item
      BY <1>2, <3>1, <3>4, WaitingApart DEF Queued
    <3>6. w \in Awaiting /\ w.req = Now.req /\ w.item = Now.item
      BY <1>2, <3>3, <3>4 DEF Queued, Awaiting
    <3>7. pending' = Armed(kind, Now.item, Now.qty) /\ Call("post", a, <<w>>)
      BY <2>2, <3>1, <3>2, <3>3 DEF OfferItemPrompt
    <3>8. LanesTyped' /\ stack' = <<a>> \o <<w>> \o Callers BY <1>2, <3>5, <3>7, Calls1
    <3>9. stack' = <<a, w>>
      <4>1. <<a>> \o <<w>> = <<a, w>> BY ShortJoins
      <4>2. <<a, w>> \in Seq({a, w}) OBVIOUS
      <4>3. <<a, w>> \o <<>> = <<a, w>> BY <4>2, ShortJoins
      <4> QED BY <1>2, <3>8, <4>1, <4>3
    <3>10. pending' \in PendingRecord /\ pending'.clicks = <<>>
      <4>1. pending \in PendingRecord BY PromptsTyped
      <4>2. Now.item \in Named /\ Now.qty \in Nat BY <1>2 DEF Queued
      <4>3. <<>> \in Seq(Queued) OBVIOUS
      <4>4. PICK v \in Nat : v = IF kind = "value" THEN Now.qty ELSE pending.value
        BY <4>1, <4>2 DEF PendingRecord
      <4>5. pending' = [pending EXCEPT !.mode = kind, !.item = Now.item, !.clicks = <<>>, !.value = v]
        BY <3>7, <4>4 DEF Armed
      <4> QED BY <4>1, <4>2, <4>3, <4>5 DEF PendingRecord
    <3>11. PromptTyped'
      <4>1. prompt' \in PromptRecord BY <1>1, PromptsTyped
      <4> QED BY <3>10, <4>1, PromptsTyped
    <3>12. StackOK' BY <1>1, <1>2, <3>5, <3>6, <3>9, <3>10 DEF StackOK, Shape
    <3> QED BY <3>8, <3>11, <3>12
  <2> QED BY <2>1, <2>2
<1> QED BY <1>1, <1>3, LeftAlone, TypedParts DEF TradeTyped

\* An attempt that is put off, or given up, or that faults.
LEMMA AttemptEndsStep ==
    ASSUME TradeTyped, StackOK, AttemptRetries \/ AttemptGivesUp \/ AttemptFaults
    PROVE  TradeTyped' /\ StackOK'
<1>1. Running("attempt") /\ UNCHANGED <<phase, game, prompt, seam, pending, asked>>
  BY DEF AttemptRetries, AttemptGivesUp, AttemptFaults
<1>2. GameTyped' /\ PromptTyped' /\ asked' \in Nat
  BY <1>1, LeftAlone DEF TradeTyped
<1>3. CASE AttemptRetries
  <2>1. Now \in Queued /\ Now.left > 0 /\ stack # <<>>
    BY <1>1, <1>3, RunsAbove DEF AttemptRetries, Running
  <2>2. RetryOfPrompt \in Queued BY <2>1 DEF RetryOfPrompt, Queued
  <2>3. ThreadTyped' BY <1>3, <2>2 DEF AttemptRetries, ThreadTyped, TradeTyped
  <2>4. HookTypes' BY <1>3, LeftAlone DEF AttemptRetries
  <2>5. StackOK' /\ LanesTyped' BY <1>1, <1>3, <2>1, Returned DEF AttemptRetries
  <2> QED BY <1>2, <2>3, <2>4, <2>5, TypedParts
<1>4. CASE AttemptGivesUp \/ AttemptFaults
  <2>1. QueueDisable(<<>>) /\ UNCHANGED <<timers, hooked, capture, context>>
    BY <1>4 DEF AttemptGivesUp, AttemptFaults
  <2>2. \A w \in Awaiting : pending.clicks = <<>> => ClicksOf(pending'.clicks, w)
    BY <1>1 DEF ClicksOf
  <2>3. StackOK' /\ LanesTyped' /\ disable' \in BOOLEAN BY <1>1, <2>1, <2>2, DisableAbove
  <2>4. ThreadTyped' BY <1>1, <2>1, LeftAlone
  <2>5. HookTypes' BY <2>1, <2>3 DEF HookTypes, TradeTyped
  <2> QED BY <1>2, <2>3, <2>4, <2>5, TypedParts
<1> QED BY <1>3, <1>4

\* An attempt that opens its prompt: the clicks that are left are its own.
LEMMA AttemptOpensStep ==
    ASSUME TradeTyped, StackOK, AttemptOpens
    PROVE  TradeTyped' /\ StackOK'
<1>1. /\ Running("attempt") /\ OpenPrompt(Now.item, Now.req) /\ QueueDisable(<<>>)
      /\ UNCHANGED <<phase, timers, game, seam, hooked, capture, context, asked>>
  BY DEF AttemptOpens
<1>2. Now \in Queued BY <1>1, RunsAbove
<1>3. PICK p \in PromptRecord :
        p.req = Now.req /\ p.item = Now.item
        /\ \/ Automate(p)
           \/ (prompt' = p /\ UNCHANGED pending)
           \/ UNCHANGED <<prompt, pending>>
  <2> DEFINE new(built) == [req |-> Now.req, item |-> Now.item, count |-> 1, trade |-> trade,
                            built |-> built]
  <2>1. \A b \in BOOLEAN : new(b) \in PromptRecord /\ new(b).req = Now.req
                           /\ new(b).item = Now.item
    BY <1>2 DEF PromptRecord, Queued, TradeTyped
  <2>2. \/ Automate(new(TRUE)) \/ (prompt' = new(FALSE) /\ UNCHANGED pending)
        \/ UNCHANGED <<prompt, pending>>
    BY <1>1 DEF OpenPrompt
  <2> HIDE DEF new
  <2> QED BY <2>1, <2>2
<1>4. PromptTyped' BY <1>3, AutomateLeaves, PromptsTyped
<1>5. pending'.clicks = pending.clicks
      \/ \A k \in DOMAIN pending'.clicks :
           pending'.clicks[k].req = p.req /\ pending'.clicks[k].item = p.item
  BY <1>3, AutomateLeaves
<1>6. \A w \in Awaiting : w.req = Now.req /\ w.item = Now.item
                            => (pending.clicks = <<>> => ClicksOf(pending'.clicks, w))
  BY <1>3, <1>5 DEF ClicksOf
<1>7. StackOK' /\ LanesTyped' /\ disable' \in BOOLEAN BY <1>1, <1>6, DisableAbove
<1>8. HookTypes' BY <1>1, <1>7 DEF HookTypes, TradeTyped
<1> QED BY <1>1, <1>4, <1>7, <1>8, LeftAlone, TypedParts DEF TradeTyped

\* A quantity that is confirmed, now or by a click that waits.
LEMMA ConfirmedTyped ==
    ASSUME TradeTyped, NEW q \in Nat, Confirmed(q)
    PROVE  prompt' \in PromptRecord /\ cart' \in [Wares -> Nat]
BY PromptsTyped DEF Confirmed, TradeTyped

\* What a request that goes on may do to the prompt and the cart.
LEMMA ConfirmStep ==
    ASSUME TradeTyped, StackOK, Running("await"), phase' = phase,
           NEW q \in Nat, NEW clicks \in Seq(Queued), Confirm(q, clicks)
    PROVE  StackOK' /\ LanesTyped' /\ prompt' \in PromptRecord /\ cart' \in [Wares -> Nat]
<1>1. stack # <<>> /\ Now.kind = "await" BY DEF Running, Now
<1>2. PICK t \in Queued : t = Click("click ok", prompt) BY PromptsTyped, ClicksTyped
<1>3. Append(clicks, t) \in Seq(Queued) BY AppendProperties
<1>4. \/ ReturnAfterClicks(clicks) \/ ReturnAfterClicks(Append(clicks, t))
  BY <1>2 DEF Confirm
<1>5. StackOK' /\ LanesTyped' BY <1>1, <1>3, <1>4, ReturnedWithClicks
<1>6. Confirmed(q) \/ (prompt' = [prompt EXCEPT !.count = q] /\ UNCHANGED cart)
  BY DEF Confirm
<1>7. prompt' \in PromptRecord /\ cart' \in [Wares -> Nat]
  <2>1. prompt \in PromptRecord /\ cart \in [Wares -> Nat]
    BY PromptsTyped DEF TradeTyped
  <2>2. CASE Confirmed(q) BY <2>2, ConfirmedTyped
  <2>3. CASE prompt' = [prompt EXCEPT !.count = q] /\ UNCHANGED cart
    BY <2>1, <2>3 DEF PromptRecord
  <2> QED BY <1>6, <2>2, <2>3
<1> QED BY <1>5, <1>7

\* What the request does once its attempt is over.
LEMMA AwaitStep ==
    ASSUME TradeTyped, StackOK, AwaitPassive \/ AwaitClicks \/ AwaitManual
    PROVE  TradeTyped' /\ StackOK'
<1>1. /\ Running("await") /\ stack # <<>> /\ Now.kind = "await"
      /\ UNCHANGED <<phase, timers, window, trade, view, invited, seam, cartHook, asked>>
  BY DEF AwaitPassive, AwaitClicks, AwaitManual, Running, Now
<1>2. Now.qty \in Nat BY <1>1, RunsLast DEF Awaiting
<1>3. pending \in PendingRecord /\ pending.clicks \in Seq(Queued) /\ <<>> \in Seq(Queued)
  BY PromptsTyped DEF PendingRecord
<1>4. pending' \in PendingRecord
  <2>1. pending' = pending \/ pending' = [pending EXCEPT !.mode = "none", !.value = 0, !.clicks = <<>>]
    BY DEF AwaitPassive, AwaitClicks, AwaitManual
  <2>2. PICK none \in Seq(Queued) : none = <<>> BY <1>3
  <2>3. pending' = pending \/ pending' = [pending EXCEPT !.mode = "none", !.value = 0, !.clicks = none]
    BY <2>1, <2>2
  <2>4. CASE pending' = [pending EXCEPT !.mode = "none", !.value = 0, !.clicks = none]
    <3>1. pending' = [mode |-> "none", item |-> pending.item, value |-> 0, clicks |-> none]
      BY <1>3, <2>4 DEF PendingRecord
    <3>2. pending.item \in Named BY <1>3 DEF PendingRecord
    <3> QED BY <3>1, <3>2 DEF PendingRecord
  <2> QED BY <1>3, <2>3, <2>4
<1>5. StackOK' /\ LanesTyped' /\ prompt' \in PromptRecord /\ cart' \in [Wares -> Nat]
  <2>0. prompt \in PromptRecord /\ cart \in [Wares -> Nat] BY PromptsTyped DEF TradeTyped
  <2>1. CASE Return /\ UNCHANGED <<prompt, cart>> BY <1>1, <2>0, <2>1, Returned
  <2>2. CASE \E clicks \in Seq(Queued) : Confirm(Now.qty, clicks)
    BY <1>1, <1>2, <2>2, ConfirmStep
  <2>3. CASE ReturnAfterClicks(pending.clicks) /\ UNCHANGED <<prompt, cart>>
    BY <1>1, <1>3, <2>0, <2>3, ReturnedWithClicks
  <2> QED BY <1>3, <2>1, <2>2, <2>3 DEF AwaitPassive, AwaitClicks, AwaitManual
<1>6. GameTyped' BY <1>1, <1>5 DEF GameTyped, TradeTyped
<1> QED BY <1>1, <1>4, <1>5, <1>6, LeftAlone, TypedParts, PromptsTyped DEF TradeTyped

\* A click that has waited.
LEMMA ClickStep ==
    ASSUME TradeTyped, StackOK, ClickRuns
    PROVE  TradeTyped' /\ StackOK'
<1>1. /\ stack # <<>> /\ Now.kind \in {"click ok", "click max"} /\ Return
      /\ UNCHANGED <<phase, timers, window, trade, view, invited, seam, pending, cartHook, asked>>
  BY DEF ClickRuns, Running, Now
<1>2. StackOK' /\ LanesTyped' BY <1>1, Returned
<1>3. prompt \in PromptRecord /\ cart \in [Wares -> Nat] /\ prompt.count \in Nat /\ FullStack \in Nat
  BY PromptsTyped, PlayerTradeAssumption DEF TradeTyped, PromptRecord
<1>4. prompt' \in PromptRecord /\ cart' \in [Wares -> Nat]
  <2>1. \/ UNCHANGED <<prompt, cart>> \/ Confirmed(prompt.count)
        \/ (prompt' = [prompt EXCEPT !.count = FullStack] /\ UNCHANGED cart)
    BY DEF ClickRuns
  <2>2. CASE Confirmed(prompt.count) BY <1>3, <2>2, ConfirmedTyped
  <2>3. CASE ~Confirmed(prompt.count) BY <1>3, <2>1, <2>3 DEF PromptRecord
  <2> QED BY <2>2, <2>3
<1>5. GameTyped' BY <1>1, <1>4 DEF GameTyped, TradeTyped
<1>6. PromptTyped' BY <1>1, <1>4, PromptsTyped
<1> QED BY <1>1, <1>2, <1>5, <1>6, LeftAlone, TypedParts DEF TradeTyped

-----------------------------------------------------------------------------
(* The open trade, the client and its partner.                              *)

\* A window that is gone takes its offer with it.
LEMMA WindowGoneTyped ==
    ASSUME TradeTyped, WindowGone
    PROVE  /\ window' = "none" /\ view' = FALSE /\ cart' \in [Wares -> Nat]
           /\ prompt' \in PromptRecord
<1>1. cart' = [i \in Wares |-> 0] BY DEF WindowGone
<1>2. cart' \in [Wares -> Nat] BY <1>1
<1> QED BY <1>2, PromptsTyped DEF WindowGone

\* Offers, submissions, cancellations and removals.
LEMMA TradingStep ==
    ASSUME TradeTyped, StackOK, Trading
    PROVE  TradeTyped' /\ StackOK'
<1>1. /\ stack # <<>> /\ Now.kind \in Kinds \cup {"click cancel"}
      /\ UNCHANGED <<phase, trade, invited, seam, pending, cartHook, asked>>
  BY DEF Trading, OfferItem, PressView, SubmitOffer, AcceptTrade, CancelTrade, CancelClicked,
     ChangeOffer, RemoveItem, Running, Now, Kinds, game
<1>2. Now.kind \notin {"attempt", "disable", "await"} BY <1>1 DEF Kinds
<1>3. Now \in Queued BY <1>1, <1>2, RunsAlone
<1>4. Now.qty \in Nat /\ Now.left \in Nat /\ Now.req \in Nat BY <1>3 DEF Queued
<1>5. StackOK' /\ LanesTyped'
  <2>1. CASE Return BY <1>1, <1>2, <2>1, Returned
  <2>2. CASE ReturnAfterClicks(<<TradeTask("click cancel", NoWare, trade, 0, Now.req)>>)
    <3>1. PICK t \in Queued : t = TradeTask("click cancel", NoWare, trade, 0, Now.req)
      BY <1>4, TasksTyped, WaitingApart DEF TradeTyped, Named
    <3>2. <<t>> \in Seq(Queued) OBVIOUS
    <3> QED BY <1>1, <1>2, <2>2, <3>1, <3>2, ReturnedWithClicks
  <2> QED BY <2>1, <2>2
      DEF Trading, OfferItem, PressView, SubmitOffer, AcceptTrade, CancelTrade, CancelClicked,
          ChangeOffer, RemoveItem
<1>6. timers' \subseteq Queued
  <2>1. CASE UNCHANGED timers BY <2>1 DEF TradeTyped
  <2>2. CASE PressView
    <3>1. Now.left > 0 /\ timers' = timers \cup {[Now EXCEPT !.left = @ - 1]}
      BY <2>2 DEF PressView
    <3>2. [Now EXCEPT !.left = @ - 1] \in Queued BY <1>3, <3>1 DEF Queued
    <3> QED BY <3>1, <3>2 DEF TradeTyped
  <2> QED BY <2>1, <2>2
      DEF Trading, OfferItem, SubmitOffer, AcceptTrade, CancelTrade, CancelClicked,
          ChangeOffer, RemoveItem
<1>7. /\ window' \in {"none", "init", "ready", "submitted"} /\ view' \in BOOLEAN
      /\ cart' \in [Wares -> Nat] /\ prompt' \in PromptRecord
  <2>1. /\ window \in {"none", "init", "ready", "submitted"} /\ view \in BOOLEAN
        /\ cart \in [Wares -> Nat] /\ prompt \in PromptRecord
    BY PromptsTyped DEF TradeTyped
  <2>2. CASE OfferItem \/ RemoveItem \/ ChangeOffer
    BY <1>4, <2>1, <2>2 DEF OfferItem, RemoveItem, ChangeOffer, OfferTakenBack
  <2>3. CASE PressView \/ SubmitOffer \/ AcceptTrade
    BY <2>1, <2>3 DEF PressView, SubmitOffer, AcceptTrade, game
  <2>4. CASE CancelTrade \/ CancelClicked
    BY <2>1, <2>4, WindowGoneTyped DEF CancelTrade, CancelClicked
  <2> QED BY <2>2, <2>3, <2>4 DEF Trading
<1>8. GameTyped' /\ ThreadTyped' /\ PromptTyped'
  <2>1. pending' \in PendingRecord BY <1>1, PromptsTyped
  <2> QED BY <1>1, <1>6, <1>7, <2>1, PromptsTyped DEF GameTyped, ThreadTyped, TradeTyped
<1> QED BY <1>1, <1>5, <1>8, LeftAlone, TypedParts DEF TradeTyped

\* The client and the partner, while the game thread runs no task.
LEMMA ClientStep ==
    ASSUME TradeTyped, StackOK, Client
    PROVE  TradeTyped' /\ StackOK'
<1>1. stack = <<>> /\ UNCHANGED <<phase, timers, seam, asked>>
  BY DEF Client, ClientRuns, TradeOpens, WindowSettles, Viewed, TradeCloses, OnUpdateTradeCart,
     PromptBuilt, thread, game
<1>2. ThreadTyped' /\ asked' \in Nat BY <1>1, LeftAlone DEF TradeTyped
<1>3. CASE OnUpdateTradeCart
  <2>1. context' = trade /\ UNCHANGED <<game, prompt, pending, hooked>>
        /\ \/ Captured
           \/ UNCHANGED <<capture, disable, stack, lanes>>
    BY <1>3 DEF OnUpdateTradeCart
  <2>2. GameTyped' /\ PromptTyped' BY <1>1, <2>1, LeftAlone
  <2>3. CASE UNCHANGED <<capture, disable, stack, lanes>>
    <3>1. HookTypes' BY <2>1, <2>3 DEF HookTypes, TradeTyped
    <3> QED BY <1>1, <1>2, <2>2, <2>3, <3>1, LeftAlone, ShortStacks, TypedParts
  <2>4. CASE Captured
    <3>1. capture' = FALSE /\ QueueDisable(<<>>) BY <2>4 DEF Captured
    <3>2. Callers = <<>> BY <1>1 DEF Callers
    <3>3. /\ LanesTyped' /\ disable' \in BOOLEAN
          /\ \/ stack' = Callers
             \/ phase # "outside" /\ stack' = <<Plain("disable", 0)>> \o Callers
      BY <3>1, <3>2, DisableCalled
    <3>4. PICK t \in Queued : t = Plain("disable", 0) BY TasksTyped, WaitingApart
    <3>5. <<t>> \o <<>> = <<t>>
      <4>1. <<t>> \in Seq({t}) OBVIOUS
      <4> QED BY <4>1, ShortJoins
    <3>6. StackOK' BY <1>1, <3>2, <3>3, <3>4, <3>5, ShortStacks
    <3>7. HookTypes' BY <2>1, <3>1, <3>3 DEF HookTypes, TradeTyped
    <3> QED BY <1>2, <2>2, <3>3, <3>6, <3>7, TypedParts
  <2> QED BY <2>1, <2>3, <2>4
<1>4. CASE PromptBuilt
  <2>1. Automate([prompt EXCEPT !.built = TRUE]) /\ UNCHANGED <<thread, game, cartHook>>
    BY <1>4 DEF PromptBuilt
  <2>2. [prompt EXCEPT !.built = TRUE] \in PromptRecord BY PromptsTyped DEF PromptRecord
  <2>3. PromptTyped' BY <2>1, <2>2, AutomateLeaves
  <2>4. StackOK' /\ LanesTyped' BY <1>1, <2>1, ShortStacks, LeftAlone DEF thread
  <2> QED BY <1>1, <1>2, <2>1, <2>3, <2>4, LeftAlone, TypedParts
<1>5. CASE TradeOpens \/ WindowSettles \/ Viewed \/ TradeCloses
  <2>1. UNCHANGED <<stack, lanes, pending, cartHook>>
    BY <1>5 DEF TradeOpens, WindowSettles, Viewed, TradeCloses, thread
  <2>2. /\ window' \in {"none", "init", "ready", "submitted"} /\ view' \in BOOLEAN
        /\ cart' \in [Wares -> Nat] /\ prompt' \in PromptRecord
        /\ trade' \in Nat /\ invited' \in BOOLEAN
    <3>1. /\ window \in {"none", "init", "ready", "submitted"} /\ view \in BOOLEAN
          /\ cart \in [Wares -> Nat] /\ prompt \in PromptRecord
          /\ trade \in Nat /\ invited \in BOOLEAN
      BY PromptsTyped DEF TradeTyped
    <3>2. CASE TradeOpens
      <4>1. window' = "init" /\ trade' = trade + 1 /\ invited' = FALSE /\ view' = ~invited
            /\ UNCHANGED <<cart, prompt>>
        BY <3>2 DEF TradeOpens
      <4>2. view' \in BOOLEAN BY <4>1
      <4>3. window' \in {"none", "init", "ready", "submitted"} /\ trade' \in Nat
        BY <3>1, <4>1
      <4>4. cart' \in [Wares -> Nat] /\ prompt' \in PromptRecord BY <3>1, <4>1
      <4>5. invited' \in BOOLEAN BY <4>1
      <4> QED BY <4>2, <4>3, <4>4, <4>5
    <3>3. CASE WindowSettles \/ Viewed BY <3>1, <3>3 DEF WindowSettles, Viewed
    <3>4. CASE TradeCloses BY <3>1, <3>4, WindowGoneTyped DEF TradeCloses
    <3> QED BY <1>5, <3>2, <3>3, <3>4
  <2>3. GameTyped' BY <1>1, <2>2 DEF GameTyped, TradeTyped
  <2>4. PromptTyped'
    <3>1. pending' \in PendingRecord BY <2>1, PromptsTyped
    <3> QED BY <2>2, <3>1, PromptsTyped
  <2> QED BY <1>1, <1>2, <2>1, <2>3, <2>4, LeftAlone, ShortStacks, TypedParts
<1> QED BY <1>3, <1>4, <1>5 DEF Client

\* Every step keeps the types and the shape of what the game thread has before it.
LEMMA TradeStepKeeps ==
    ASSUME TradeTyped, StackOK, [PlayerTradeNext]_playerTradeVars
    PROVE  TradeTyped' /\ StackOK'
<1>1. CASE GameThread
  BY <1>1, FrameStep, DisableStep, InitiatingStep, OfferPromptStep, AttemptEndsStep,
     AttemptOpensStep, AwaitStep, ClickStep, TradingStep DEF GameThread, Prompting
<1>2. CASE UNCHANGED playerTradeVars
  <2>1. UNCHANGED <<phase, stack, lanes, timers, game, prompt, seam, pending, cartHook, asked>>
    BY <1>2 DEF playerTradeVars, thread, game, cartHook
  <2>2. StackOK' BY <2>1 DEF StackOK
  <2> QED BY <2>1, <2>2, LeftAlone, TypedParts DEF TradeTyped
<1> QED BY <1>1, <1>2, HandleStep, TimerStep, ClientStep DEF PlayerTradeNext

\* Before the first frame nothing waits and nothing is shown.
LEMMA TradeStart ==
    ASSUME PlayerTradeInit
    PROVE  TradeTyped /\ StackOK
<1>1. StackOK BY DEF PlayerTradeInit, StackOK, Shape
<1>2. ThreadTyped /\ GameTyped /\ HookTypes /\ asked \in Nat
  BY DEF PlayerTradeInit, ThreadTyped, GameTyped, HookTypes
<1>3. PICK none \in Seq(Queued) : none = <<>>
  <2>1. <<>> \in Seq(Queued) OBVIOUS
  <2> QED BY <2>1
<1>4. LanesTyped
  <2>1. lanes = [serial |-> none, pre |-> none, post |-> none] BY <1>3 DEF PlayerTradeInit
  <2> QED BY <2>1 DEF LanesTyped
<1>5. PromptTyped
  <2>1. prompt = NoPrompt
        /\ pending = [mode |-> "none", item |-> NoWare, value |-> 0, clicks |-> none]
    BY <1>3 DEF PlayerTradeInit
  <2> QED BY <2>1 DEF PromptTyped, NoPrompt, Named
<1> QED BY <1>1, <1>2, <1>4, <1>5, TypedParts

\* Tasks, prompts and globals of the trade code keep their types (TradeMgr.cpp).
THEOREM PlayerTradeTyped == PlayerTradeSpec => [](TradeTyped /\ StackOK)
<1> QED BY TradeStart, TradeStepKeeps, PTL DEF PlayerTradeSpec

\* A request clicks only in the prompt that it opened itself.
THEOREM ClicksAreOwn == PlayerTradeSpec => []OwnClicks
<1>1. StackOK => OwnClicks BY RunsLast DEF OwnClicks, ClicksOf
<1>2. PlayerTradeSpec => []StackOK BY PlayerTradeTyped, PTL
<1> QED BY <1>1, <1>2, PTL
================================================================================
