----------------------------- MODULE Maintenance -----------------------------
(* The upkeep between two dungeon runs: MaintenanceMgr.cpp decides what is  *)
(* needed and does it, MerchantServices.cpp and DungeonBotStates.cpp decide *)
(* whether the bot may leave.  Everything a step asks of the game may fail, *)
(* and each decision is taken from counts read at some earlier point.       *)
(* Bags are counted in slots.  Consets are kept in stacks, because they are *)
(* moved a stack at a time; what is bought, sold or crafted is whatever the *)
(* merchants let through.                                                   *)
EXTENDS Integers, Sequences, FiniteSetsExt

CONSTANTS
  Consets,        \* the kinds, in the order the code goes through them
  StackMax,       \* units in a stack (250 in the game)
  Kits,           \* kinds of kit, in buying order
  KitTarget,      \* wanted of each
  Slots, ChestSlots,
  MinFree,        \* cfg.minFreeSlots
  Critical,       \* kCriticalFreeSlots, options.critical_free_slots
  TargetEach,     \* cfg.targetCharacterConsetsEach
  StoredEach,     \* cfg.targetStoredConsetsEach
  Tolerance,      \* of the imbalance of carried stacks (25 in the code)
  StackTrigger,   \* cfg.consetMaterialStackTrigger
  Batch,          \* cfg.consetBatchSets
  ConvertPasses,  \* 4 in the code
  ExcessPasses,   \* 6 in the code
  MaxRetries,     \* times the town's runtime is found unstable
  KeepGold,       \* cfg.depositKeepOnChar
  DepositAt,      \* cfg.depositWhenCharacterGoldAtLeast
  MaxGold,        \* cfg.maxCharacterGold
  CharCap,        \* 100,000: also cfg.consetWithdrawGoldTarget
  Floor, Trigger, \* cfg.consetStorageGoldFloor, cfg.consetStorageGoldTrigger
  StoreCap,       \* 1,000,000
  Starts          \* what the bags hold when the bot comes to town

Stacked == [1..StackMax -> Nat]      \* how many stacks of each size
Units(b) == MapThenSumSet(LAMBDA q : q * b[q], DOMAIN b)
Stacks(b) == MapThenSumSet(LAMBDA q : b[q], DOMAIN b)
Put(b, q) == [b EXCEPT ![q] = @ + 1]
Take(b, q) == [b EXCEPT ![q] = @ - 1]
Kind == {Consets[i] : i \in DOMAIN Consets}
KitKind == {Kits[i] : i \in DOMAIN Kits}

ASSUME MaintenanceAssumption ==
  /\ Consets \in Seq(Kind) /\ Kits \in Seq(KitKind)
  /\ StackMax \in Nat \ {0}
  /\ {Slots, ChestSlots, MinFree, Critical, TargetEach, StoredEach, Tolerance,
      StackTrigger, Batch, ConvertPasses, ExcessPasses, MaxRetries} \subseteq Nat
  /\ KitTarget \in [KitKind -> Nat]
  /\ {KeepGold, DepositAt, MaxGold, CharCap, Floor, Trigger, StoreCap} \subseteq Nat
  /\ KeepGold < DepositAt /\ DepositAt <= MaxGold /\ MaxGold <= CharCap
  /\ CharCap <= Floor /\ Floor <= Trigger /\ Trigger <= StoreCap
  /\ \A s \in Starts :
       /\ s.con \in [Kind -> Stacked] /\ s.stored \in [Kind -> Stacked]
       /\ s.kits \in [KitKind -> Nat]
       /\ {s.junk, s.mats, s.misc} \subseteq Nat
       /\ s.gold \in 0..CharCap /\ s.bank \in 0..StoreCap

VARIABLES
  state,      \* the bot's state: "InTown", "Merchant", "Maintenance", ...
  pc,         \* the step of the upkeep
  con, stored, \* conset stacks on the character and in the chest
  kits, junk, mats, misc, \* slots taken on the character
  recipe,     \* the materials carried suffice for some conset
  chest,      \* chest slots taken by other things
  gold, bank, \* gold on the character and in the chest
  open,       \* a merchant's window is open
  pass,       \* passes of the current loop
  at,         \* index of the kind or kit a loop has come to
  made,       \* a craft of the current pass succeeded
  missing,    \* counts below the target, as read when the restock began
  mode,       \* who crafts: "rebalance" or "restock"
  again,      \* the follow-up pass of the full maintenance has been made
  retries

bags == <<con, stored, kits, junk, mats, misc, recipe, chest>>
purse == <<gold, bank>>
locals == <<open, pass, at, made, missing, mode, again, retries>>
vars == <<state, pc, bags, purse, locals>>

----------------------------------------------------------------------------
(* What the code reads of the bags.                                         *)

KitSlots(k) == MapThenSumSet(LAMBDA i : k[i], KitKind)
ConsetSlots(b) == MapThenSumSet(LAMBDA c : Stacks(b[c]), Kind)
FreeSlots == Slots - junk - mats - misc - KitSlots(kits) - ConsetSlots(con)
ChestFree == ChestSlots - chest - ConsetSlots(stored)

Carried(c) == Units(con[c])
LooseConsets == \E c \in Kind : Carried(c) > 0

NeedsRestock == \E c \in Kind : Carried(c) < TargetEach

NeedsRebalance ==
  LET counts == {Carried(c) : c \in Kind} IN
  /\ NeedsRestock
  /\ Max(counts) > Max({Tolerance, TargetEach})
  /\ Min(counts) + Max({Tolerance, TargetEach}) < Max(counts)

ShouldCraftForSlots == StackTrigger > 0 /\ mats >= StackTrigger /\ recipe

HasFreeSlotAction ==
  \/ junk > 0
  \/ ChestFree > 0 /\ (mats > 0 \/ LooseConsets \/ misc > 0)
  \/ ShouldCraftForSlots

NeedsMaintenance ==
  \/ FreeSlots < Max({MinFree, Critical}) /\ HasFreeSlotAction
  \/ FreeSlots > MinFree /\ \E k \in KitKind : kits[k] < KitTarget[k]
  \/ gold >= MaxGold
  \/ misc > 0 /\ ChestFree > 0
  \/ ShouldCraftForSlots
  \/ NeedsRestock
  \/ NeedsRebalance

----------------------------------------------------------------------------
(* Gold.                                                                    *)

(* DepositGold: the chest takes no more than its limit.                     *)
DepositGold(keep) ==
  LET room == StoreCap - bank
      over == IF gold > keep THEN gold - keep ELSE 0
      n == Min({over, room})
  IN gold' = gold - n /\ bank' = bank + n

(* WithdrawGold: the character carries no more than its limit.              *)
WithdrawGold(amount) ==
  LET n == Min({amount, bank, CharCap - gold})
  IN gold' = gold + n /\ bank' = bank - n

(* Crafting may borrow below the floor, but not more than one withdrawal's  *)
(* worth, and only when nothing is left above it.                           *)
Above(level) == IF bank > level THEN bank - level ELSE 0
SafeWithdraw == Above(Floor)
\* Mutant: whatever was borrowed before, another load is lent.
BorrowAgain ==
  IF SafeWithdraw = 0 THEN CharCap ELSE SafeWithdraw

BorrowWithdraw ==
  IF SafeWithdraw = 0 THEN Above(Floor - CharCap) ELSE SafeWithdraw

TopUp(safe) == WithdrawGold(Min({CharCap - gold, safe}))

(* A purchase or a craft costs any part of what the character carries.      *)
Spend == gold' \in 0..gold

----------------------------------------------------------------------------
Init ==
  \E s \in Starts :
    /\ con = s.con /\ stored = s.stored /\ kits = s.kits
    /\ junk = s.junk /\ mats = s.mats /\ misc = s.misc /\ chest = 0
    /\ recipe = (s.mats > 0)
    /\ gold = s.gold /\ bank = s.bank
    /\ state \in {"InTown", "Merchant"}
    /\ pc = "enter" /\ open = FALSE /\ pass = 0 /\ at = 1 /\ made = FALSE
    /\ missing = [c \in Kind |-> 0] /\ mode = "restock"
    /\ again = FALSE /\ retries = 0

Step(from, to) == pc = from /\ pc' = to

(* HandleTownSetup: maintenance only when it is needed.                     *)
TownLeaves ==
  /\ state = "InTown" /\ pc = "enter" /\ ~NeedsMaintenance
  /\ state' = "left" /\ pc' = "over"
  /\ UNCHANGED <<bags, purse, locals>>

TownMaintains ==
  /\ state = "InTown" /\ pc = "enter" /\ NeedsMaintenance
  /\ \/ open' = TRUE /\ pc' = "deposit" /\ UNCHANGED purse
     \/ open' = FALSE /\ pc' = "decide" /\ DepositGold(KeepGold)
  /\ UNCHANGED <<state, bags, pass, at, made, missing, mode, again, retries>>

(* RunMerchantMaintenanceState and RunFullMaintenanceState: the outpost may *)
(* be out of reach; without a merchant the first only deposits gold, the    *)
(* second does what needs no merchant.                                      *)
OutpostOutOfReach ==
  /\ state \in {"Merchant", "Maintenance"} /\ pc = "enter"
  /\ state' = "Stopping" /\ pc' = "over"
  /\ UNCHANGED <<bags, purse, locals>>

MerchantMaintains ==
  /\ state = "Merchant" /\ pc = "enter"
  /\ \/ open' = TRUE /\ pc' = "deposit" /\ UNCHANGED purse
     \/ open' = FALSE /\ pc' = "decide" /\ DepositGold(KeepGold)
  /\ UNCHANGED <<state, bags, pass, at, made, missing, mode, again, retries>>

FullMaintains ==
  /\ state = "Maintenance" /\ pc = "enter"
  /\ open' \in BOOLEAN /\ pc' = "deposit" /\ again' = FALSE
  /\ UNCHANGED <<state, bags, purse, pass, at, made, missing, mode, retries>>

----------------------------------------------------------------------------
(* PerformMaintenance.                                                      *)

(* Step 1, and the identification, which changes no count.                  *)
DepositFirst ==
  /\ Step("deposit", "sell")
  /\ IF gold >= DepositAt THEN DepositGold(KeepGold) ELSE UNCHANGED purse
  /\ UNCHANGED <<state, bags, locals>>

(* Step 3: each sale may be refused.                                        *)
SellJunk ==
  /\ Step("sell", "kits") /\ at' = 1
  /\ \E n \in IF open THEN 0..junk ELSE {0} :
       /\ junk' = junk - n
       /\ gold' = IF n > 0 THEN Min({gold + 1, CharCap}) ELSE gold
  /\ UNCHANGED <<state, con, stored, kits, mats, misc, recipe, chest, bank, open,
                 pass, made, missing, mode, again, retries>>

\* Mutant: one slot of the preferred ones is given away.
KitBudgetOffByOne(k) ==
  LET need == KitTarget[k] - kits[k]
      spare == IF FreeSlots >= MinFree THEN FreeSlots + 1 - MinFree ELSE 0
  IN IF need <= 0 THEN 0 ELSE Min({need, spare, FreeSlots})

(* BuyKitsToTarget, one kind: no more than the free slots above the minimum *)
(* allow, counted again for each kind.                                      *)
KitBudget(k) ==
  LET need == KitTarget[k] - kits[k]
      spare == IF FreeSlots > MinFree THEN FreeSlots - MinFree ELSE 0
  IN IF need <= 0 THEN 0 ELSE Min({need, spare})

BuyKit ==
  /\ pc = "kits" /\ open /\ at <= Len(Kits)
  /\ at' = at + 1
  /\ LET k == Kits[at] IN
       \E n \in {0, KitBudget(k)} :
         /\ kits' = [kits EXCEPT ![k] = @ + n]
         /\ IF n > 0 THEN Spend ELSE UNCHANGED gold
  /\ UNCHANGED <<state, pc, con, stored, junk, mats, misc, recipe, chest, bank,
                 open, pass, made, missing, mode, again, retries>>

KitsDone ==
  /\ Step("kits", "convert") /\ (~open \/ at > Len(Kits))
  /\ pass' = 0 /\ at' = 1 /\ open' = FALSE
  /\ UNCHANGED <<state, bags, purse, made, missing, mode, again, retries>>

(* CraftConsetAtNpc: up to n units of a kind; they join a stack that has    *)
(* room, or need a slot.  Gold that falls counts as a craft as well.        *)
Crafted(b, n) ==
  LET joins == {q \in 1..StackMax : b[q] > 0 /\ q + n <= StackMax} IN
  IF joins # {} THEN {Put(Take(b, q), q + n) : q \in joins}
  ELSE IF FreeSlots > 0 /\ n <= StackMax THEN {Put(b, n)} ELSE {}

(* What a craft, a purchase or the chest does to the materials: a stack may *)
(* go or come, and with it, or without, what a conset takes.                *)
MaterialsUsed ==
  /\ mats' \in {mats} \cup {m \in {mats - 1} : m >= 0}
  /\ recipe' \in {r \in BOOLEAN : r => recipe /\ mats' > 0}

MaterialsBought ==
  /\ mats' \in {mats} \cup {m \in {mats + 1} : FreeSlots > 0}
  /\ recipe' \in {r \in BOOLEAN : (recipe => r) /\ (r => mats' > 0)}

MaterialsStored ==
  /\ mats' \in 0..mats
  /\ recipe' \in IF mats' = mats THEN {recipe} ELSE {r \in BOOLEAN : r => mats' > 0}

Craft(c, most) ==
  /\ recipe
  /\ \E n \in 1..most : \E b \in Crafted(con[c], n) \cup {con[c]} :
        con' = [con EXCEPT ![c] = b]
  /\ MaterialsUsed /\ Spend

NoCraft == UNCHANGED <<con, mats, recipe, gold>>

(* Step 6b, ConvertInventoryCraftMaterialsToConsets: passes of              *)
(* PressureCraftConsetsOnce while carried materials press.                  *)
ConvertTriggered == ShouldCraftForSlots \/ (FreeSlots < MinFree /\ mats > 0)

ConvertPass ==
  /\ pc = "convert" /\ ConvertTriggered /\ pass < ConvertPasses
  /\ \/ /\ TopUp(BorrowWithdraw)
        /\ pc' = "press" /\ at' = 1 /\ made' = FALSE
     \/ pc' = "rebalance" /\ UNCHANGED <<purse, at, made>>   \* no way to Embark
  /\ UNCHANGED <<state, bags, open, pass, missing, mode, again, retries>>

ConvertEnds ==
  /\ Step("convert", "rebalance") /\ ~(ConvertTriggered /\ pass < ConvertPasses)
  /\ pass' = 0
  /\ UNCHANGED <<state, bags, purse, open, at, made, missing, mode, again, retries>>

PressureCraft ==
  /\ pc = "press" /\ at <= Len(Consets)
  /\ at' = at + 1
  /\ (Craft(Consets[at], Batch) /\ made' = TRUE) \/ (NoCraft /\ UNCHANGED made)
  /\ UNCHANGED <<state, pc, stored, kits, junk, misc, chest, bank, open, pass,
                 missing, mode, again, retries>>

PressureDone ==
  /\ Step("press", IF made THEN "press store" ELSE "rebalance")
  /\ at > Len(Consets) /\ at' = 1 /\ made' = FALSE
  /\ UNCHANGED <<state, bags, purse, open, pass, missing, mode, again, retries>>

\* Mutant: the size of the stack is not looked at.
MayStoreAny(c, q) ==
  con[c][q] > 0 /\ Carried(c) > TargetEach

(* DepositExcessConsetsToStorage: a stack leaves only if the target stays.  *)
MayStore(c, q) ==
  con[c][q] > 0 /\ Carried(c) > TargetEach /\ Carried(c) - q >= TargetEach

StoreStack(c, q) ==
  /\ con' = [con EXCEPT ![c] = Take(@, q)]
  /\ stored' = [stored EXCEPT ![c] = Put(@, q)]

StoreExcess ==
  /\ pc \in {"press store", "chest consets"} /\ ChestFree > 0
  /\ \E c \in Kind : \E q \in 1..StackMax : MayStore(c, q) /\ StoreStack(c, q)
  /\ UNCHANGED <<state, pc, kits, junk, mats, misc, recipe, chest, purse, locals>>

ExcessStored ==
  ChestFree = 0 \/ ~\E c \in Kind : \E q \in 1..StackMax : MayStore(c, q)

PressureStored ==
  /\ Step("press store", "convert") /\ ExcessStored
  /\ pass' = pass + 1
  /\ DepositGold(KeepGold)
  /\ UNCHANGED <<state, bags, open, at, made, missing, mode, again, retries>>

(* Step 6c: what is missing is counted once, before anything is withdrawn.  *)
Shortage == [c \in Kind |-> IF Carried(c) < TargetEach THEN TargetEach - Carried(c)
                            ELSE 0]

Rebalance ==
  /\ pc = "rebalance"
  /\ IF NeedsRebalance
       THEN /\ pc' = "craft" /\ mode' = "rebalance" /\ missing' = Shortage
            /\ at' = 1
       ELSE pc' = "restock" /\ UNCHANGED <<mode, missing, at>>
  /\ UNCHANGED <<state, bags, purse, open, pass, made, again, retries>>

Restock ==
  /\ pc = "restock"
  /\ IF NeedsRestock
       THEN /\ mode' = "restock" /\ missing' = Shortage /\ at' = 1
            /\ pc' = IF \E c \in Kind : Stacks(stored[c]) > 0 THEN "withdraw" ELSE "craft"
       ELSE pc' = "chest" /\ UNCHANGED <<mode, missing, at>>
  /\ UNCHANGED <<state, bags, purse, open, pass, made, again, retries>>

(* WithdrawStorageModelToInventory: the largest stack, into an empty slot,  *)
(* until the target is carried or a move is not seen to arrive.             *)
Withdrawable(c) ==
  Carried(c) < TargetEach /\ Stacks(stored[c]) > 0 /\ FreeSlots > 0

WithdrawStack ==
  /\ pc = "withdraw" /\ at <= Len(Consets) /\ Withdrawable(Consets[at])
  /\ LET c == Consets[at]
         q == Max({s \in 1..StackMax : stored[c][s] > 0})
     IN \/ /\ con' = [con EXCEPT ![c] = Put(@, q)]
           /\ stored' = [stored EXCEPT ![c] = Take(@, q)]
           /\ UNCHANGED at
        \/ at' = at + 1 /\ UNCHANGED <<con, stored>>
  /\ UNCHANGED <<state, pc, kits, junk, mats, misc, recipe, chest, purse, open,
                 pass, made, missing, mode, again, retries>>

WithdrawNext ==
  /\ pc = "withdraw" /\ at <= Len(Consets) /\ ~Withdrawable(Consets[at])
  /\ at' = at + 1
  /\ UNCHANGED <<state, pc, bags, purse, open, pass, made, missing, mode, again,
                 retries>>

WithdrawDone ==
  /\ Step("withdraw", IF NeedsRestock THEN "craft" ELSE "chest")
  /\ at > Len(Consets) /\ at' = 1
  /\ UNCHANGED <<state, bags, purse, open, pass, made, missing, mode, again, retries>>

(* CraftConsetModelForCharacter for each kind that was missing (Embark      *)
(* Beach may be out of reach): the purse is filled up, materials are        *)
(* bought, the purse is filled up again, and the crafter is paid.           *)
CraftMissing ==
  /\ pc = "craft" /\ at <= Len(Consets)
  /\ IF missing[Consets[at]] = 0
       THEN at' = at + 1 /\ UNCHANGED <<pc, purse>>
       ELSE TopUp(BorrowWithdraw) /\ pc' = "top off" /\ UNCHANGED at
  /\ UNCHANGED <<state, bags, open, pass, made, missing, mode, again, retries>>

(* The trader may be out of reach, or the materials still not be enough.    *)
TopOff ==
  /\ pc = "top off"
  /\ \/ MaterialsBought /\ Spend
     \/ UNCHANGED <<mats, recipe, gold>>
  /\ \/ pc' = "craft" /\ at' = at + 1
     \/ recipe' /\ pc' = "fill up" /\ UNCHANGED at
  /\ UNCHANGED <<state, con, stored, kits, junk, misc, chest, bank, open, pass,
                 made, missing, mode, again, retries>>

FillUpAgain ==
  /\ Step("fill up", "at crafter")
  /\ TopUp(BorrowWithdraw)
  /\ UNCHANGED <<state, bags, locals>>

CraftAtNpc ==
  /\ Step("at crafter", "craft")
  /\ at' = at + 1
  /\ Craft(Consets[at], missing[Consets[at]]) \/ NoCraft
  /\ UNCHANGED <<state, stored, kits, junk, misc, chest, bank, open, pass, made,
                 missing, mode, again, retries>>

CraftDone ==
  /\ Step("craft", IF mode = "rebalance" THEN "restock" ELSE "chest")
  /\ at > Len(Consets) \/ at = 1
  /\ missing' = [c \in Kind |-> 0] /\ at' = 1 /\ mode' = "restock"
  /\ UNCHANGED <<state, bags, purse, open, pass, made, again, retries>>

(* Step 7: at the chest of the town.                                        *)
VisitChest ==
  /\ pc = "chest"
  /\ IF misc > 0 \/ (FreeSlots < MinFree /\ (mats > 0 \/ LooseConsets))
       THEN /\ pc' = "chest consets"
            /\ MaterialsStored
       ELSE pc' = "purse" /\ UNCHANGED <<mats, recipe>>
  /\ UNCHANGED <<state, con, stored, kits, junk, misc, chest, purse, locals>>

(* DepositGeneralStorageItemsToXunlai, as far as the chest has room.        *)
StoreMisc ==
  /\ Step("chest consets", "purse") /\ ExcessStored
  /\ LET n == Min({misc, ChestFree}) IN misc' = misc - n /\ chest' = chest + n
  /\ UNCHANGED <<state, con, stored, kits, junk, mats, recipe, purse, locals>>

(* Step 8.                                                                  *)
DepositLast ==
  /\ Step("purse", "excess") /\ pass' = 0
  /\ DepositGold(KeepGold)
  /\ UNCHANGED <<state, bags, open, at, made, missing, mode, again, retries>>

(* Step 9, ConvertExcessStorageGoldToConsets.                               *)
ShortInChest == \E c \in Kind : Units(stored[c]) < StoredEach

Excess ==
  /\ Step("excess", IF bank > Trigger /\ ShortInChest THEN "sets" ELSE "decide")
  /\ UNCHANGED <<state, bags, purse, locals>>

(* RestockConsetsOnce: gold down to the floor, materials, crafts, and every *)
(* conset into the chest.                                                   *)
SetsPass ==
  /\ pc = "sets" /\ pass < ExcessPasses /\ bank > Floor
  /\ TopUp(SafeWithdraw)
  /\ pc' = "buy" /\ at' = 1 /\ made' = FALSE
  /\ UNCHANGED <<state, bags, open, pass, missing, mode, again, retries>>

BuyMaterials ==
  /\ pc = "buy"
  /\ \/ /\ pc' = "make"
        /\ MaterialsBought /\ Spend
     \/ pc' = "sets end" /\ UNCHANGED <<mats, recipe, gold>>   \* no trader
  /\ UNCHANGED <<state, con, stored, kits, junk, misc, chest, bank, locals>>

SetsToCraft ==
  LET deficit == Max({StoredEach - Units(stored[c]) : c \in Kind}) IN
  IF deficit > 0 THEN Min({deficit, Batch}) ELSE Batch

MakeSets ==
  /\ pc = "make" /\ at <= Len(Consets)
  /\ at' = at + 1
  /\ (Craft(Consets[at], SetsToCraft) /\ made' = TRUE) \/ (NoCraft /\ UNCHANGED made)
  /\ UNCHANGED <<state, pc, stored, kits, junk, misc, chest, bank, open, pass,
                 missing, mode, again, retries>>

SetsMade ==
  /\ Step("make", IF made THEN "store all" ELSE "sets end")
  /\ at > Len(Consets) /\ at' = 1 /\ made' = FALSE
  /\ UNCHANGED <<state, bags, purse, open, pass, missing, mode, again, retries>>

(* No more passes, or one that failed (Embark Beach out of reach among      *)
(* them); the deposit is left out when the town is not stable.              *)
SetsEnd ==
  /\ pc \in {"sets", "sets end"} /\ pc' = "decide"
  /\ \/ (gold >= MaxGold \/ gold >= DepositAt) /\ DepositGold(KeepGold)
     \/ UNCHANGED purse
  /\ pass' = 0
  /\ UNCHANGED <<state, bags, open, at, made, missing, mode, again, retries>>

(* DepositItemModelsToStorage: the character's own consets as well.         *)
StoreAll ==
  /\ pc = "store all" /\ ChestFree > 0
  /\ \E c \in Kind : \E q \in 1..StackMax : con[c][q] > 0 /\ StoreStack(c, q)
  /\ UNCHANGED <<state, pc, kits, junk, mats, misc, recipe, chest, purse, locals>>

AllStored ==
  /\ Step("store all", "sets") /\ (ChestFree = 0 \/ ~LooseConsets)
  /\ pass' = pass + 1
  /\ DepositGold(KeepGold)
  /\ UNCHANGED <<state, bags, open, at, made, missing, mode, again, retries>>

----------------------------------------------------------------------------
(* What the bot does after the maintenance.                                 *)

Over(next) == state' = next /\ pc' = IF next \in {"left", "Stopping"} THEN "over" ELSE "enter"

\* Mutant: only the free slots are looked at.
DecideTownByRoom ==
  /\ state = "InTown" /\ pc = "decide"
  /\ Over(IF FreeSlots < Critical THEN "Stopping" ELSE "left")
  /\ UNCHANGED <<bags, purse, locals>>

DecideTown ==
  /\ state = "InTown" /\ pc = "decide"
  /\ Over(IF FreeSlots < Critical \/ NeedsRestock THEN "Stopping" ELSE "left")
  /\ UNCHANGED <<bags, purse, locals>>

(* The town's runtime may not be stable: the same state again.              *)
TryAgain ==
  /\ state \in {"Merchant", "Maintenance"} /\ pc = "decide" /\ retries < MaxRetries
  /\ retries' = retries + 1 /\ Over(state)
  /\ UNCHANGED <<bags, purse, open, pass, at, made, missing, mode, again>>

DecideMerchant ==
  /\ state = "Merchant" /\ pc = "decide"
  /\ Over(IF NeedsMaintenance THEN "Maintenance" ELSE "InTown")
  /\ UNCHANGED <<bags, purse, locals>>

(* SellEmergencyItemsForFreeSlots: forced sales, white weapons, then kits,  *)
(* until there is room or a sale does not free a slot.                      *)
EmergencySale ==
  /\ state = "Maintenance" /\ Step("decide", "follow") /\ ~again
  /\ LET short == Max({MinFree, Critical}) - FreeSlots IN
       \E j \in 0..junk : \E sold \in [KitKind -> 0..Max({kits[k] : k \in KitKind})] :
         LET n == j + KitSlots(sold) IN
         /\ n <= Max({short, 0})
         /\ \A k \in KitKind : sold[k] <= kits[k] /\ (k # Kits[Len(Kits)] => sold[k] = 0)
         /\ junk' = junk - j
         /\ kits' = [k \in KitKind |-> kits[k] - sold[k]]
         /\ gold' = IF n > 0 THEN Min({gold + 1, CharCap}) ELSE gold
  /\ UNCHANGED <<state, con, stored, mats, misc, recipe, chest, bank, locals>>

\* Mutant: as many follow-up passes as are needed.
FollowUpAgain ==
  /\ state = "Maintenance" /\ pc = "follow"
  /\ NeedsMaintenance /\ FreeSlots >= Critical /\ ~again
  /\ again' = FALSE
  /\ open' \in BOOLEAN
  /\ pc' = IF open' THEN "deposit" ELSE "decide"
  /\ UNCHANGED <<state, bags, purse, pass, at, made, missing, mode, retries>>

(* One follow-up pass when there is still something to do and room to move. *)
FollowUp ==
  /\ state = "Maintenance" /\ pc = "follow"
  /\ NeedsMaintenance /\ FreeSlots >= Critical /\ ~again
  /\ again' = TRUE
  /\ open' \in BOOLEAN
  /\ pc' = IF open' THEN "deposit" ELSE "decide"
  /\ UNCHANGED <<state, bags, purse, pass, at, made, missing, mode, retries>>

DecideFull ==
  /\ state = "Maintenance"
  /\ \/ pc = "follow" /\ ~(NeedsMaintenance /\ FreeSlots >= Critical)
     \/ pc = "decide" /\ again
  /\ Over(IF FreeSlots < Critical \/ NeedsRestock THEN "Stopping" ELSE "left")
  /\ UNCHANGED <<bags, purse, locals>>

----------------------------------------------------------------------------
Perform ==
  \/ DepositFirst \/ SellJunk \/ BuyKit \/ KitsDone
  \/ ConvertPass \/ ConvertEnds \/ PressureCraft \/ PressureDone
  \/ StoreExcess \/ PressureStored \/ Rebalance \/ Restock
  \/ WithdrawStack \/ WithdrawNext \/ WithdrawDone
  \/ CraftMissing \/ TopOff \/ FillUpAgain \/ CraftAtNpc \/ CraftDone
  \/ VisitChest \/ StoreMisc \/ DepositLast
  \/ Excess \/ SetsPass \/ BuyMaterials \/ MakeSets \/ SetsMade
  \/ SetsEnd \/ StoreAll \/ AllStored

Next ==
  \/ TownLeaves \/ TownMaintains \/ OutpostOutOfReach
  \/ MerchantMaintains \/ FullMaintains \/ Perform
  \/ DecideTown \/ TryAgain \/ DecideMerchant
  \/ EmergencySale \/ FollowUp \/ DecideFull

(* The bot's thread goes on.                                                *)
Spec == Init /\ [][Next]_vars /\ WF_vars(Next)

----------------------------------------------------------------------------
(* Neither purse is overdrawn or overfilled.                                *)
PurseOK == gold \in 0..CharCap /\ bank \in 0..StoreCap

(* Gold leaves the chest only above the floor, or, once nothing is left     *)
(* above it, to borrow at most one character's load in all, whatever the    *)
(* withdrawals before (MaintenanceMgr.cpp RestockConsetsOnce,               *)
(* PressureCraftConsetsOnce, EnsureCharacterGoldForConsetCrafting).         *)
ReserveKept ==
  [][bank' < bank =>
       \/ bank' >= Floor
       \/ bank <= Floor /\ bank' >= Floor - CharCap]_vars

(* No step of the upkeep takes the consets the next run needs from a        *)
(* character who has them, but the conversion of the chest's gold           *)
(* (DepositItemModelsToStorage in RestockConsetsOnce).                      *)
TargetKept ==
  [][con' # con /\ ~NeedsRestock => ~NeedsRestock' \/ pc = "store all"]_vars

(* Buying kits never leaves fewer than the preferred free slots, however    *)
(* many kinds are bought (ClampKitPurchaseToFreeSlotBudget).                *)
RoomKept ==
  [][\A k \in KitKind : kits'[k] > kits[k] => FreeSlots' >= MinFree]_vars

(* The bot leaves for the dungeon only with the consets it wants, and with  *)
(* a critically full bag only when no upkeep could free a slot, whichever   *)
(* of the three states it leaves from and whatever failed on the way.       *)
LeavesEquipped ==
  state = "left" =>
    /\ \A c \in Kind : Carried(c) >= TargetEach
    /\ FreeSlots < Critical => ~HasFreeSlotAction

(* Upkeep ends: the bot leaves or stops.                                    *)
MaintenanceSettles == <>(state \in {"left", "Stopping"})
=============================================================================
