--------------------------- MODULE MaintenanceProofs ---------------------------
(***************************************************************************)
(* Theorems about Maintenance.tla, for every kind of conset and kit, every  *)
(* limit, floor and stock: the chest's reserve, the target that is carried, *)
(* the slots that kits leave, and what the bot leaves for the dungeon with. *)
(* Bags are counted by sums over finite sets; the first lemmas say what     *)
(* such a sum does when one member changes.                                 *)
(***************************************************************************)
EXTENDS Maintenance, FiniteSetTheorems, SequenceTheorems, TLAPS

\* The least of two integers.
LEMMA MinOfTwo ==
    ASSUME NEW a \in Int, NEW b \in Int
    PROVE  Min({a, b}) = IF a <= b THEN a ELSE b
<1>1. \E x \in {a, b} : \A y \in {a, b} : x =< y
    OBVIOUS
<1>2. Min({a, b}) \in {a, b} /\ \A y \in {a, b} : Min({a, b}) =< y
    BY <1>1 DEF Min
<1> QED BY <1>2

\* The least of three.
LEMMA MinOfThree ==
    ASSUME NEW a \in Int, NEW b \in Int, NEW c \in Int
    PROVE  /\ Min({a, b, c}) \in {a, b, c}
           /\ Min({a, b, c}) <= a /\ Min({a, b, c}) <= b /\ Min({a, b, c}) <= c
<1>1. \E x \in {a, b, c} : \A y \in {a, b, c} : x =< y
  <2>1. CASE a <= b /\ a <= c BY <2>1
  <2>2. CASE b <= a /\ b <= c BY <2>2
  <2>3. CASE c <= a /\ c <= b BY <2>3
  <2> QED BY <2>1, <2>2, <2>3
<1> QED BY <1>1 DEF Min

\* The limits are numbers.
LEMMA Limits ==
    /\ {KeepGold, DepositAt, MaxGold, CharCap, Floor, Trigger, StoreCap} \subseteq Nat
    /\ CharCap <= Floor /\ Floor <= StoreCap
<1>1. {KeepGold, DepositAt, MaxGold, CharCap, Floor, Trigger, StoreCap} \subseteq Nat
    BY MaintenanceAssumption
<1>2. CharCap <= Floor /\ Floor <= Trigger /\ Trigger <= StoreCap
    BY MaintenanceAssumption
<1> QED BY <1>1, <1>2

-----------------------------------------------------------------------------
(* Transfers.                                                               *)

\* A deposit keeps both purses within their limits and takes nothing out of
\* the chest.
LEMMA DepositKeeps ==
    ASSUME PurseOK, NEW keep \in Nat, DepositGold(keep)
    PROVE  PurseOK' /\ bank' >= bank
<1> DEFINE room == StoreCap - bank
           over == IF gold > keep THEN gold - keep ELSE 0
           n == Min({over, room})
<1>1. gold \in Int /\ bank \in Int /\ 0 <= gold /\ gold <= CharCap /\ 0 <= bank
      /\ bank <= StoreCap /\ CharCap \in Int /\ StoreCap \in Int
    BY Limits DEF PurseOK
<1>2. over \in Int /\ room \in Int /\ 0 <= over /\ over <= gold /\ 0 <= room
    BY <1>1
<1>3. n = IF over <= room THEN over ELSE room
  <2> HIDE DEF over, room
  <2>1. \A a, b \in Int : Min({a, b}) = IF a <= b THEN a ELSE b
    BY MinOfTwo
  <2> QED BY <1>2, <2>1
<1>4. gold' = gold - n /\ bank' = bank + n
    BY DEF DepositGold
<1>5. n \in Int /\ 0 <= n /\ n <= gold /\ n <= room
  <2> HIDE DEF over, room, n
  <2> QED BY <1>1, <1>2, <1>3
<1> HIDE DEF n
<1> QED BY <1>1, <1>4, <1>5 DEF PurseOK

\* A withdrawal takes no more than it is asked for.
LEMMA WithdrawTakes ==
    ASSUME PurseOK, NEW amount \in Nat, WithdrawGold(amount)
    PROVE  PurseOK' /\ bank' <= bank /\ bank' >= bank - amount
<1> DEFINE load == CharCap - gold
           n == Min({amount, bank, load})
<1>1. gold \in Int /\ bank \in Int /\ 0 <= gold /\ gold <= CharCap /\ 0 <= bank
      /\ bank <= StoreCap /\ CharCap \in Int /\ StoreCap \in Int
    BY Limits DEF PurseOK
<1>2. load \in Int /\ 0 <= load
    BY <1>1
<1>3. n \in {amount, bank, load} /\ n <= amount /\ n <= bank /\ n <= load
  <2> HIDE DEF load
  <2> QED BY <1>1, <1>2, MinOfThree
<1>4. n \in Int /\ 0 <= n
  <2> HIDE DEF load, n
  <2> QED BY <1>1, <1>2, <1>3
<1>5. gold' = gold + n /\ bank' = bank - n
    BY DEF WithdrawGold
<1> HIDE DEF n
<1> QED BY <1>1, <1>2, <1>3, <1>4, <1>5 DEF PurseOK

\* What a step may do to the chest's gold.
Reserved == bank' < bank =>
    \/ bank' >= Floor
    \/ bank <= Floor /\ bank' >= Floor - CharCap

\* Filling up the character's purse for a craft, from above the floor or, with
\* nothing there, from the borrowed part below it.
LEMMA TopUpKeeps ==
    ASSUME PurseOK, NEW safe \in {SafeWithdraw, BorrowWithdraw}, TopUp(safe)
    PROVE  PurseOK' /\ Reserved
<1>1. gold \in Int /\ bank \in Int /\ 0 <= gold /\ gold <= CharCap /\ 0 <= bank
      /\ bank <= StoreCap /\ CharCap \in Nat /\ StoreCap \in Nat /\ Floor \in Nat
      /\ CharCap <= Floor
    BY Limits DEF PurseOK
<1>2. safe \in Nat /\ (bank > Floor => safe = bank - Floor)
      /\ (bank <= Floor => safe = 0 \/ safe = bank - (Floor - CharCap))
    BY <1>1 DEF SafeWithdraw, BorrowWithdraw, Above
<1> DEFINE amount == Min({CharCap - gold, safe})
<1>3. amount \in Nat /\ amount <= safe
    BY <1>1, <1>2, MinOfTwo
<1>4. WithdrawGold(amount)
    BY DEF TopUp
<1> HIDE DEF amount
<1>5. PurseOK' /\ bank' <= bank /\ bank' >= bank - amount
    BY <1>3, <1>4, WithdrawTakes
<1>6. bank' \in Int
    BY <1>5, Limits DEF PurseOK
<1>7. bank' >= bank - safe
    BY <1>1, <1>2, <1>3, <1>5, <1>6
<1> QED BY <1>1, <1>2, <1>5, <1>6, <1>7 DEF Reserved

\* What a sale brings, up to the character's limit.
LEMMA EarnedKeeps ==
    ASSUME PurseOK, NEW b \in BOOLEAN,
           gold' = (IF b THEN Min({gold + 1, CharCap}) ELSE gold), bank' = bank
    PROVE  PurseOK' /\ Reserved
<1>1. gold \in Int /\ bank \in Int /\ 0 <= gold /\ gold <= CharCap /\ CharCap \in Int
    BY Limits DEF PurseOK
<1>2. Min({gold + 1, CharCap}) \in 0..CharCap
    BY <1>1, MinOfTwo
<1> QED BY <1>1, <1>2 DEF PurseOK, Reserved

\* What is paid comes out of the character's purse and goes no further.
LEMMA SpentKeeps ==
    ASSUME PurseOK, Spend \/ gold' = gold, bank' = bank
    PROVE  PurseOK' /\ Reserved
<1>1. gold \in Int /\ bank \in Int /\ 0 <= gold /\ gold <= CharCap /\ CharCap \in Int
    BY Limits DEF PurseOK
<1>2. gold' \in 0..CharCap
    BY <1>1 DEF Spend
<1> QED BY <1>1, <1>2 DEF PurseOK, Reserved

-----------------------------------------------------------------------------
\* Every step keeps both purses within their limits and the reserve in the chest.
LEMMA PurseStep ==
    ASSUME PurseOK, [Next]_vars
    PROVE  PurseOK' /\ Reserved
<1> USE DEF purse
<1>0. gold \in Int /\ bank \in Int
    BY Limits DEF PurseOK
<1>1. CASE UNCHANGED purse
    BY <1>0, <1>1 DEF PurseOK, Reserved
<1>2. CASE \E keep \in Nat : DepositGold(keep)
  <2>1. PurseOK' /\ bank' >= bank
    BY <1>2, DepositKeeps
  <2>2. bank' \in Int
    BY <2>1, Limits DEF PurseOK
  <2> QED BY <1>0, <2>1, <2>2 DEF Reserved
<1>3. CASE \E safe \in {SafeWithdraw, BorrowWithdraw} : TopUp(safe)
    BY <1>3, TopUpKeeps
<1>4. CASE SellJunk
  <2>1. PICK n : gold' = (IF n > 0 THEN Min({gold + 1, CharCap}) ELSE gold)
    BY <1>4 DEF SellJunk
  <2> QED BY <1>4, <2>1, EarnedKeeps DEF SellJunk
<1>5. CASE EmergencySale
  <2>1. \E n : gold' = (IF n > 0 THEN Min({gold + 1, CharCap}) ELSE gold)
    BY <1>5 DEF EmergencySale
  <2> QED BY <1>5, <2>1, EarnedKeeps DEF EmergencySale
<1>6. CASE BuyKit \/ PressureCraft \/ MakeSets \/ TopOff \/ CraftAtNpc \/ BuyMaterials
  <2>1. bank' = bank
    BY <1>6 DEF BuyKit, PressureCraft, MakeSets, TopOff, CraftAtNpc, BuyMaterials
  <2>2. Spend \/ gold' = gold
    BY <1>6 DEF BuyKit, PressureCraft, MakeSets, TopOff, CraftAtNpc, BuyMaterials,
       Craft, NoCraft
  <2> QED BY <2>1, <2>2, SpentKeeps
<1>7. CASE TownLeaves \/ OutpostOutOfReach \/ FullMaintains
    BY <1>1, <1>7 DEF TownLeaves, OutpostOutOfReach, FullMaintains
<1>8. CASE TownMaintains \/ MerchantMaintains
    BY <1>1, <1>2, <1>8, Limits DEF TownMaintains, MerchantMaintains
<1>9. CASE DepositFirst \/ DepositLast \/ PressureStored \/ AllStored \/ SetsEnd
    BY <1>1, <1>2, <1>9, Limits
       DEF DepositFirst, DepositLast, PressureStored, AllStored, SetsEnd
<1>10. CASE ConvertPass \/ SetsPass \/ CraftMissing \/ FillUpAgain
    BY <1>1, <1>3, <1>10 DEF ConvertPass, SetsPass, CraftMissing, FillUpAgain
<1>11. CASE KitsDone \/ ConvertEnds \/ PressureDone \/ StoreExcess \/ Rebalance \/ Restock
    BY <1>1, <1>11 DEF KitsDone, ConvertEnds, PressureDone, StoreExcess, Rebalance, Restock
<1>12. CASE WithdrawStack \/ WithdrawNext \/ WithdrawDone \/ CraftDone
            \/ VisitChest \/ StoreMisc \/ Excess \/ SetsMade \/ StoreAll
    BY <1>1, <1>12 DEF WithdrawStack, WithdrawNext, WithdrawDone, CraftDone,
       VisitChest, StoreMisc, Excess, SetsMade, StoreAll
<1>13. CASE DecideTown \/ TryAgain \/ DecideMerchant \/ FollowUp \/ DecideFull
    BY <1>1, <1>13 DEF DecideTown, TryAgain, DecideMerchant, FollowUp, DecideFull
<1>14. CASE UNCHANGED vars
    BY <1>1, <1>14 DEF vars
<1> QED
  BY <1>4, <1>5, <1>6, <1>7, <1>8, <1>9, <1>10, <1>11, <1>12, <1>13, <1>14
     DEF Next, Perform

\* Neither the character nor the chest is overdrawn or overfilled by any
\* sequence of deposits, withdrawals, purchases and sales (DepositGold,
\* WithdrawGold and their callers in MaintenanceMgr.cpp).
THEOREM PurseCorrect == Spec => []PurseOK
<1>1. Init => PurseOK
    BY MaintenanceAssumption DEF Init, PurseOK
<1>2. PurseOK /\ [Next]_vars => PurseOK'
    BY PurseStep
<1> QED BY <1>1, <1>2, PTL DEF Spec

\* The reserve in the chest: no withdrawal for crafting goes below the floor but
\* the one load that is borrowed once nothing is left above it.
THEOREM ReserveIsKept == Spec => ReserveKept
<1>1. Init => PurseOK
    BY MaintenanceAssumption DEF Init, PurseOK
<1>2. PurseOK /\ [Next]_vars => PurseOK'
    BY PurseStep
<1>3. PurseOK /\ [Next]_vars =>
        [bank' < bank => \/ bank' >= Floor
                         \/ bank <= Floor /\ bank' >= Floor - CharCap]_vars
    BY PurseStep DEF Reserved
<1> QED BY <1>1, <1>2, <1>3, PTL DEF Spec, ReserveKept

-----------------------------------------------------------------------------
(* Sums over finite sets.  The counts of the bags are folds, whose value is *)
(* a CHOOSE over functions of all subsets; that there is exactly one such   *)
(* function is shown by a smallest counterexample among the subsets.        *)

\* The sums over the subsets of S of what w gives its members, each sum by taking
\* out one member, as MapThenSumSet does.
Sums(w, S, g) ==
    g = [s \in SUBSET S |-> IF s = {} THEN 0
                            ELSE w[CHOOSE x \in s : TRUE] + g[s \ {CHOOSE x \in s : TRUE}]]

Sum(w, S) == (CHOOSE g : Sums(w, S, g))[S]

\* A set of subsets of a finite set has one that contains no other of them.
LEMMA SmallestSubset ==
    ASSUME NEW S, IsFiniteSet(S), NEW T, T \subseteq SUBSET S, T # {}
    PROVE  \E u \in T : \A t \in T : t \subseteq u => t = u
<1>1. FiniteSubsetsOf(S) = SUBSET S BY FS_FiniteSubsetsOfFinite
<1>2. PICK u \in T : \A t \in T : ~(<<t, u>> \in StrictSubsetOrdering(S))
  BY <1>1, FS_StrictSubsetOrderingWellFounded, WFMin
<1>3. \A t \in T : t \subseteq u /\ t # u => <<t, u>> \in StrictSubsetOrdering(S)
  BY DEF StrictSubsetOrdering
<1>4. \A t \in T : t \subseteq u => t = u BY <1>2, <1>3
<1> QED BY <1>4

\* A member that is taken out leaves a smaller set.
LEMMA OneOut ==
    ASSUME NEW s, s # {}
    PROVE  /\ (CHOOSE x \in s : TRUE) \in s
           /\ s \ {CHOOSE x \in s : TRUE} \subseteq s
           /\ s \ {CHOOSE x \in s : TRUE} # s
<1>1. (CHOOSE x \in s : TRUE) \in s OBVIOUS
<1>2. PICK y : y = (CHOOSE x \in s : TRUE) OBVIOUS
<1>3. y \in s /\ y \notin s \ {y} BY <1>1, <1>2
<1> QED BY <1>2, <1>3

\* What the equation of the sums says of one of them.
LEMMA SumsAt ==
    ASSUME NEW w, NEW S, NEW g, Sums(w, S, g), NEW s \in SUBSET S, s # {}
    PROVE  g[s] = w[CHOOSE x \in s : TRUE] + g[s \ {CHOOSE x \in s : TRUE}]
BY DEF Sums

\* The equation determines the sums.
LEMMA SumsAgree ==
    ASSUME NEW w, NEW S, IsFiniteSet(S), NEW A \in SUBSET S, NEW B \in SUBSET S,
           NEW g, NEW h, Sums(w, A, g), Sums(w, B, h)
    PROVE  \A s \in SUBSET (A \cap B) : g[s] = h[s]
<1> SUFFICES ASSUME \E s \in SUBSET (A \cap B) : g[s] # h[s] PROVE FALSE OBVIOUS
<1>1. PICK T : T = {s \in SUBSET (A \cap B) : g[s] # h[s]} OBVIOUS
<1>2. T \subseteq SUBSET S /\ T # {} BY <1>1
<1>3. PICK u \in T : \A t \in T : t \subseteq u => t = u BY <1>2, SmallestSubset
<1>4. u \in SUBSET A /\ u \in SUBSET B /\ g[u] # h[u] BY <1>1
<1>5. u # {}
  <2>1. g[{}] = 0 /\ h[{}] = 0 BY DEF Sums
  <2> QED BY <1>4, <2>1
<1>6. PICK v : v = u \ {CHOOSE x \in u : TRUE} OBVIOUS
<1>7. v \subseteq u /\ v # u BY <1>5, <1>6, OneOut
<1>8. g[v] = h[v] BY <1>1, <1>3, <1>4, <1>7
<1>9. /\ g[u] = w[CHOOSE x \in u : TRUE] + g[v]
      /\ h[u] = w[CHOOSE x \in u : TRUE] + h[v]
  BY <1>4, <1>5, <1>6, SumsAt
<1> QED BY <1>4, <1>8, <1>9

\* There are such sums.
LEMMA SumsExist ==
    ASSUME NEW w, NEW S, IsFiniteSet(S)
    PROVE  \E g : Sums(w, S, g)
<1> SUFFICES ASSUME ~\E g : Sums(w, S, g) PROVE FALSE OBVIOUS
<1>1. PICK T : T = {s \in SUBSET S : ~\E g : Sums(w, s, g)} OBVIOUS
<1>2. T \subseteq SUBSET S /\ T # {} BY <1>1
<1>3. PICK u \in T : \A t \in T : t \subseteq u => t = u BY <1>2, SmallestSubset
<1>4. u \in SUBSET S /\ ~\E g : Sums(w, u, g) BY <1>1
<1> DEFINE below(s) == CHOOSE g : Sums(w, s, g)
<1>5. ASSUME NEW s \in SUBSET u, s # u PROVE Sums(w, s, below(s))
  <2>1. s \notin T BY <1>3, <1>5
  <2>2. \E g : Sums(w, s, g) BY <1>1, <1>4, <2>1
  <2> QED BY <2>2
<1> HIDE DEF below
<1> DEFINE out(s) == s \ {CHOOSE x \in s : TRUE}
           value(s) == IF s = {} THEN 0 ELSE w[CHOOSE x \in s : TRUE] + below(out(s))[out(s)]
           all == [s \in SUBSET u |-> value(s)]
<1>6. ASSUME NEW s \in SUBSET u, s # {}
      PROVE  out(s) \in SUBSET u /\ out(s) # u /\ all[out(s)] = below(out(s))[out(s)]
  <2>1. out(s) \subseteq s /\ out(s) # s BY <1>6, OneOut
  <2>2. out(s) \in SUBSET u /\ out(s) # u BY <2>1
  <2>3. PICK v : v = out(s) OBVIOUS
  <2>4. Sums(w, v, below(v)) BY <1>5, <2>2, <2>3
  <2>5. CASE v = {}
    <3>1. below(v)[v] = 0 BY <2>4, <2>5 DEF Sums
    <3>2. all[v] = 0 BY <2>5
    <3> QED BY <2>2, <2>3, <3>1, <3>2
  <2>6. CASE v # {}
    <3>1. PICK z : z = out(v) OBVIOUS
    <3>2. z \subseteq v /\ z # v BY <2>6, <3>1, OneOut
    <3>3. below(v)[v] = w[CHOOSE x \in v : TRUE] + below(v)[z]
      BY <2>4, <2>6, <3>1, SumsAt
    <3>4. z \in SUBSET u /\ z # u BY <2>2, <2>3, <3>2
    <3>5. Sums(w, z, below(z)) BY <1>5, <3>4
    <3>6. \A t \in SUBSET (v \cap z) : below(v)[t] = below(z)[t]
      <4>1. v \in SUBSET S /\ z \in SUBSET S BY <1>4, <2>2, <2>3, <3>4
      <4> QED BY <2>4, <3>5, <4>1, SumsAgree
    <3>7. below(v)[z] = below(z)[z] BY <3>2, <3>6
    <3>8. all[v] = w[CHOOSE x \in v : TRUE] + below(z)[z] BY <2>2, <2>3, <2>6, <3>1
    <3> QED BY <2>2, <2>3, <3>3, <3>7, <3>8
  <2> QED BY <2>5, <2>6
<1>7. \A s \in SUBSET u : all[s] = IF s = {} THEN 0 ELSE w[CHOOSE x \in s : TRUE] + all[out(s)]
  <2> SUFFICES ASSUME NEW s \in SUBSET u
               PROVE  all[s] = IF s = {} THEN 0 ELSE w[CHOOSE x \in s : TRUE] + all[out(s)]
    OBVIOUS
  <2>1. all[s] = value(s) OBVIOUS
  <2>2. CASE s = {} BY <2>1, <2>2
  <2>3. CASE s # {}
    <3>1. all[out(s)] = below(out(s))[out(s)] BY <1>6, <2>3
    <3>2. all[s] = w[CHOOSE x \in s : TRUE] + below(out(s))[out(s)] BY <2>1, <2>3
    <3> HIDE DEF all, out
    <3> QED BY <2>3, <3>1, <3>2
  <2> QED BY <2>2, <2>3
<1>8. PICK a : a = all OBVIOUS
<1>9. Sums(w, u, a)
  <2>1. a = [s \in SUBSET u |-> a[s]] BY <1>8
  <2>2. \A s \in SUBSET u : a[s] = IF s = {} THEN 0 ELSE w[CHOOSE x \in s : TRUE] + a[s \ {CHOOSE x \in s : TRUE}]
    BY <1>7, <1>8
  <2> HIDE DEF all
  <2> QED BY <2>1, <2>2 DEF Sums
<1> QED BY <1>4, <1>9

\* The sum is one of the sums that satisfy the equation.
LEMMA SumIs ==
    ASSUME NEW w, NEW S, IsFiniteSet(S)
    PROVE  \E g : Sums(w, S, g) /\ Sum(w, S) = g[S]
<1>1. \E g : Sums(w, S, g) BY SumsExist
<1>2. Sums(w, S, CHOOSE g : Sums(w, S, g)) BY <1>1
<1> QED BY <1>2 DEF Sum

\* Any solution of the equation gives the sum.
LEMMA SumOf ==
    ASSUME NEW w, NEW S, IsFiniteSet(S), NEW g, Sums(w, S, g)
    PROVE  Sum(w, S) = g[S]
<1>1. PICK h : Sums(w, S, h) /\ Sum(w, S) = h[S] BY SumIs
<1>2. \A s \in SUBSET (S \cap S) : g[s] = h[s] BY <1>1, SumsAgree
<1> QED BY <1>1, <1>2

\* A sum of naturals is one.
LEMMA SumNat ==
    ASSUME NEW S, IsFiniteSet(S), NEW w \in [S -> Nat]
    PROVE  Sum(w, S) \in Nat
<1>1. PICK g : Sums(w, S, g) /\ Sum(w, S) = g[S] BY SumIs
<1> SUFFICES ASSUME g[S] \notin Nat PROVE FALSE BY <1>1
<1>2. PICK T : T = {s \in SUBSET S : g[s] \notin Nat} OBVIOUS
<1>3. T \subseteq SUBSET S /\ T # {} BY <1>2
<1>4. PICK u \in T : \A t \in T : t \subseteq u => t = u BY <1>3, SmallestSubset
<1>5. u \in SUBSET S /\ g[u] \notin Nat BY <1>2
<1>6. u # {}
  <2>1. g[{}] = 0 BY <1>1 DEF Sums
  <2> QED BY <1>5, <2>1
<1>7. PICK k, v : k = (CHOOSE x \in u : TRUE) /\ v = u \ {k} OBVIOUS
<1>8. k \in u /\ v \subseteq u /\ v # u BY <1>6, <1>7, OneOut
<1>9. g[v] \in Nat
  <2>1. v \in SUBSET S /\ v \notin T BY <1>4, <1>5, <1>8
  <2> QED BY <1>2, <2>1
<1>10. g[u] = w[k] + g[v]
  <2>1. g[u] = w[CHOOSE x \in u : TRUE] + g[u \ {CHOOSE x \in u : TRUE}]
    BY <1>1, <1>5, <1>6, SumsAt
  <2> QED BY <1>7, <2>1
<1>11. w[k] \in Nat BY <1>5, <1>8
<1> QED BY <1>5, <1>9, <1>10, <1>11

\* A sum of zeros is zero.
LEMMA SumZero ==
    ASSUME NEW S, IsFiniteSet(S), NEW w, \A x \in S : w[x] = 0
    PROVE  Sum(w, S) = 0
<1>1. PICK g : Sums(w, S, g) /\ Sum(w, S) = g[S] BY SumIs
<1> SUFFICES ASSUME g[S] # 0 PROVE FALSE BY <1>1
<1>2. PICK T : T = {s \in SUBSET S : g[s] # 0} OBVIOUS
<1>3. T \subseteq SUBSET S /\ T # {} BY <1>2
<1>4. PICK u \in T : \A t \in T : t \subseteq u => t = u BY <1>3, SmallestSubset
<1>5. u \in SUBSET S /\ g[u] # 0 BY <1>2
<1>6. u # {}
  <2>1. g[{}] = 0 BY <1>1 DEF Sums
  <2> QED BY <1>5, <2>1
<1>7. PICK k, v : k = (CHOOSE x \in u : TRUE) /\ v = u \ {k} OBVIOUS
<1>8. k \in u /\ v \subseteq u /\ v # u BY <1>6, <1>7, OneOut
<1>9. g[v] = 0
  <2>1. v \in SUBSET S /\ v \notin T BY <1>4, <1>5, <1>8
  <2> QED BY <1>2, <2>1
<1>10. g[u] = w[k] + g[v]
  <2>1. g[u] = w[CHOOSE x \in u : TRUE] + g[u \ {CHOOSE x \in u : TRUE}]
    BY <1>1, <1>5, <1>6, SumsAt
  <2> QED BY <1>7, <2>1
<1>11. w[k] = 0 BY <1>5, <1>8
<1> QED BY <1>5, <1>9, <1>10, <1>11

\* What is added to one member is added to the sum.
LEMMA SumChanged ==
    ASSUME NEW S, IsFiniteSet(S), NEW w \in [S -> Int], NEW v \in [S -> Int],
           NEW k \in S, \A x \in S \ {k} : v[x] = w[x]
    PROVE  Sum(w, S) \in Int /\ Sum(v, S) = Sum(w, S) + (v[k] - w[k])
<1>1. PICK g : Sums(w, S, g) /\ Sum(w, S) = g[S] BY SumIs
<1>2. PICK h : Sums(v, S, h) /\ Sum(v, S) = h[S] BY SumIs
<1>3. PICK d \in Int : d = v[k] - w[k] OBVIOUS
<1> DEFINE Right(s) == g[s] \in Int /\ h[s] = g[s] + (IF k \in s THEN d ELSE 0)
<1> SUFFICES ASSUME ~Right(S) PROVE FALSE BY <1>1, <1>2, <1>3
<1>4. PICK T : T = {s \in SUBSET S : ~Right(s)} OBVIOUS
<1>5. T \subseteq SUBSET S /\ T # {} BY <1>4
<1>6. PICK u \in T : \A t \in T : t \subseteq u => t = u BY <1>5, SmallestSubset
<1>7. u \in SUBSET S /\ ~Right(u) BY <1>4
<1>8. u # {}
  <2>1. g[{}] = 0 /\ h[{}] = 0 BY <1>1, <1>2 DEF Sums
  <2>2. k \notin {} OBVIOUS
  <2> QED BY <1>7, <2>1, <2>2
<1>9. PICK y, r : y = (CHOOSE x \in u : TRUE) /\ r = u \ {y} OBVIOUS
<1>10. y \in u /\ r \subseteq u /\ r # u BY <1>8, <1>9, OneOut
<1>11. Right(r)
  <2>1. r \in SUBSET S /\ r \notin T BY <1>6, <1>7, <1>10
  <2> HIDE DEF Right
  <2> QED BY <1>4, <2>1
<1>12. g[u] = w[y] + g[r] /\ h[u] = v[y] + h[r]
  <2>0. u \in SUBSET S /\ Sums(w, S, g) BY <1>1, <1>7
  <2>1. g[u] = w[CHOOSE x \in u : TRUE] + g[u \ {CHOOSE x \in u : TRUE}]
    BY <2>0, <1>8 DEF Sums
  <2>2. h[u] = v[CHOOSE x \in u : TRUE] + h[u \ {CHOOSE x \in u : TRUE}]
    BY <1>2, <1>7, <1>8, SumsAt
  <2> QED BY <1>9, <2>1, <2>2
<1>13. w[y] \in Int /\ v[y] \in Int BY <1>7, <1>10
<1>14. CASE y = k
  <2>1. k \in u /\ k \notin r BY <1>9, <1>10, <1>14
  <2> QED BY <1>3, <1>7, <1>11, <1>12, <1>13, <1>14, <2>1
<1>15. CASE y # k
  <2>1. (k \in u) = (k \in r) BY <1>9, <1>15
  <2>2. v[y] = w[y] BY <1>7, <1>10, <1>15
  <2> QED BY <1>7, <1>11, <1>12, <1>13, <2>1, <2>2
<1> QED BY <1>14, <1>15

-----------------------------------------------------------------------------
(* The counts of the bags as such sums.                                     *)

\* A nonempty set of numbers up to n has a greatest one.
LEMMA GreatestOf ==
    ASSUME NEW n \in Nat, NEW T, T \subseteq 1 .. n, T # {}
    PROVE  Max(T) \in T /\ \A m \in T : m <= Max(T)
<1>1. PICK F : F = {{m \in T : m > k} : k \in T} OBVIOUS
<1>2. PICK S : S = 1 .. n /\ IsFiniteSet(S) BY FS_Interval
<1>3. F \subseteq SUBSET S /\ F # {}
  <2>1. \A k \in T : {m \in T : m > k} \subseteq S BY <1>2
  <2> QED BY <1>1, <2>1
<1>4. PICK u \in F : \A t \in F : t \subseteq u => t = u
  <2>1. IsFiniteSet(S) BY <1>2
  <2>2. \A D, G : IsFiniteSet(D) /\ G \subseteq SUBSET D /\ G # {}
                    => \E g \in G : \A t \in G : t \subseteq g => t = g
    BY SmallestSubset
  <2>3. \E g \in F : \A t \in F : t \subseteq g => t = g BY <1>3, <2>1, <2>2
  <2> QED BY <2>3
<1>5. PICK k \in T : u = {m \in T : m > k} BY <1>1, <1>4
<1>6. \A m \in T : m <= k
  <2> SUFFICES ASSUME NEW m \in T, m > k PROVE FALSE OBVIOUS
  <2>1. PICK t : t = {j \in T : j > m} OBVIOUS
  <2>2. t \in F BY <1>1, <2>1
  <2>3. \A j \in T : j > m => j > k OBVIOUS
  <2>4. t \subseteq u BY <1>5, <2>1, <2>3
  <2>5. m \in u /\ m \notin t BY <1>5, <2>1
  <2> QED BY <1>4, <2>2, <2>4, <2>5
<1>7. \E x \in T : \A y \in T : x >= y BY <1>6
<1> QED BY <1>7 DEF Max

\* The sum of one kind's stacks, and of its units.
LEMMA StacksSum ==
    ASSUME NEW b \in Stacked
    PROVE  Stacks(b) = Sum(b, 1 .. StackMax)
<1>1. DOMAIN b = 1 .. StackMax BY DEF Stacked
<1>2. MapThenSumSet(LAMBDA q : b[q], DOMAIN b) = Sum(b, DOMAIN b)
  BY DEF MapThenSumSet, MapThenFoldSet, Sum, Sums
<1> QED BY <1>1, <1>2 DEF Stacks

\* The units of the stacks, by size.
Weights(b) == [q \in 1 .. StackMax |-> q * b[q]]

UnitSums(b, g) ==
    g = [s \in SUBSET DOMAIN b |->
            IF s = {} THEN 0
            ELSE (CHOOSE x \in s : TRUE) * b[CHOOSE x \in s : TRUE]
                 + g[s \ {CHOOSE x \in s : TRUE}]]

\* The units of the stacks of one kind are such a sum.
LEMMA UnitsSum ==
    ASSUME NEW b \in Stacked
    PROVE  Units(b) = Sum(Weights(b), 1 .. StackMax)
<1>1. Units(b) = (CHOOSE g : UnitSums(b, g))[DOMAIN b]
  BY DEF Units, MapThenSumSet, MapThenFoldSet, UnitSums
<1>2. DOMAIN b = 1 .. StackMax BY DEF Stacked
<1>3. IsFiniteSet(1 .. StackMax) BY FS_Interval, MaintenanceAssumption
<1>4. ASSUME NEW g PROVE UnitSums(b, g) <=> Sums(Weights(b), 1 .. StackMax, g)
  <2> DEFINE one(s) == CHOOSE x \in s : TRUE
             left(s) == IF s = {} THEN 0 ELSE one(s) * b[one(s)] + g[s \ {one(s)}]
             right(s) == IF s = {} THEN 0 ELSE Weights(b)[one(s)] + g[s \ {one(s)}]
  <2>1. ASSUME NEW s \in SUBSET (1 .. StackMax) PROVE left(s) = right(s)
    <3>1. CASE s = {} BY <3>1
    <3>2. CASE s # {}
      <4>1. one(s) \in 1 .. StackMax BY <3>2
      <4> HIDE DEF one
      <4>2. Weights(b)[one(s)] = one(s) * b[one(s)] BY <4>1 DEF Weights
      <4> QED BY <4>2
    <3> QED BY <3>1, <3>2
  <2> HIDE DEF left, right
  <2>2. [s \in SUBSET (1 .. StackMax) |-> left(s)] = [s \in SUBSET (1 .. StackMax) |-> right(s)]
    BY <2>1
  <2>3. UnitSums(b, g) <=> g = [s \in SUBSET (1 .. StackMax) |-> left(s)]
    BY <1>2 DEF UnitSums, left
  <2>4. Sums(Weights(b), 1 .. StackMax, g) <=> g = [s \in SUBSET (1 .. StackMax) |-> right(s)]
    BY DEF Sums, right
  <2> QED BY <2>2, <2>3, <2>4
<1>5. \E g : Sums(Weights(b), 1 .. StackMax, g) BY <1>3, SumsExist
<1>6. PICK h : h = CHOOSE g : UnitSums(b, g) OBVIOUS
<1>7. UnitSums(b, h)
  <2>1. \E g : UnitSums(b, g) BY <1>4, <1>5
  <2> QED BY <1>6, <2>1
<1>8. Sums(Weights(b), 1 .. StackMax, h) BY <1>4, <1>7
<1> QED BY <1>1, <1>2, <1>3, <1>6, <1>8, SumOf

\* There are finitely many kinds of conset and of kit.
LEMMA KindsFinite == IsFiniteSet(Kind) /\ IsFiniteSet(KitKind)
<1>1. ASSUME NEW T, NEW q \in Seq(T), T = {q[i] : i \in DOMAIN q}
      PROVE  IsFiniteSet(T)
  <2>1. Len(q) \in Nat /\ DOMAIN q = 1 .. Len(q) /\ q \in [1 .. Len(q) -> T]
    BY <1>1, LenProperties, ElementOfSeq, SeqDef
  <2>2. PICK D : D = 1 .. Len(q) /\ IsFiniteSet(D) BY <2>1, FS_Interval
  <2>3. q \in Surjection(D, T)
    <3>1. q \in [D -> T] BY <2>1, <2>2
    <3>2. \A t \in T : \E i \in D : q[i] = t BY <1>1, <2>1, <2>2
    <3> QED BY <3>1, <3>2 DEF Surjection
  <2> QED BY <2>2, <2>3, FS_Surjection
<1>2. Consets \in Seq(Kind) /\ Kits \in Seq(KitKind) BY MaintenanceAssumption
<1> QED BY <1>1, <1>2 DEF Kind, KitKind

-----------------------------------------------------------------------------
(* What a change of one stack or of one kind of kit does to the counts.     *)

\* The slots that kits take.
LEMMA KitSlotsSum ==
    ASSUME NEW k
    PROVE  KitSlots(k) = Sum(k, KitKind)
BY DEF KitSlots, MapThenSumSet, MapThenFoldSet, Sum, Sums

\* The slots that consets take, by kind.
SlotsByKind(b) == [c \in Kind |-> Stacks(b[c])]

SlotSums(b, g) ==
    g = [s \in SUBSET Kind |->
            IF s = {} THEN 0
            ELSE Stacks(b[CHOOSE x \in s : TRUE]) + g[s \ {CHOOSE x \in s : TRUE}]]

\* The slots of all kinds of conset are the sum of their stacks.
LEMMA ConsetSlotsSum ==
    ASSUME NEW b
    PROVE  ConsetSlots(b) = Sum(SlotsByKind(b), Kind)
<1>1. ConsetSlots(b) = (CHOOSE g : SlotSums(b, g))[Kind]
  BY DEF ConsetSlots, MapThenSumSet, MapThenFoldSet, SlotSums
<1>2. ASSUME NEW g PROVE SlotSums(b, g) <=> Sums(SlotsByKind(b), Kind, g)
  <2> DEFINE one(s) == CHOOSE x \in s : TRUE
             left(s) == IF s = {} THEN 0 ELSE Stacks(b[one(s)]) + g[s \ {one(s)}]
             right(s) == IF s = {} THEN 0 ELSE SlotsByKind(b)[one(s)] + g[s \ {one(s)}]
  <2>1. ASSUME NEW s \in SUBSET Kind PROVE left(s) = right(s)
    <3>1. CASE s = {} BY <3>1
    <3>2. CASE s # {}
      <4>1. one(s) \in Kind BY <3>2
      <4> HIDE DEF one
      <4>2. SlotsByKind(b)[one(s)] = Stacks(b[one(s)]) BY <4>1 DEF SlotsByKind
      <4> QED BY <4>2
    <3> QED BY <3>1, <3>2
  <2> HIDE DEF left, right
  <2>2. [s \in SUBSET Kind |-> left(s)] = [s \in SUBSET Kind |-> right(s)] BY <2>1
  <2>3. SlotSums(b, g) <=> g = [s \in SUBSET Kind |-> left(s)] BY DEF SlotSums, left
  <2>4. Sums(SlotsByKind(b), Kind, g) <=> g = [s \in SUBSET Kind |-> right(s)]
    BY DEF Sums, right
  <2> QED BY <2>2, <2>3, <2>4
<1>3. \E g : Sums(SlotsByKind(b), Kind, g) BY KindsFinite, SumsExist
<1>4. PICK h : h = CHOOSE g : SlotSums(b, g) OBVIOUS
<1>5. SlotSums(b, h)
  <2>1. \E g : SlotSums(b, g) BY <1>2, <1>3
  <2> QED BY <1>4, <2>1
<1>6. Sums(SlotsByKind(b), Kind, h) BY <1>2, <1>5
<1> QED BY <1>1, <1>4, <1>6, KindsFinite, SumOf

\* Stacks, units and slots are numbers.
LEMMA CountsTyped ==
    ASSUME NEW b \in Stacked
    PROVE  Stacks(b) \in Nat /\ Units(b) \in Nat
<1>1. IsFiniteSet(1 .. StackMax) BY FS_Interval, MaintenanceAssumption
<1>2. b \in [1 .. StackMax -> Nat] BY DEF Stacked
<1>3. Weights(b) \in [1 .. StackMax -> Nat]
  <2>1. \A q \in 1 .. StackMax : q \in Nat /\ b[q] \in Nat BY <1>2
  <2>2. \A m, n \in Nat : m * n \in Nat OBVIOUS
  <2>3. \A q \in 1 .. StackMax : q * b[q] \in Nat BY <2>1, <2>2
  <2> QED BY <2>3 DEF Weights
<1>4. Sum(b, 1 .. StackMax) \in Nat BY <1>1, <1>2, SumNat
<1>5. Sum(Weights(b), 1 .. StackMax) \in Nat BY <1>1, <1>3, SumNat
<1> QED BY <1>4, <1>5, StacksSum, UnitsSum

\* Adding n stacks of a size, or with n negative taking them, adds their units.
LEMMA UnitsChanged ==
    ASSUME NEW b \in Stacked, NEW q \in 1 .. StackMax, NEW n \in Int, b[q] + n \in Nat
    PROVE  /\ [b EXCEPT ![q] = @ + n] \in Stacked
           /\ Units([b EXCEPT ![q] = @ + n]) = Units(b) + n * q
<1>1. IsFiniteSet(1 .. StackMax) BY FS_Interval, MaintenanceAssumption
<1>2. b \in [1 .. StackMax -> Nat] BY DEF Stacked
<1>3. PICK d : d = [b EXCEPT ![q] = @ + n] OBVIOUS
<1>4. d \in Stacked
  <2>1. d \in [1 .. StackMax -> Nat] BY <1>2, <1>3
  <2> QED BY <2>1 DEF Stacked
<1>5. d[q] = b[q] + n /\ \A x \in (1 .. StackMax) \ {q} : d[x] = b[x] BY <1>2, <1>3
<1>6. PICK w, v : w = Weights(b) /\ v = Weights(d) OBVIOUS
<1>7. ASSUME NEW e \in Stacked PROVE Weights(e) \in [1 .. StackMax -> Int]
  <2>1. \A x \in 1 .. StackMax : x \in Int /\ e[x] \in Int BY <1>7 DEF Stacked
  <2>2. \A x, y \in Int : x * y \in Int OBVIOUS
  <2>3. \A x \in 1 .. StackMax : x * e[x] \in Int BY <2>1, <2>2
  <2> QED BY <2>3 DEF Weights
<1>8. w \in [1 .. StackMax -> Int] /\ v \in [1 .. StackMax -> Int] BY <1>4, <1>6, <1>7
<1>9. \A x \in (1 .. StackMax) \ {q} : v[x] = w[x] BY <1>5, <1>6 DEF Weights
<1>10. Sum(w, 1 .. StackMax) \in Int
       /\ Sum(v, 1 .. StackMax) = Sum(w, 1 .. StackMax) + (v[q] - w[q])
  BY <1>1, <1>8, <1>9, SumChanged
<1>11. v[q] = q * (b[q] + n) /\ w[q] = q * b[q] BY <1>5, <1>6 DEF Weights
<1>12. v[q] - w[q] = n * q
  <2>1. q \in Int /\ b[q] \in Int /\ n \in Int BY <1>2
  <2>2. \A x, y, z \in Int : x * (y + z) - x * y = z * x OBVIOUS
  <2> QED BY <1>11, <2>1, <2>2
<1>13. Units(b) = Sum(w, 1 .. StackMax) /\ Units(d) = Sum(v, 1 .. StackMax)
  BY <1>4, <1>6, UnitsSum
<1> QED BY <1>3, <1>4, <1>10, <1>12, <1>13

\* A stack put down adds its units, ...
LEMMA PutUnits ==
    ASSUME NEW b \in Stacked, NEW q \in 1 .. StackMax
    PROVE  Put(b, q) \in Stacked /\ Units(Put(b, q)) = Units(b) + q
<1>1. b[q] + 1 \in Nat BY DEF Stacked
<1>2. 1 * q = q OBVIOUS
<1> QED BY <1>1, <1>2, UnitsChanged DEF Put

\* ... and one taken away takes them with it.
LEMMA TakeUnits ==
    ASSUME NEW b \in Stacked, NEW q \in 1 .. StackMax, b[q] > 0
    PROVE  Take(b, q) \in Stacked /\ Units(Take(b, q)) = Units(b) - q
<1>1. b[q] + (-1) \in Nat /\ b[q] + (-1) = b[q] - 1 BY DEF Stacked
<1>2. (-1) * q = -q OBVIOUS
<1>3. Take(b, q) = [b EXCEPT ![q] = @ + (-1)] BY <1>1 DEF Take
<1>4. Units(b) \in Int BY CountsTyped
<1>5. [b EXCEPT ![q] = @ + (-1)] \in Stacked
      /\ Units([b EXCEPT ![q] = @ + (-1)]) = Units(b) + (-1) * q
  BY <1>1, UnitsChanged
<1> QED BY <1>2, <1>3, <1>4, <1>5

\* Free slots are counted in whole numbers.
LEMMA SlotsTyped ==
    ASSUME NEW k \in [KitKind -> Nat], NEW b \in [Kind -> Stacked]
    PROVE  KitSlots(k) \in Nat /\ ConsetSlots(b) \in Nat
<1>1. SlotsByKind(b) \in [Kind -> Nat]
  <2>1. \A c \in Kind : Stacks(b[c]) \in Nat BY CountsTyped
  <2> QED BY <2>1 DEF SlotsByKind
<1>2. Sum(k, KitKind) \in Nat /\ Sum(SlotsByKind(b), Kind) \in Nat
  BY <1>1, KindsFinite, SumNat
<1> QED BY <1>2, KitSlotsSum, ConsetSlotsSum

\* One kind's kits more are as many slots more.
LEMMA KitSlotsChanged ==
    ASSUME NEW k \in [KitKind -> Nat], NEW i \in KitKind, NEW n \in Nat
    PROVE  KitSlots([k EXCEPT ![i] = @ + n]) = KitSlots(k) + n
<1>1. PICK v : v = [k EXCEPT ![i] = @ + n] OBVIOUS
<1>2. v \in [KitKind -> Int] /\ k \in [KitKind -> Int] /\ v[i] - k[i] = n
      /\ \A x \in KitKind \ {i} : v[x] = k[x]
  BY <1>1
<1>3. Sum(v, KitKind) = Sum(k, KitKind) + (v[i] - k[i]) BY <1>2, KindsFinite, SumChanged
<1> QED BY <1>1, <1>2, <1>3, KitSlotsSum

-----------------------------------------------------------------------------
(* The bags.                                                                *)

\* The pause between the steps of one craft keeps the kind the loop has come to.
AtKind == pc \in {"top off", "fill up", "at crafter"} => at <= Len(Consets)

\* What the bags and the loops hold.
BagsOK ==
    /\ con \in [Kind -> Stacked] /\ stored \in [Kind -> Stacked]
    /\ kits \in [KitKind -> Nat]
    /\ junk \in Nat /\ mats \in Nat /\ misc \in Nat /\ chest \in Int
    /\ at \in Nat \ {0} /\ missing \in [Kind -> Nat]
    /\ AtKind

\* Every kind is carried in the units the next run wants.
Enough(b) == \A c \in Kind : Units(b[c]) >= TargetEach

\* The numbers among the constants.
LEMMA Sizes ==
    /\ StackMax \in Nat \ {0}
    /\ Slots \in Nat /\ ChestSlots \in Nat /\ MinFree \in Nat /\ Critical \in Nat
    /\ TargetEach \in Nat /\ Batch \in Nat /\ KitTarget \in [KitKind -> Nat]
<1>1. {Slots, ChestSlots, MinFree, Critical, TargetEach, StoredEach, Tolerance,
       StackTrigger, Batch, ConvertPasses, ExcessPasses, MaxRetries} \subseteq Nat
  BY MaintenanceAssumption
<1>2. StackMax \in Nat \ {0} /\ KitTarget \in [KitKind -> Nat] BY MaintenanceAssumption
<1> QED BY <1>1, <1>2

\* Free slots are whole numbers, and NeedsRestock is about what is carried.
LEMMA CountsOK ==
    ASSUME BagsOK
    PROVE  /\ FreeSlots \in Int /\ ChestFree \in Int
           /\ \A c \in Kind : Carried(c) \in Nat /\ Stacks(stored[c]) \in Nat
           /\ ~NeedsRestock <=> Enough(con)
<1>1. KitSlots(kits) \in Nat /\ ConsetSlots(con) \in Nat /\ ConsetSlots(stored) \in Nat
  BY SlotsTyped DEF BagsOK
<1>2. FreeSlots \in Int /\ ChestFree \in Int BY <1>1, Sizes DEF BagsOK, FreeSlots, ChestFree
<1>3. \A c \in Kind : Carried(c) \in Nat /\ Stacks(stored[c]) \in Nat
  BY CountsTyped DEF BagsOK, Carried
<1>4. ~NeedsRestock <=> \A c \in Kind : Carried(c) >= TargetEach
  BY <1>3, Sizes DEF NeedsRestock
<1> QED BY <1>2, <1>3, <1>4 DEF Enough, Carried

-----------------------------------------------------------------------------
(* Consets that come and go.                                                *)

\* The kind that a loop has come to.
LEMMA LoopKind ==
    ASSUME BagsOK
    PROVE  /\ at <= Len(Consets) => Consets[at] \in Kind
           /\ at <= Len(Kits) => Kits[at] \in KitKind
<1>1. Consets \in Seq(Kind) /\ Kits \in Seq(KitKind) BY MaintenanceAssumption
<1>2. Len(Consets) \in Nat /\ Len(Kits) \in Nat BY <1>1, LenProperties
<1>3. at \in Nat \ {0} BY DEF BagsOK
<1> QED BY <1>1, <1>2, <1>3, ElementOfSeq

\* A craft adds its units to one kind.
LEMMA CraftedGrows ==
    ASSUME NEW b \in Stacked, NEW n \in Nat \ {0}, NEW d \in Crafted(b, n)
    PROVE  d \in Stacked /\ Units(d) = Units(b) + n
<1>1. Units(b) \in Nat BY CountsTyped
<1>2. CASE \E q \in 1 .. StackMax : b[q] > 0 /\ q + n <= StackMax /\ d = Put(Take(b, q), q + n)
  <2>1. PICK q \in 1 .. StackMax : b[q] > 0 /\ q + n <= StackMax /\ d = Put(Take(b, q), q + n)
    BY <1>2
  <2>2. q + n \in 1 .. StackMax BY <2>1, Sizes
  <2>3. Take(b, q) \in Stacked /\ Units(Take(b, q)) = Units(b) - q BY <2>1, TakeUnits
  <2>4. d \in Stacked /\ Units(d) = Units(Take(b, q)) + (q + n) BY <2>1, <2>2, <2>3, PutUnits
  <2> QED BY <1>1, <2>3, <2>4
<1>3. CASE n <= StackMax /\ d = Put(b, n)
  <2>1. n \in 1 .. StackMax BY <1>3, Sizes
  <2> QED BY <1>3, <2>1, PutUnits
<1> QED BY <1>2, <1>3 DEF Crafted

\* What is carried never shrinks but for StoreStack.
Grows == con' \in [Kind -> Stacked] /\ \A c \in Kind : Units(con'[c]) >= Units(con[c])

\* More of one kind, and no less of the others.
LEMMA OneKindGrows ==
    ASSUME BagsOK, NEW c \in Kind, NEW b \in Stacked, Units(b) >= Units(con[c]),
           con' = [con EXCEPT ![c] = b]
    PROVE  Grows
<1>1. \A x \in Kind : Units(con[x]) \in Nat BY CountsTyped DEF BagsOK
<1>2. con' \in [Kind -> Stacked] BY DEF BagsOK
<1>3. \A x \in Kind : con'[x] = IF x = c THEN b ELSE con[x] BY DEF BagsOK
<1>4. \A x \in Kind : Units(con'[x]) >= Units(con[x]) BY <1>1, <1>3
<1> QED BY <1>2, <1>4 DEF Grows

\* Nothing moved is nothing lost.
LEMMA SameGrows ==
    ASSUME BagsOK, con' = con
    PROVE  Grows
<1>1. \A x \in Kind : Units(con[x]) \in Nat BY CountsTyped DEF BagsOK
<1> QED BY <1>1 DEF BagsOK, Grows

\* A craft takes no conset away.
LEMMA CraftGrows ==
    ASSUME BagsOK, NEW c \in Kind, NEW most, Craft(c, most) \/ NoCraft
    PROVE  Grows
<1>1. CASE con' = con BY <1>1, SameGrows
<1>2. CASE \E n \in 1 .. most : \E b \in Crafted(con[c], n) \cup {con[c]} :
              con' = [con EXCEPT ![c] = b]
  <2>0. PICK n \in 1 .. most : \E b \in Crafted(con[c], n) \cup {con[c]} :
           con' = [con EXCEPT ![c] = b]
    BY <1>2
  <2>1. PICK b \in Crafted(con[c], n) \cup {con[c]} : con' = [con EXCEPT ![c] = b]
    BY <2>0
  <2>2. n \in Nat \ {0} /\ con[c] \in Stacked BY DEF BagsOK
  <2>3. Units(con[c]) \in Nat BY <2>2, CountsTyped
  <2>4. b \in Stacked /\ Units(b) >= Units(con[c]) BY <2>2, <2>3, CraftedGrows
  <2> QED BY <2>1, <2>4, OneKindGrows
<1>3. \/ con' = con
      \/ \E n \in 1 .. most : \E b \in Crafted(con[c], n) \cup {con[c]} :
            con' = [con EXCEPT ![c] = b]
  BY DEF Craft, NoCraft
<1> QED BY <1>1, <1>2, <1>3

\* Moving a stack into the chest.
LEMMA StoreMoves ==
    ASSUME BagsOK, NEW c \in Kind, NEW q \in 1 .. StackMax, con[c][q] > 0, StoreStack(c, q)
    PROVE  /\ con' \in [Kind -> Stacked] /\ stored' \in [Kind -> Stacked]
           /\ Units(con'[c]) = Units(con[c]) - q
           /\ \A x \in Kind \ {c} : con'[x] = con[x]
<1>1. con[c] \in Stacked /\ stored[c] \in Stacked BY DEF BagsOK
<1>2. Take(con[c], q) \in Stacked /\ Units(Take(con[c], q)) = Units(con[c]) - q
  BY <1>1, TakeUnits
<1>3. Put(stored[c], q) \in Stacked BY <1>1, PutUnits
<1>4. con' = [con EXCEPT ![c] = Take(con[c], q)] /\ stored' = [stored EXCEPT ![c] = Put(stored[c], q)]
  BY DEF StoreStack
<1> QED BY <1>2, <1>3, <1>4 DEF BagsOK

\* Moving the largest stack out of the chest.
LEMMA WithdrawMoves ==
    ASSUME BagsOK, NEW c \in Kind, NEW q, Stacks(stored[c]) > 0,
           q = Max({s \in 1 .. StackMax : stored[c][s] > 0}),
           con' = [con EXCEPT ![c] = Put(@, q)], stored' = [stored EXCEPT ![c] = Take(@, q)]
    PROVE  Grows /\ stored' \in [Kind -> Stacked]
<1>1. con[c] \in Stacked /\ stored[c] \in Stacked BY DEF BagsOK
<1>2. PICK T : T = {s \in 1 .. StackMax : stored[c][s] > 0} OBVIOUS
<1>3. T # {}
  <2> SUFFICES ASSUME T = {} PROVE FALSE OBVIOUS
  <2>1. PICK b \in Stacked : b = stored[c] BY <1>1
  <2>2. b \in [1 .. StackMax -> Nat] BY DEF Stacked
  <2>3. \A s \in 1 .. StackMax : s \notin T OBVIOUS
  <2>4. \A s \in 1 .. StackMax : ~(b[s] > 0) BY <1>2, <2>1, <2>3
  <2>5. \A s \in 1 .. StackMax : b[s] = 0 BY <2>2, <2>4
  <2>6. Sum(b, 1 .. StackMax) = 0 BY <2>2, <2>5, SumZero, FS_Interval, Sizes
  <2>7. Stacks(b) > 0 BY <2>1
  <2> QED BY <2>6, <2>7, StacksSum
<1>4. q \in 1 .. StackMax /\ stored[c][q] > 0
  <2>1. T \subseteq 1 .. StackMax /\ StackMax \in Nat BY <1>2, Sizes
  <2>2. Max(T) \in T BY <1>3, <2>1, GreatestOf
  <2> QED BY <1>2, <2>2
<1>5. Put(con[c], q) \in Stacked /\ Units(Put(con[c], q)) = Units(con[c]) + q
  BY <1>1, <1>4, PutUnits
<1>6. Take(stored[c], q) \in Stacked BY <1>1, <1>4, TakeUnits
<1>7. Units(con[c]) \in Nat BY <1>1, CountsTyped
<1>8. Grows BY <1>4, <1>5, <1>7, OneKindGrows
<1>9. stored' = [stored EXCEPT ![c] = Take(stored[c], q)] OBVIOUS
<1> QED BY <1>6, <1>8, <1>9 DEF BagsOK

-----------------------------------------------------------------------------
(* The steps.                                                               *)

\* What a step that withdraws, crafts or leaves the consets alone keeps.
LEMMA EnoughGrows ==
    ASSUME BagsOK, Grows
    PROVE  Enough(con) => Enough(con')
<1>1. \A c \in Kind : Units(con[c]) \in Nat /\ Units(con'[c]) \in Nat
  BY CountsTyped DEF BagsOK, Grows
<1>2. TargetEach \in Nat BY Sizes
<1> QED BY <1>1, <1>2 DEF Enough, Grows

\* Consets keep their types, and only the conversion of the chest's gold takes
\* what the next run needs.
LEMMA ConsetsStep ==
    ASSUME BagsOK, [Next]_vars
    PROVE  /\ con' \in [Kind -> Stacked] /\ stored' \in [Kind -> Stacked]
           /\ Enough(con) => Enough(con') \/ pc = "store all"
<1> USE DEF bags, purse, locals
<1>0. con \in [Kind -> Stacked] /\ stored \in [Kind -> Stacked] BY DEF BagsOK
<1>1. ASSUME Grows, stored' \in [Kind -> Stacked]
      PROVE  /\ con' \in [Kind -> Stacked] /\ stored' \in [Kind -> Stacked]
             /\ Enough(con) => Enough(con') \/ pc = "store all"
  BY <1>1, EnoughGrows DEF Grows
<1>2. CASE UNCHANGED <<con, stored>> BY <1>0, <1>1, <1>2, SameGrows
<1>3. CASE PressureCraft \/ MakeSets \/ CraftAtNpc
  <2>1. at <= Len(Consets) /\ stored' = stored
    BY <1>3 DEF PressureCraft, MakeSets, CraftAtNpc, Step, BagsOK, AtKind
  <2>2. \E most : Craft(Consets[at], most) \/ NoCraft
    BY <1>3 DEF PressureCraft, MakeSets, CraftAtNpc
  <2>3. Grows BY <2>1, <2>2, LoopKind, CraftGrows
  <2> QED BY <1>0, <1>1, <2>1, <2>3
<1>4. CASE CraftMissing \/ TopOff \/ FillUpAgain
  BY <1>2, <1>4 DEF CraftMissing, TopOff, FillUpAgain
<1>5. CASE WithdrawStack
  <2>1. at <= Len(Consets) /\ Withdrawable(Consets[at]) BY <1>5 DEF WithdrawStack
  <2>2. PICK c \in Kind : c = Consets[at] BY <2>1, LoopKind
  <2>3. PICK q : q = Max({s \in 1 .. StackMax : stored[c][s] > 0}) OBVIOUS
  <2>4. Stacks(stored[c]) > 0 BY <2>1, <2>2 DEF Withdrawable
  <2>5. \/ con' = [con EXCEPT ![c] = Put(@, q)] /\ stored' = [stored EXCEPT ![c] = Take(@, q)]
        \/ UNCHANGED <<con, stored>>
    BY <1>5, <2>2, <2>3 DEF WithdrawStack
  <2> QED BY <1>1, <1>2, <2>3, <2>4, <2>5, WithdrawMoves
<1>6. CASE StoreExcess
  <2>1. PICK c \in Kind, q \in 1 .. StackMax : MayStore(c, q) /\ StoreStack(c, q)
    BY <1>6 DEF StoreExcess
  <2>2. con[c][q] > 0 /\ Units(con[c]) - q >= TargetEach BY <2>1 DEF MayStore, Carried
  <2>3. /\ con' \in [Kind -> Stacked] /\ stored' \in [Kind -> Stacked]
        /\ Units(con'[c]) = Units(con[c]) - q
        /\ \A x \in Kind \ {c} : con'[x] = con[x]
    BY <2>1, <2>2, StoreMoves
  <2>4. Enough(con) => Enough(con')
    <3> SUFFICES ASSUME Enough(con), NEW x \in Kind PROVE Units(con'[x]) >= TargetEach
      BY DEF Enough
    <3>1. CASE x = c BY <2>2, <2>3, <3>1
    <3>2. CASE x # c BY <2>3, <3>2 DEF Enough
    <3> QED BY <3>1, <3>2
  <2> QED BY <2>3, <2>4
<1>7. CASE StoreAll
  <2>1. PICK c \in Kind, q \in 1 .. StackMax : con[c][q] > 0 /\ StoreStack(c, q)
    BY <1>7 DEF StoreAll
  <2>2. con' \in [Kind -> Stacked] /\ stored' \in [Kind -> Stacked] BY <2>1, StoreMoves
  <2> QED BY <1>7, <2>2 DEF StoreAll
<1>8. CASE TownLeaves \/ TownMaintains \/ OutpostOutOfReach \/ MerchantMaintains \/ FullMaintains
  BY <1>2, <1>8 DEF TownLeaves, TownMaintains, OutpostOutOfReach, MerchantMaintains, FullMaintains
<1>9. CASE DepositFirst \/ SellJunk \/ BuyKit \/ KitsDone \/ ConvertPass \/ ConvertEnds
           \/ PressureDone \/ PressureStored
  BY <1>2, <1>9 DEF DepositFirst, SellJunk, BuyKit, KitsDone, ConvertPass, ConvertEnds,
     PressureDone, PressureStored
<1>10. CASE Rebalance \/ Restock \/ WithdrawNext \/ WithdrawDone \/ CraftDone \/ VisitChest
            \/ StoreMisc \/ DepositLast
  BY <1>2, <1>10 DEF Rebalance, Restock, WithdrawNext, WithdrawDone, CraftDone, VisitChest,
     StoreMisc, DepositLast
<1>11. CASE Excess \/ SetsPass \/ BuyMaterials \/ SetsMade \/ SetsEnd \/ AllStored
  BY <1>2, <1>11 DEF Excess, SetsPass, BuyMaterials, SetsMade, SetsEnd, AllStored
<1>12. CASE DecideTown \/ TryAgain \/ DecideMerchant \/ EmergencySale \/ FollowUp \/ DecideFull
  BY <1>2, <1>12 DEF DecideTown, TryAgain, DecideMerchant, EmergencySale, FollowUp, DecideFull
<1>13. CASE UNCHANGED vars BY <1>2, <1>13 DEF vars
<1> QED BY <1>3, <1>4, <1>5, <1>6, <1>7, <1>8, <1>9, <1>10, <1>11, <1>12, <1>13
  DEF Next, Perform

\* Kits are bought within the slots that are free above the preferred ones.
LEMMA BuyKitKeeps ==
    ASSUME BagsOK, BuyKit
    PROVE  /\ kits' \in [KitKind -> Nat]
           /\ \A k \in KitKind : kits'[k] > kits[k] => FreeSlots' >= MinFree
<1>1. PICK k \in KitKind : k = Kits[at] BY LoopKind DEF BuyKit
<1>2. PICK n \in {0, KitBudget(k)} : kits' = [kits EXCEPT ![k] = @ + n]
  BY <1>1 DEF BuyKit
<1>3. FreeSlots \in Int /\ MinFree \in Nat /\ KitTarget[k] \in Nat /\ kits[k] \in Nat
  BY CountsOK, Sizes DEF BagsOK
<1> DEFINE need == KitTarget[k] - kits[k]
           spare == IF FreeSlots > MinFree THEN FreeSlots - MinFree ELSE 0
<1>4. need \in Int /\ spare \in Nat BY <1>3
<1>5. KitBudget(k) = IF need <= 0 THEN 0 ELSE Min({need, spare}) BY DEF KitBudget
<1>6. \A x, y \in Int : Min({x, y}) = IF x <= y THEN x ELSE y BY MinOfTwo
<1>7. n \in Nat /\ n <= spare
  <2> HIDE DEF need, spare
  <2>1. Min({need, spare}) = IF need <= spare THEN need ELSE spare BY <1>4, <1>6
  <2>2. KitBudget(k) \in Nat /\ KitBudget(k) <= spare BY <1>4, <1>5, <2>1
  <2> QED BY <1>4, <2>2
<1>8. kits' \in [KitKind -> Nat] BY <1>2, <1>3, <1>7 DEF BagsOK
<1>9. KitSlots(kits') = KitSlots(kits) + n BY <1>2, <1>7, KitSlotsChanged DEF BagsOK
<1>10. KitSlots(kits) \in Nat /\ ConsetSlots(con) \in Nat BY SlotsTyped DEF BagsOK
<1>11. FreeSlots' = FreeSlots - n
  <2>1. UNCHANGED <<con, junk, mats, misc>> BY DEF BuyKit
  <2>2. FreeSlots' = Slots - junk - mats - misc - KitSlots(kits') - ConsetSlots(con)
    BY <2>1 DEF FreeSlots
  <2> QED BY <1>9, <1>7, <1>10, <2>2, Sizes DEF FreeSlots, BagsOK
<1>12. ASSUME NEW j \in KitKind, kits'[j] > kits[j] PROVE FreeSlots' >= MinFree
  <2>1. n > 0 BY <1>2, <1>3, <1>7, <1>12 DEF BagsOK
  <2>2. n <= FreeSlots - MinFree
    <3>1. spare # 0 BY <1>4, <1>7, <2>1
    <3>2. spare = FreeSlots - MinFree BY <3>1
    <3> HIDE DEF spare
    <3> QED BY <1>7, <3>2
  <2> HIDE DEF need, spare
  <2> QED BY <1>3, <1>7, <1>11, <2>2
<1> QED BY <1>8, <1>12

\* Kits keep their types, and buying them keeps the preferred slots.
LEMMA KitsStep ==
    ASSUME BagsOK, [Next]_vars
    PROVE  /\ kits' \in [KitKind -> Nat]
           /\ \A k \in KitKind : kits'[k] > kits[k] => FreeSlots' >= MinFree
<1> USE DEF bags, purse, locals
<1>0. kits \in [KitKind -> Nat] BY DEF BagsOK
<1>1. CASE UNCHANGED kits BY <1>0, <1>1
<1>2. CASE BuyKit BY <1>2, BuyKitKeeps
<1>3. CASE EmergencySale
  <2>1. PICK sold \in [KitKind -> 0 .. Max({kits[k] : k \in KitKind})] :
           /\ \A k \in KitKind : sold[k] <= kits[k]
           /\ kits' = [k \in KitKind |-> kits[k] - sold[k]]
    BY <1>3 DEF EmergencySale
  <2>2. \A k \in KitKind : sold[k] \in Nat /\ kits[k] \in Nat
    <3>1. PICK most : most = Max({kits[k] : k \in KitKind}) OBVIOUS
    <3>2. sold \in [KitKind -> 0 .. most] BY <3>1
    <3>3. \A k \in KitKind : sold[k] \in 0 .. most BY <3>2
    <3>4. 0 .. most \subseteq Nat OBVIOUS
    <3> QED BY <1>0, <3>3, <3>4
  <2>3. \A k \in KitKind : kits'[k] \in Nat /\ ~(kits'[k] > kits[k]) BY <2>1, <2>2
  <2> QED BY <2>1, <2>3
<1>4. CASE TownLeaves \/ TownMaintains \/ OutpostOutOfReach \/ MerchantMaintains \/ FullMaintains
  BY <1>1, <1>4 DEF TownLeaves, TownMaintains, OutpostOutOfReach, MerchantMaintains, FullMaintains
<1>5. CASE DepositFirst \/ SellJunk \/ KitsDone \/ ConvertPass \/ ConvertEnds
           \/ PressureCraft \/ PressureDone \/ StoreExcess \/ PressureStored
  BY <1>1, <1>5 DEF DepositFirst, SellJunk, KitsDone, ConvertPass, ConvertEnds,
     PressureCraft, PressureDone, StoreExcess, PressureStored
<1>6. CASE Rebalance \/ Restock \/ WithdrawStack \/ WithdrawNext \/ WithdrawDone
           \/ CraftMissing \/ TopOff \/ FillUpAgain \/ CraftAtNpc \/ CraftDone
           \/ VisitChest \/ StoreMisc \/ DepositLast
  BY <1>1, <1>6 DEF Rebalance, Restock, WithdrawStack, WithdrawNext, WithdrawDone,
     CraftMissing, TopOff, FillUpAgain, CraftAtNpc, CraftDone, VisitChest, StoreMisc, DepositLast
<1>7. CASE Excess \/ SetsPass \/ BuyMaterials \/ MakeSets \/ SetsMade \/ SetsEnd
           \/ StoreAll \/ AllStored
  BY <1>1, <1>7 DEF Excess, SetsPass, BuyMaterials, MakeSets, SetsMade, SetsEnd, StoreAll, AllStored
<1>8. CASE DecideTown \/ TryAgain \/ DecideMerchant \/ FollowUp \/ DecideFull
  BY <1>1, <1>8 DEF DecideTown, TryAgain, DecideMerchant, FollowUp, DecideFull
<1>9. CASE UNCHANGED vars BY <1>1, <1>9 DEF vars
<1> QED BY <1>2, <1>3, <1>4, <1>5, <1>6, <1>7, <1>8, <1>9 DEF Next, Perform

-----------------------------------------------------------------------------
(* Materials, slots and loops.                                              *)

\* The greater of two integers.
LEMMA MaxOfTwo ==
    ASSUME NEW a \in Int, NEW b \in Int
    PROVE  Max({a, b}) >= a /\ Max({a, b}) >= b
<1>1. \E x \in {a, b} : \A y \in {a, b} : x >= y OBVIOUS
<1>2. Max({a, b}) \in {a, b} /\ \A y \in {a, b} : Max({a, b}) >= y
  BY <1>1 DEF Max
<1> QED BY <1>2

\* What is missing is a count of each kind.
LEMMA ShortageTyped ==
    ASSUME BagsOK
    PROVE  Shortage \in [Kind -> Nat]
<1>1. \A c \in Kind : Carried(c) \in Nat BY CountsOK
<1>2. TargetEach \in Nat BY Sizes
<1>3. \A c \in Kind : (IF Carried(c) < TargetEach THEN TargetEach - Carried(c) ELSE 0) \in Nat
  BY <1>1, <1>2
<1> QED BY <1>3 DEF Shortage

\* Materials and the marks of the loops keep their types.
LEMMA MaterialsStep ==
    ASSUME BagsOK, [Next]_vars
    PROVE  mats' \in Nat
<1> USE DEF bags, purse, locals
<1>0. mats \in Nat BY DEF BagsOK
<1>1. CASE UNCHANGED mats BY <1>0, <1>1
<1>2. CASE mats' \in ({mats} \cup {m \in {mats - 1} : m >= 0}) \cup {mats + 1} \cup 0 .. mats
  BY <1>0, <1>2
<1>3. CASE PressureCraft \/ MakeSets \/ TopOff \/ CraftAtNpc \/ BuyMaterials
  <2>1. MaterialsUsed \/ MaterialsBought \/ mats' = mats
    BY <1>3 DEF PressureCraft, MakeSets, TopOff, CraftAtNpc, BuyMaterials, Craft, NoCraft
  <2> QED BY <1>2, <2>1 DEF MaterialsUsed, MaterialsBought
<1>4. CASE VisitChest
  BY <1>2, <1>4 DEF VisitChest, MaterialsStored
<1>5. CASE TownLeaves \/ TownMaintains \/ OutpostOutOfReach \/ MerchantMaintains \/ FullMaintains
  BY <1>1, <1>5 DEF TownLeaves, TownMaintains, OutpostOutOfReach, MerchantMaintains, FullMaintains
<1>6. CASE DepositFirst \/ SellJunk \/ BuyKit \/ KitsDone \/ ConvertPass \/ ConvertEnds
           \/ PressureDone \/ StoreExcess \/ PressureStored
  BY <1>1, <1>6 DEF DepositFirst, SellJunk, BuyKit, KitsDone, ConvertPass, ConvertEnds,
     PressureDone, StoreExcess, PressureStored
<1>7. CASE Rebalance \/ Restock \/ WithdrawStack \/ WithdrawNext \/ WithdrawDone
           \/ CraftMissing \/ FillUpAgain \/ CraftDone \/ StoreMisc \/ DepositLast
  BY <1>1, <1>7 DEF Rebalance, Restock, WithdrawStack, WithdrawNext, WithdrawDone,
     CraftMissing, FillUpAgain, CraftDone, StoreMisc, DepositLast
<1>8. CASE Excess \/ SetsPass \/ SetsMade \/ SetsEnd \/ StoreAll \/ AllStored
  BY <1>1, <1>8 DEF Excess, SetsPass, SetsMade, SetsEnd, StoreAll, AllStored
<1>9. CASE DecideTown \/ TryAgain \/ DecideMerchant \/ EmergencySale \/ FollowUp \/ DecideFull
  BY <1>1, <1>9 DEF DecideTown, TryAgain, DecideMerchant, EmergencySale, FollowUp, DecideFull
<1>10. CASE UNCHANGED vars BY <1>1, <1>10 DEF vars
<1> QED BY <1>3, <1>4, <1>5, <1>6, <1>7, <1>8, <1>9, <1>10 DEF Next, Perform

\* So do the slots of what is sold and of what goes into the chest.
LEMMA SlotsStep ==
    ASSUME BagsOK, [Next]_vars
    PROVE  junk' \in Nat /\ misc' \in Nat /\ chest' \in Int
<1> USE DEF bags, purse, locals
<1>0. junk \in Nat /\ misc \in Nat /\ chest \in Int BY DEF BagsOK
<1>1. CASE UNCHANGED <<junk, misc, chest>> BY <1>0, <1>1
<1>2. CASE SellJunk \/ EmergencySale
  <2>1. misc' = misc /\ chest' = chest BY <1>2 DEF SellJunk, EmergencySale
  <2>2. \E n \in 0 .. junk : junk' = junk - n BY <1>0, <1>2 DEF SellJunk, EmergencySale
  <2> QED BY <1>0, <2>1, <2>2
<1>3. CASE StoreMisc
  <2>1. PICK n : n = Min({misc, ChestFree}) OBVIOUS
  <2>2. ChestFree \in Int BY CountsOK
  <2>3. n \in Int /\ n <= misc
    <3>1. \A x, y \in Int : Min({x, y}) = IF x <= y THEN x ELSE y BY MinOfTwo
    <3>2. PICK room \in Int : room = ChestFree BY <2>2
    <3>3. n = IF misc <= room THEN misc ELSE room BY <1>0, <2>1, <3>1, <3>2
    <3> QED BY <1>0, <3>3
  <2>4. misc' = misc - n /\ chest' = chest + n /\ junk' = junk BY <1>3, <2>1 DEF StoreMisc
  <2> QED BY <1>0, <2>3, <2>4
<1>5. CASE TownLeaves \/ TownMaintains \/ OutpostOutOfReach \/ MerchantMaintains \/ FullMaintains
  BY <1>1, <1>5 DEF TownLeaves, TownMaintains, OutpostOutOfReach, MerchantMaintains, FullMaintains
<1>6. CASE DepositFirst \/ BuyKit \/ KitsDone \/ ConvertPass \/ ConvertEnds
           \/ PressureCraft \/ PressureDone \/ StoreExcess \/ PressureStored
  BY <1>1, <1>6 DEF DepositFirst, BuyKit, KitsDone, ConvertPass, ConvertEnds,
     PressureCraft, PressureDone, StoreExcess, PressureStored
<1>7. CASE Rebalance \/ Restock \/ WithdrawStack \/ WithdrawNext \/ WithdrawDone
           \/ CraftMissing \/ TopOff \/ FillUpAgain \/ CraftAtNpc \/ CraftDone
           \/ VisitChest \/ DepositLast
  BY <1>1, <1>7 DEF Rebalance, Restock, WithdrawStack, WithdrawNext, WithdrawDone,
     CraftMissing, TopOff, FillUpAgain, CraftAtNpc, CraftDone, VisitChest, DepositLast
<1>8. CASE Excess \/ SetsPass \/ BuyMaterials \/ MakeSets \/ SetsMade \/ SetsEnd
           \/ StoreAll \/ AllStored
  BY <1>1, <1>8 DEF Excess, SetsPass, BuyMaterials, MakeSets, SetsMade, SetsEnd, StoreAll, AllStored
<1>9. CASE DecideTown \/ TryAgain \/ DecideMerchant \/ FollowUp \/ DecideFull
  BY <1>1, <1>9 DEF DecideTown, TryAgain, DecideMerchant, FollowUp, DecideFull
<1>10. CASE UNCHANGED vars BY <1>1, <1>10 DEF vars
<1> QED BY <1>2, <1>3, <1>5, <1>6, <1>7, <1>8, <1>9, <1>10 DEF Next, Perform

\* The marks of the loops.
LEMMA LoopsStep ==
    ASSUME BagsOK, [Next]_vars
    PROVE  at' \in Nat \ {0} /\ missing' \in [Kind -> Nat]
<1> USE DEF bags, purse, locals
<1>0. at \in Nat \ {0} /\ missing \in [Kind -> Nat] BY DEF BagsOK
<1>1. CASE at' \in {at, at + 1, 1} /\ UNCHANGED missing BY <1>0, <1>1
<1>2. CASE at' = 1 /\ missing' \in {Shortage, [c \in Kind |-> 0]}
  BY <1>2, ShortageTyped
<1>5. CASE TownLeaves \/ TownMaintains \/ OutpostOutOfReach \/ MerchantMaintains \/ FullMaintains
  BY <1>1, <1>5 DEF TownLeaves, TownMaintains, OutpostOutOfReach, MerchantMaintains, FullMaintains
<1>6. CASE DepositFirst \/ SellJunk \/ BuyKit \/ KitsDone \/ ConvertPass \/ ConvertEnds
           \/ PressureCraft \/ PressureDone \/ StoreExcess \/ PressureStored
  BY <1>1, <1>6 DEF DepositFirst, SellJunk, BuyKit, KitsDone, ConvertPass, ConvertEnds,
     PressureCraft, PressureDone, StoreExcess, PressureStored
<1>7. CASE Rebalance \/ Restock \/ CraftDone
  BY <1>1, <1>2, <1>7 DEF Rebalance, Restock, CraftDone
<1>8. CASE WithdrawStack \/ WithdrawNext \/ WithdrawDone
           \/ CraftMissing \/ TopOff \/ FillUpAgain \/ CraftAtNpc
           \/ VisitChest \/ StoreMisc \/ DepositLast
  BY <1>1, <1>8 DEF WithdrawStack, WithdrawNext, WithdrawDone,
     CraftMissing, TopOff, FillUpAgain, CraftAtNpc, VisitChest, StoreMisc, DepositLast
<1>9. CASE Excess \/ SetsPass \/ BuyMaterials \/ MakeSets \/ SetsMade \/ SetsEnd
           \/ StoreAll \/ AllStored
  BY <1>1, <1>9 DEF Excess, SetsPass, BuyMaterials, MakeSets, SetsMade, SetsEnd, StoreAll, AllStored
<1>10. CASE DecideTown \/ TryAgain \/ DecideMerchant \/ EmergencySale \/ FollowUp \/ DecideFull
  BY <1>1, <1>10 DEF DecideTown, TryAgain, DecideMerchant, EmergencySale, FollowUp, DecideFull
<1>11. CASE UNCHANGED vars BY <1>1, <1>11 DEF vars
<1> QED BY <1>5, <1>6, <1>7, <1>8, <1>9, <1>10, <1>11 DEF Next, Perform

\* Nor does the loop over the kinds move between the steps of one craft.
LEMMA AtKindStep ==
    ASSUME BagsOK, [Next]_vars
    PROVE  AtKind'
<1> USE DEF bags, purse, locals, Step, Over
<1>1. CASE pc' \notin {"top off", "fill up", "at crafter"} BY <1>1 DEF AtKind
<1>2. CASE UNCHANGED <<pc, at>> BY <1>2 DEF BagsOK, AtKind
<1>3. CASE CraftMissing \/ TopOff \/ FillUpAgain \/ CraftAtNpc
  BY <1>3 DEF CraftMissing, TopOff, FillUpAgain, CraftAtNpc, BagsOK, AtKind
<1>5. CASE TownLeaves \/ TownMaintains \/ OutpostOutOfReach \/ MerchantMaintains \/ FullMaintains
  BY <1>1, <1>5 DEF TownLeaves, TownMaintains, OutpostOutOfReach, MerchantMaintains, FullMaintains
<1>6. CASE DepositFirst \/ SellJunk \/ BuyKit \/ KitsDone \/ ConvertPass \/ ConvertEnds
           \/ PressureCraft \/ PressureDone \/ StoreExcess \/ PressureStored
  BY <1>1, <1>2, <1>6 DEF DepositFirst, SellJunk, BuyKit, KitsDone, ConvertPass, ConvertEnds,
     PressureCraft, PressureDone, StoreExcess, PressureStored
<1>7. CASE Rebalance \/ Restock \/ WithdrawStack \/ WithdrawNext \/ WithdrawDone \/ CraftDone
  BY <1>1, <1>7 DEF Rebalance, Restock, WithdrawStack, WithdrawNext, WithdrawDone, CraftDone
<1>8. CASE VisitChest \/ StoreMisc \/ DepositLast \/ Excess \/ SetsPass \/ BuyMaterials
           \/ MakeSets \/ SetsMade \/ SetsEnd \/ StoreAll \/ AllStored
  BY <1>1, <1>8 DEF VisitChest, StoreMisc, DepositLast, Excess, SetsPass, BuyMaterials,
     MakeSets, SetsMade, SetsEnd, StoreAll, AllStored
<1>9. CASE DecideTown \/ TryAgain \/ DecideMerchant \/ EmergencySale \/ FollowUp \/ DecideFull
  BY <1>1, <1>9 DEF DecideTown, TryAgain, DecideMerchant, EmergencySale, FollowUp, DecideFull
<1>10. CASE UNCHANGED vars BY <1>2, <1>10 DEF vars
<1> QED BY <1>3, <1>5, <1>6, <1>7, <1>8, <1>9, <1>10 DEF Next, Perform

\* The bags begin as MaintenanceAssumption says and keep their types.
LEMMA BagsStart ==
    ASSUME Init
    PROVE  BagsOK
<1>1. PICK s \in Starts :
         /\ con = s.con /\ stored = s.stored /\ kits = s.kits
         /\ junk = s.junk /\ mats = s.mats /\ misc = s.misc /\ chest = 0
         /\ at = 1 /\ missing = [c \in Kind |-> 0] /\ pc = "enter"
  BY DEF Init
<1>2. /\ s.con \in [Kind -> Stacked] /\ s.stored \in [Kind -> Stacked]
      /\ s.kits \in [KitKind -> Nat] /\ {s.junk, s.mats, s.misc} \subseteq Nat
  BY MaintenanceAssumption
<1> QED BY <1>1, <1>2 DEF BagsOK, AtKind

\* Every step keeps the types of the bags.
LEMMA BagsStep ==
    ASSUME BagsOK, [Next]_vars
    PROVE  BagsOK'
BY ConsetsStep, KitsStep, MaterialsStep, SlotsStep, LoopsStep, AtKindStep DEF BagsOK

\* Having enough of every kind is having nothing to restock, after a step too.
LEMMA RestockAfter ==
    ASSUME BagsOK'
    PROVE  ~NeedsRestock' <=> Enough(con')
<1>1. \A c \in Kind : Units(con'[c]) \in Nat BY CountsTyped DEF BagsOK
<1>2. TargetEach \in Nat BY Sizes
<1> QED BY <1>1, <1>2 DEF NeedsRestock, Carried, Enough

\* The bags hold whole stacks and slots, never fewer than none, whatever is sold,
\* stored, withdrawn, bought and crafted (MaintenanceMgr.cpp).
THEOREM BagsTyped == Spec => []BagsOK
<1>1. Init => BagsOK BY BagsStart
<1>2. BagsOK /\ [Next]_vars => BagsOK' BY BagsStep
<1> QED BY <1>1, <1>2, PTL DEF Spec

\* No step of the upkeep takes the consets the next run needs from a character who
\* has them, but the conversion of the chest's gold (MaintenanceMgr.cpp).
THEOREM TargetIsKept == Spec => TargetKept
<1>1. BagsOK /\ [Next]_vars => [con' # con /\ ~NeedsRestock => ~NeedsRestock' \/ pc = "store all"]_vars
  BY ConsetsStep, BagsStep, CountsOK, RestockAfter
<1>2. Init => BagsOK BY BagsStart
<1>3. BagsOK /\ [Next]_vars => BagsOK' BY BagsStep
<1> QED BY <1>1, <1>2, <1>3, PTL DEF Spec, TargetKept

\* Kits never take the last preferred slots (ClampKitPurchaseToFreeSlotBudget).
THEOREM RoomIsKept == Spec => RoomKept
<1>1. BagsOK /\ [Next]_vars => [\A k \in KitKind : kits'[k] > kits[k] => FreeSlots' >= MinFree]_vars
  BY KitsStep
<1>2. Init => BagsOK BY BagsStart
<1>3. BagsOK /\ [Next]_vars => BagsOK' BY BagsStep
<1> QED BY <1>1, <1>2, <1>3, PTL DEF Spec, RoomKept

-----------------------------------------------------------------------------
(* Leaving.                                                                 *)

\* The bot that has left does nothing any more.
LeftIsOver == state = "left" => pc = "over"

\* What leaving asks for is about the bags only.
Equipped ==
    /\ \A c \in Kind : Carried(c) >= TargetEach
    /\ FreeSlots < Critical => ~HasFreeSlotAction

\* A town that needs no upkeep has a bot that may leave.
LEMMA NoNeedEquips ==
    ASSUME BagsOK, ~NeedsMaintenance
    PROVE  Equipped
<1>1. ~NeedsRestock /\ ~(FreeSlots < Max({MinFree, Critical}) /\ HasFreeSlotAction)
  BY DEF NeedsMaintenance
<1>2. \A c \in Kind : Carried(c) >= TargetEach BY <1>1, CountsOK DEF Enough, Carried
<1>3. FreeSlots \in Int /\ MinFree \in Nat /\ Critical \in Nat BY CountsOK, Sizes
<1>4. Max({MinFree, Critical}) >= Critical BY <1>3, MaxOfTwo
<1>5. Max({MinFree, Critical}) \in Int
  <2>1. \E x \in {MinFree, Critical} : \A y \in {MinFree, Critical} : x >= y BY <1>3
  <2> QED BY <1>3, <2>1 DEF Max
<1>6. FreeSlots < Critical => FreeSlots < Max({MinFree, Critical}) BY <1>3, <1>4, <1>5
<1> QED BY <1>1, <1>2, <1>6 DEF Equipped

\* Nor has one that the last decision lets go anything to restock or free.
LEMMA DecisionEquips ==
    ASSUME BagsOK, ~(FreeSlots < Critical \/ NeedsRestock)
    PROVE  Equipped
BY CountsOK DEF Enough, Carried, Equipped

\* No step lets the bot go unequipped, and none follows once it has left.
LEMMA LeavingStep ==
    ASSUME BagsOK, LeftIsOver, LeavesEquipped, [Next]_vars
    PROVE  LeftIsOver' /\ LeavesEquipped'
<1> USE DEF bags, purse, locals
<1>1. ASSUME UNCHANGED <<con, stored, kits, junk, mats, misc, recipe, chest>>, Equipped
      PROVE  Equipped'
  BY <1>1 DEF Equipped, Carried, FreeSlots, HasFreeSlotAction, ChestFree, LooseConsets,
     ShouldCraftForSlots
<1>2. CASE state' = state /\ pc # "over"
  BY <1>2 DEF LeftIsOver, LeavesEquipped
<1>3. CASE state' # "left" BY <1>3 DEF LeftIsOver, LeavesEquipped
<1>4. CASE TownLeaves
  <2>1. Equipped BY <1>4, NoNeedEquips DEF TownLeaves
  <2>2. Equipped' BY <1>1, <1>4, <2>1 DEF TownLeaves
  <2> QED BY <1>4, <2>2 DEF TownLeaves, LeftIsOver, LeavesEquipped, Equipped
<1>5. CASE DecideTown \/ DecideFull
  <2>1. state' = "left" => ~(FreeSlots < Critical \/ NeedsRestock)
    BY <1>5 DEF DecideTown, DecideFull, Over
  <2>2. UNCHANGED <<con, stored, kits, junk, mats, misc, recipe, chest>>
    BY <1>5 DEF DecideTown, DecideFull
  <2>3. state' = "left" => Equipped' BY <1>1, <2>1, <2>2, DecisionEquips
  <2>4. state' = "left" => pc' = "over" BY <1>5 DEF DecideTown, DecideFull, Over
  <2> QED BY <2>3, <2>4 DEF LeftIsOver, LeavesEquipped, Equipped
<1>6. CASE UNCHANGED vars
  <2>1. UNCHANGED <<state, pc, con, stored, kits, junk, mats, misc, recipe, chest>>
    BY <1>6 DEF vars
  <2>2. LeavesEquipped' BY <1>1, <2>1 DEF LeavesEquipped, Equipped
  <2> QED BY <2>1, <2>2 DEF LeftIsOver
<1>7. CASE TryAgain \/ DecideMerchant
  BY <1>3, <1>7 DEF TryAgain, DecideMerchant, Over
<1>8. CASE TownMaintains \/ OutpostOutOfReach \/ MerchantMaintains \/ FullMaintains
           \/ EmergencySale \/ FollowUp
  BY <1>3, <1>8 DEF TownMaintains, OutpostOutOfReach, MerchantMaintains, FullMaintains,
     EmergencySale, FollowUp
<1>9. CASE DepositFirst \/ SellJunk \/ BuyKit \/ KitsDone \/ ConvertPass \/ ConvertEnds
           \/ PressureCraft \/ PressureDone \/ StoreExcess \/ PressureStored
  BY <1>2, <1>9 DEF DepositFirst, SellJunk, BuyKit, KitsDone, ConvertPass, ConvertEnds,
     PressureCraft, PressureDone, StoreExcess, PressureStored, Step
<1>10. CASE Rebalance \/ Restock \/ WithdrawStack \/ WithdrawNext \/ WithdrawDone
           \/ CraftMissing \/ TopOff \/ FillUpAgain \/ CraftAtNpc \/ CraftDone
           \/ VisitChest \/ StoreMisc \/ DepositLast
  BY <1>2, <1>10 DEF Rebalance, Restock, WithdrawStack, WithdrawNext, WithdrawDone,
     CraftMissing, TopOff, FillUpAgain, CraftAtNpc, CraftDone, VisitChest, StoreMisc,
     DepositLast, Step
<1>11. CASE Excess \/ SetsPass \/ BuyMaterials \/ MakeSets \/ SetsMade \/ SetsEnd
           \/ StoreAll \/ AllStored
  BY <1>2, <1>11 DEF Excess, SetsPass, BuyMaterials, MakeSets, SetsMade, SetsEnd, StoreAll,
     AllStored, Step
<1> QED BY <1>4, <1>5, <1>6, <1>7, <1>8, <1>9, <1>10, <1>11 DEF Next, Perform

\* Whichever state the bot leaves from, and whatever failed before, it carries the
\* consets it wants, and leaves with a critically full bag only when no upkeep could
\* free a slot (MerchantServices.cpp, DungeonBotStates.cpp).
THEOREM LeavesWithAll == Spec => []LeavesEquipped
<1>1. Init => BagsOK /\ LeftIsOver /\ LeavesEquipped
  BY BagsStart DEF Init, LeftIsOver, LeavesEquipped
<1>2. BagsOK /\ LeftIsOver /\ LeavesEquipped /\ [Next]_vars
        => BagsOK' /\ LeftIsOver' /\ LeavesEquipped'
  BY BagsStep, LeavingStep
<1> QED BY <1>1, <1>2, PTL DEF Spec
================================================================================
