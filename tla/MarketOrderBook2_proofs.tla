------------------------ MODULE MarketOrderBook2_proofs ------------------------
(***************************************************************************)
(* Proofs about the order book, for every set of prices and quantities and  *)
(* messages of every size and order: what its subscribers see, and that the *)
(* handlers' loops compute the closed forms.                                *)
(***************************************************************************)
EXTENDS OrderBookLoop, FiniteSetTheorems, WellFoundedInduction, TLAPS

-------------------------------------------------------------------------------
(* A side with levels has a best one.                                       *)
LEMMA TopExists ==
  ASSUME NEW side \in Sides, NEW lv \in [Prices -> Qty0], Occupied(lv) # {}
  PROVE  \E t \in Prices : IsTop(side, lv, t)
<1>1. Occupied(lv) \in SUBSET Prices
  BY Zenon DEF Occupied
<1>2. CASE side = "kBid"
  <2>1. PICK t \in Occupied(lv) : \A q \in Occupied(lv) : q <= t
    BY <1>1, PricesAssumption, Zenon
  <2>2. Occupied(lv) \subseteq Nat
    BY <1>1, PricesAssumption, Zenon
  <2>3. IsTop(side, lv, t)
    BY <1>2, <2>1, <2>2 DEF IsTop, Better
  <2> QED
    BY <1>1, <2>3, Zenon
<1>3. CASE side = "kAsk"
  <2>1. PICK t \in Occupied(lv) : \A q \in Occupied(lv) : t <= q
    BY <1>1, PricesAssumption, Zenon
  <2>2. Occupied(lv) \subseteq Nat
    BY <1>1, PricesAssumption, Zenon
  <2>3. IsTop(side, lv, t)
    BY <1>3, <2>1, <2>2 DEF IsTop, Better
  <2> QED
    BY <1>1, <2>3
<1> QED
  BY <1>2, <1>3, Zenon DEF Sides

(* It is unique, so TopOf is that level with its quantity.                  *)
LEMMA TopIsUnique ==
  ASSUME NEW side \in Sides, NEW lv \in [Prices -> Qty0],
         NEW t \in Prices, IsTop(side, lv, t)
  PROVE  TopOf(side, lv) = <<t, lv[t]>>
<1>1. Occupied(lv) # {} /\ Occupied(lv) \subseteq Nat
  BY PricesAssumption, Zenon DEF IsTop, Occupied
<1>2. ASSUME NEW u \in Prices, IsTop(side, lv, u) PROVE u = t
  BY <1>1, <1>2 DEF IsTop, Better
<1>3. t = CHOOSE p \in Prices : IsTop(side, lv, p)
  BY <1>2, Zenon
<1> QED
  BY <1>1, <1>3, Zenon DEF TopOf

(* The top of a typed side is a typed BBO entry.                            *)
LEMMA TopType ==
  ASSUME NEW side \in Sides, NEW lv \in [Prices -> Qty0]
  PROVE  TopOf(side, lv) \in {NoBBO} \union (Prices \X Qtys)
<1>1. CASE Occupied(lv) = {}
  BY <1>1, Zenon DEF TopOf
<1>2. CASE Occupied(lv) # {}
  <2>1. PICK t \in Prices : IsTop(side, lv, t)
    BY <1>2, TopExists, Zenon
  <2>2. lv[t] \in Qtys
    BY <2>1, QtysAssumption DEF IsTop, Occupied, Qty0
  <2> QED
    BY <2>1, <2>2, TopIsUnique
<1> QED
  BY <1>1, <1>2, Zenon

(* A message none of whose levels is at or better than the top leaves the   *)
(* top alone.                                                               *)
LEMMA TopUnmoved ==
  ASSUME NEW side \in Sides, NEW lv \in [Prices -> Qty0],
         NEW P \in SUBSET Prices, NEW change \in [P -> Qty0],
         ~WillBeUpdated(side, lv, change),
         Occupied(ApplyLevels(lv, change)) # {}
  PROVE  /\ Occupied(lv) # {}
         /\ TopOf(side, ApplyLevels(lv, change)) = TopOf(side, lv)
<1> DEFINE lw == ApplyLevels(lv, change)
<1>2. lw \in [Prices -> Qty0]
  BY Zenon DEF ApplyLevels
<1>3. Occupied(lv) # {}
  <2> SUFFICES ASSUME Occupied(lv) = {} PROVE FALSE
    OBVIOUS
  <2>1. PICK p \in Prices : lw[p] > 0
    BY Zenon DEF Occupied
  <2>2. p \in DOMAIN change
    BY <2>1, Zenon DEF ApplyLevels, Occupied
  <2> QED
    BY <2>2, Zenon DEF WillBeUpdated
<1>4. PICK t \in Prices : IsTop(side, lv, t)
  BY <1>3, TopExists, Zenon
<1>5. \A p \in DOMAIN change : \E q \in Occupied(lv) : Better(side, q, p)
  BY Zenon DEF WillBeUpdated
<1>6. t \notin DOMAIN change /\ lw[t] = lv[t] /\ t \in Occupied(lw)
  BY <1>4, <1>5, Zenon DEF IsTop, ApplyLevels, Occupied
<1>7. ASSUME NEW q \in Occupied(lw) PROVE ~Better(side, q, t)
  <2>1. CASE q \notin DOMAIN change
    BY <1>4, <2>1, Zenon DEF IsTop, ApplyLevels, Occupied
  <2>2. CASE q \in DOMAIN change
    <3>1. PICK r \in Occupied(lv) : Better(side, r, q)
      BY <1>5, <2>2, Zenon
    <3>2. ~Better(side, r, t)
      BY <1>4, <3>1, Zenon DEF IsTop
    <3>3. q \in Nat /\ r \in Nat /\ t \in Nat
      BY PricesAssumption, Zenon DEF Occupied
    <3> QED
      BY <3>1, <3>2, <3>3 DEF Better
  <2> QED
    BY <2>1, <2>2, Zenon
<1>8. IsTop(side, lw, t)
  BY <1>6, <1>7, Zenon DEF IsTop
<1>9. TopOf(side, lw) = <<t, lw[t]>> /\ TopOf(side, lv) = <<t, lv[t]>>
  BY <1>2, <1>4, <1>8, TopIsUnique, Zenon
<1> QED
  BY <1>3, <1>6, <1>9, Zenon
(* UpdateBBO keeps the BBO right, if every side it is not asked to refresh  *)
(* has kept its top or has no level left.                                   *)
LEMMA RefreshKeepsTop ==
  ASSUME TypeOK, SubscribersSeeTop,
         NEW flag, UpdateBBO(flag),
         levels' \in [Sides -> [Prices -> Qty0]],
         \A s \in Sides : ~flag[s] /\ Occupied(levels'[s]) # {} =>
           Occupied(levels[s]) # {} /\ TopOf(s, levels'[s]) = TopOf(s, levels[s])
  PROVE  TypeOK' /\ SubscribersSeeTop'
<1>1. ASSUME NEW s \in Sides
      PROVE  /\ flag[s] => bbo'[s] = TopOf(s, levels'[s])
             /\ ~flag[s] => bbo'[s] = bbo[s]
  BY Zenon DEF UpdateBBO
<1>2. \/ seen' = bbo'
      \/ seen' = seen /\ \A s \in Sides : ~flag[s]
  BY Zenon DEF UpdateBBO
<1>3. bbo' \in [Sides -> {NoBBO} \union (Prices \X Qtys)]
  <2>1. ASSUME NEW s \in Sides PROVE bbo'[s] \in {NoBBO} \union (Prices \X Qtys)
    <3>1. CASE flag[s]
      BY <1>1, <3>1, TopType
    <3>2. CASE ~flag[s]
      BY <1>1, <3>2, Zenon DEF TypeOK
    <3> QED
      BY <3>1, <3>2, Zenon
  <2>2. bbo' = [s \in Sides |-> bbo'[s]]
    BY Zenon DEF UpdateBBO
  <2> QED
    BY <2>1, <2>2, Zenon
<1>4. TypeOK'
  BY <1>2, <1>3, Zenon DEF TypeOK
<1>5. ASSUME NEW s \in Sides, Occupied(levels'[s]) # {}
      PROVE  bbo'[s] = TopOf(s, levels'[s]) /\ seen'[s] = bbo'[s]
  <2>1. bbo'[s] = TopOf(s, levels'[s])
    BY <1>1, <1>5, Zenon DEF SubscribersSeeTop
  <2>2. CASE seen' = bbo'
    BY <2>1, <2>2, Zenon
  <2>3. CASE seen' = seen /\ ~flag[s]
    BY <1>1, <1>5, <2>1, <2>3, Zenon DEF SubscribersSeeTop
  <2> QED
    BY <1>2, <2>2, <2>3, Zenon
<1>6. SubscribersSeeTop'
  BY <1>5, Zenon DEF SubscribersSeeTop, Occupied
<1> QED
  BY <1>4, <1>6, Zenon
-------------------------------------------------------------------------------
(* One side of a message applied to a typed side is a typed side.           *)
LEMMA ApplyType ==
  ASSUME NEW lv \in [Prices -> Qty0], NEW P \in SUBSET Prices, NEW change \in [P -> Qty0]
  PROVE  ApplyLevels(lv, change) \in [Prices -> Qty0]
BY Zenon DEF ApplyLevels

(* The cleared book has no level on any side.                               *)
LEMMA ClearedBook ==
  /\ ClearOrderBook \in [Sides -> [Prices -> Qty0]]
  /\ \A s \in Sides : Occupied(ClearOrderBook[s]) = {}
BY DEF ClearOrderBook, Qty0, Occupied

(* The diff handler.                                                        *)
LEMMA DiffStep ==
  ASSUME TypeOK, SubscribersSeeTop, NEW bids \in Changes, NEW asks \in Changes,
         OnDiff(bids, asks)
  PROVE  TypeOK' /\ SubscribersSeeTop'
<1> DEFINE side(s) == IF s = "kBid" THEN bids ELSE asks
           flag == [s \in Sides |-> WillBeUpdated(s, levels[s], side(s))]
<1>1. levels' = [s \in Sides |-> ApplyLevels(levels[s], side(s))] /\ UpdateBBO(flag)
  BY Zenon DEF OnDiff
<1>2. ASSUME NEW s \in Sides
      PROVE  \E P \in SUBSET Prices : side(s) \in [P -> Qty0]
  BY Zenon DEF Changes
<1>3. \A s \in Sides : levels[s] \in [Prices -> Qty0]
  BY Zenon DEF TypeOK
<1> HIDE DEF side
<1>4. levels' \in [Sides -> [Prices -> Qty0]]
  BY <1>1, <1>2, <1>3, ApplyType, Zenon
<1>5. ASSUME NEW s \in Sides, ~flag[s], Occupied(levels'[s]) # {}
      PROVE  Occupied(levels[s]) # {} /\ TopOf(s, levels'[s]) = TopOf(s, levels[s])
  <2>1. levels'[s] = ApplyLevels(levels[s], side(s)) /\ ~WillBeUpdated(s, levels[s], side(s))
    BY <1>1, <1>5, Zenon
  <2>2. PICK P \in SUBSET Prices : side(s) \in [P -> Qty0]
    BY <1>2, Zenon
  <2> QED
    BY <1>3, <1>5, <2>1, <2>2, TopUnmoved, Zenon
<1> HIDE DEF flag
<1> QED
  BY <1>1, <1>4, <1>5, RefreshKeepsTop, Zenon

(* The snapshot handler.                                                    *)
LEMMA SnapshotStep ==
  ASSUME TypeOK, SubscribersSeeTop, NEW bids \in Changes, NEW asks \in Changes,
         OnSnapshot(bids, asks)
  PROVE  TypeOK' /\ SubscribersSeeTop'
<1> DEFINE side(s) == IF s = "kBid" THEN bids ELSE asks
           flag == [s \in Sides |-> SnapshotWillUpdate(side(s))]
<1>1. levels' = [s \in Sides |-> ApplyLevels(ClearOrderBook[s], side(s))] /\ UpdateBBO(flag)
  BY Zenon DEF OnSnapshot
<1>2. ASSUME NEW s \in Sides
      PROVE  \E P \in SUBSET Prices : side(s) \in [P -> Qty0]
  BY DEF Changes
<1> HIDE DEF side
<1>3. levels' \in [Sides -> [Prices -> Qty0]]
  BY <1>1, <1>2, ClearedBook, ApplyType, Zenon
<1>4. ASSUME NEW s \in Sides, ~flag[s] PROVE Occupied(levels'[s]) = {}
  <2>1. levels'[s] = ApplyLevels(ClearOrderBook[s], side(s)) /\ ~SnapshotWillUpdate(side(s))
    BY <1>1, <1>4, Zenon
  <2>2. \A p \in Prices : ~(ClearOrderBook[s][p] > 0)
    BY ClearedBook, Zenon DEF Occupied
  <2> QED
    BY <2>1, <2>2, Zenon DEF SnapshotWillUpdate, ApplyLevels, Occupied
<1> HIDE DEF flag
<1> QED
  BY <1>1, <1>3, <1>4, RefreshKeepsTop, Zenon

(* The handler of a single update, a CLEAR included.                        *)
LEMMA UpdateStep ==
  ASSUME TypeOK, SubscribersSeeTop,
         NEW type, NEW side \in Sides, NEW price \in Prices, NEW qty \in Qty0,
         OnMarketUpdate(type, side, price, qty)
  PROVE  TypeOK' /\ SubscribersSeeTop'
<1> DEFINE before == IF type = "CLEAR" THEN ClearOrderBook ELSE levels
           change == [p \in {price} |-> qty]
           flag == [s \in Sides |-> s = side /\ WillBeUpdated(side, before[side], change)]
<1>1. /\ levels' = [before EXCEPT ![side] = ApplyLevels(@, change)]
      /\ UpdateBBO(flag)
  BY Zenon DEF OnMarketUpdate
<1>2. /\ before \in [Sides -> [Prices -> Qty0]]
      /\ {price} \in SUBSET Prices
      /\ change \in [{price} -> Qty0]
  BY ClearedBook, Zenon DEF TypeOK
<1>3. before = levels \/ before = ClearOrderBook
  OBVIOUS
<1> HIDE DEF before, change
<1>4. levels' \in [Sides -> [Prices -> Qty0]]
  BY <1>1, <1>2, ApplyType, Zenon
<1>5. ASSUME NEW s \in Sides, ~flag[s], Occupied(levels'[s]) # {}
      PROVE  Occupied(before[s]) # {} /\ TopOf(s, levels'[s]) = TopOf(s, before[s])
  <2>1. CASE s = side
    <3>1. levels'[s] = ApplyLevels(before[s], change)
      BY <1>1, <1>2, <2>1, Zenon
    <3>2. ~WillBeUpdated(s, before[s], change)
      BY <1>5, <2>1, Zenon
    <3>3. before[s] \in [Prices -> Qty0]
      BY <1>2, Zenon
    <3>4. Occupied(ApplyLevels(before[s], change)) # {}
      BY <1>5, <3>1, Zenon
    <3>5. /\ Occupied(before[s]) # {}
          /\ TopOf(s, ApplyLevels(before[s], change)) = TopOf(s, before[s])
      BY <1>2, <3>2, <3>3, <3>4, TopUnmoved, Zenon
    <3> QED
      BY <3>1, <3>5, Zenon
  <2>2. CASE s # side
    <3>1. levels'[s] = before[s]
      BY <1>1, <1>2, <2>2, Zenon
    <3> QED
      BY <1>5, <3>1, Zenon
  <2> QED
    BY <2>1, <2>2, Zenon
<1>6. ASSUME NEW s \in Sides, ~flag[s], Occupied(levels'[s]) # {}
      PROVE  Occupied(levels[s]) # {} /\ TopOf(s, levels'[s]) = TopOf(s, levels[s])
  BY <1>3, <1>5, <1>6, ClearedBook, Zenon
<1> HIDE DEF flag
<1> QED
  BY <1>1, <1>4, <1>6, RefreshKeepsTop, Zenon

-------------------------------------------------------------------------------
(* Type correctness and the main property are kept by every step.           *)
LEMMA BookStep == TypeOK /\ SubscribersSeeTop /\ [Next]_vars => TypeOK' /\ SubscribersSeeTop'
<1> SUFFICES ASSUME TypeOK, SubscribersSeeTop, [Next]_vars
             PROVE  TypeOK' /\ SubscribersSeeTop'
  OBVIOUS
<1>1. CASE UNCHANGED vars
  BY <1>1, Zenon DEF vars, TypeOK, SubscribersSeeTop
<1>2. CASE Next
  BY <1>2, DiffStep, SnapshotStep, UpdateStep, Zenon DEF Next
<1> QED
  BY <1>1, <1>2, Zenon

(* Type correctness of the order book.                                      *)
THEOREM TypeCorrect == Spec => []TypeOK
<1>1. Init => TypeOK /\ SubscribersSeeTop
  BY ClearedBook, Zenon DEF Init, TypeOK, SubscribersSeeTop
<1> QED
  BY <1>1, BookStep, PTL DEF Spec

(* Whatever snapshots, diffs and single updates arrive, the cached and the  *)
(* emitted BBO of a side that has levels is the top of that side: the       *)
(* refresh flags of the three handlers never miss a change of the top.      *)
THEOREM BBOIsTopOfBook == Spec => []SubscribersSeeTop
<1>1. Init => TypeOK /\ SubscribersSeeTop
  BY ClearedBook DEF Init, TypeOK, SubscribersSeeTop
<1> QED
  BY <1>1, BookStep, PTL DEF Spec

-----------------------------------------------------------------------------
(* A set of naturals has a least one.                                      *)
LEMMA LeastNatural ==
  ASSUME NEW T \in SUBSET Nat, T # {}
  PROVE  \E x \in T : \A y \in T : x <= y
<1>1. IsWellFoundedOn(OpToRel(<, Nat), Nat)
  BY NatLessThanWellFounded, Zenon
<1> DEFINE R == OpToRel(<, Nat)
<1>2. \A x, y \in Nat : y < x => <<y, x>> \in R
  BY Zenon DEF OpToRel
<1> HIDE DEF R
<1>3. IsWellFoundedOn(R, Nat)
  BY <1>1, Zenon DEF R
<1>4. PICK x \in T : \A y \in T : ~ (<<y, x>> \in R)
  BY <1>3, WFMin, Zenon
<1>5. ASSUME NEW y \in T PROVE x <= y
  <2>1. x \in Nat /\ y \in Nat
    OBVIOUS
  <2>2. ~(y < x)
    BY <1>2, <1>4, <2>1, Zenon
  <2> QED
    BY <2>1, <2>2
<1> QED
  BY <1>5, Zenon

(* Induction along a loop: a set with 0 that every iteration below n keeps *)
(* contains 0 .. n.                                                        *)
LEMMA UpTo ==
  ASSUME NEW n \in Nat, NEW T, 0 \in T, \A k \in 0 .. n - 1 : k \in T => k + 1 \in T
  PROVE  0 .. n \subseteq T
<1> SUFFICES ASSUME {k \in 0 .. n : k \notin T} # {} PROVE FALSE
  BY Zenon
<1>1. {k \in 0 .. n : k \notin T} \in SUBSET Nat
  OBVIOUS
<1>2. PICK x \in {k \in 0 .. n : k \notin T} : \A y \in {k \in 0 .. n : k \notin T} : x <= y
  BY <1>1, LeastNatural, Zenon
<1>3. x # 0 /\ x \in 0 .. n /\ x \notin T
  BY <1>2, Zenon
<1>4. x - 1 \in 0 .. n - 1 /\ x - 1 \in 0 .. n /\ (x - 1) + 1 = x /\ ~(x <= x - 1)
  BY <1>3
<1>5. x - 1 \in T
  BY <1>2, <1>4, Zenon
<1> QED
  BY <1>3, <1>4, <1>5, Zenon

(* A loop of N iterations over values of V: its values exist.              *)
HasRun(N, V, b, body) ==
  \E f \in [0 .. N -> V] : f[0] = b /\ \A n \in 1 .. N : f[n] = body[<<f[n - 1], n>>]

(* By induction over the iterations.                                       *)
LEMMA LoopRuns ==
  ASSUME NEW N \in Nat, NEW V, NEW b \in V, NEW body \in [V \X (1 .. N) -> V]
  PROVE  HasRun(N, V, b, body)
<1> DEFINE Runs(f, k) == f[0] = b /\ \A n \in 1 .. k : f[n] = body[<<f[n - 1], n>>]
           T == {k \in Nat : \E f \in [0 .. k -> V] : Runs(f, k)}
<1>1. 0 \in T
  <2> DEFINE f0 == [n \in 0 .. 0 |-> b]
  <2>1. f0 \in [0 .. 0 -> V] /\ f0[0] = b /\ 1 .. 0 = {}
    OBVIOUS
  <2> HIDE DEF f0
  <2> QED
    BY <2>1, Zenon
<1>2. ASSUME NEW k \in 0 .. N - 1, k \in T
      PROVE  k + 1 \in T
  <2>1. PICK f \in [0 .. k -> V] : Runs(f, k)
    BY <1>2, Zenon
  <2> DEFINE v == body[<<f[k], k + 1>>]
             g == [n \in 0 .. k + 1 |-> IF n = k + 1 THEN v ELSE f[n]]
  <2>2. v \in V
    <3>1. f[k] \in V /\ k + 1 \in 1 .. N
      OBVIOUS
    <3> QED
      BY <3>1, Zenon
  <2> HIDE DEF v
  <2>3. g \in [0 .. k + 1 -> V]
    BY <2>2
  <2>4. /\ g[0] = f[0] /\ g[k + 1] = v
        /\ \A n \in 1 .. k : g[n] = f[n] /\ g[n - 1] = f[n - 1]
        /\ g[k] = f[k] /\ (k + 1) - 1 = k
        /\ \A n \in 1 .. k + 1 : n \in 1 .. k \/ n = k + 1
    OBVIOUS
  <2> HIDE DEF g
  <2>5. Runs(g, k + 1)
    BY <2>1, <2>4, Zenon DEF v
  <2>6. k + 1 \in Nat
    OBVIOUS
  <2> HIDE DEF Runs
  <2> QED
    BY <2>3, <2>5, <2>6, Zenon
<1> HIDE DEF T
<1>3. 0 .. N \subseteq T /\ N \in 0 .. N
  <2>1. 0 .. N \subseteq T
    BY <1>1, <1>2, UpTo, Zenon
  <2> QED
    BY <2>1
<1> QED
  BY <1>3, Zenon DEF T, HasRun

-----------------------------------------------------------------------------
(* One level applied to a typed side.                                      *)
LEMMA ApplyOneIs ==
  ASSUME NEW lv \in [Prices -> Qty0], NEW level \in Level
  PROVE  /\ ApplyOne(lv, level) \in [Prices -> Qty0]
         /\ ApplyOne(lv, level) = [lv EXCEPT ![level.price] = level.qty]
<1>1. level.price \in Prices /\ level.qty \in Qty0
  BY Zenon DEF Level
<1>2. level.qty > 0 \/ level.qty = 0
  <2>1. level.qty = 0 \/ level.qty \in Nat \ {0}
    BY <1>1, QtysAssumption, Zenon DEF Qty0
  <2>2. \A q \in Nat \ {0} : q > 0
    OBVIOUS
  <2> QED
    BY <2>1, <2>2, Zenon
<1>3. lv[level.price] = 0 => lv = [lv EXCEPT ![level.price] = 0]
  OBVIOUS
<1>4. ApplyOne(lv, level) = [lv EXCEPT ![level.price] = level.qty]
  <2>1. CASE level.qty > 0
    BY <2>1, Zenon DEF ApplyOne, AddOrder
  <2>2. CASE level.qty = 0
    <3>1. ~(level.qty > 0)
      BY <2>2
    <3> QED
      BY <1>3, <2>2, <3>1, Zenon DEF ApplyOne, RemoveOrdersAtPrice
  <2> QED
    BY <1>2, <2>1, <2>2, Zenon
<1>5. [lv EXCEPT ![level.price] = level.qty] \in [Prices -> Qty0]
  BY <1>1, Zenon
<1> QED
  BY <1>4, <1>5, Zenon

(* What the first k levels of msg make of the side lv.                     *)
Written(msg, k, lv, w) ==
  /\ w \in [Prices -> Qty0]
  /\ \A p \in Prices : (\A i \in 1 .. k : msg[i].price # p) => w[p] = lv[p]
  /\ \A i \in 1 .. k :
       (\A j \in i + 1 .. k : msg[j].price # msg[i].price) => w[msg[i].price] = msg[i].qty

(* A loop that applies the levels one by one.                              *)
LEMMA LevelsRun ==
  ASSUME NEW N \in Nat, NEW msg \in [1 .. N -> Level], NEW lv \in [Prices -> Qty0],
         NEW w, w[0] = lv, \A n \in 1 .. N : w[n] = ApplyOne(w[n - 1], msg[n])
  PROVE  \A k \in 0 .. N : Written(msg, k, lv, w[k])
<1> DEFINE T == {k \in 0 .. N : Written(msg, k, lv, w[k])}
<1>1. 0 \in T
  <2>1. 1 .. 0 = {} /\ 0 \in 0 .. N
    OBVIOUS
  <2> QED
    BY <2>1, Zenon DEF Written
<1>2. ASSUME NEW k \in 0 .. N - 1, k \in T
      PROVE  k + 1 \in T
  <2> DEFINE m == msg[k + 1]
             v == w[k]
             u == w[k + 1]
  <2>1. k + 1 \in 1 .. N /\ (k + 1) - 1 = k /\ k + 1 \in 0 .. N
    OBVIOUS
  <2>2. m \in Level /\ m.price \in Prices /\ m.qty \in Qty0
    BY <2>1, Zenon DEF Level
  <2>3. Written(msg, k, lv, v)
    BY <1>2, Zenon
  <2>4. v \in [Prices -> Qty0]
    BY <2>3, Zenon DEF Written
  <2>5. u = ApplyOne(v, m)
    BY <2>1, Zenon
  <2> HIDE DEF m, v, u
  <2>6. u \in [Prices -> Qty0] /\ u = [v EXCEPT ![m.price] = m.qty]
    BY <2>2, <2>4, <2>5, ApplyOneIs, Zenon
  <2>7. u[m.price] = m.qty /\ \A p \in Prices : p # m.price => u[p] = v[p]
    BY <2>2, <2>4, <2>6, Zenon
  <2>8. /\ 1 .. k + 1 = (1 .. k) \union {k + 1}
        /\ \A i \in 1 .. k : i + 1 .. k + 1 = (i + 1 .. k) \union {k + 1}
    OBVIOUS
  <2>9. \A i \in 1 .. k : msg[i].price \in Prices
    <3>1. \A i \in 1 .. k : i \in 1 .. N
      OBVIOUS
    <3> QED
      BY <3>1, Zenon DEF Level
  <2>10. \A p \in Prices : (\A i \in 1 .. k + 1 : msg[i].price # p) => u[p] = lv[p]
    BY <2>3, <2>7, <2>8, Zenon DEF Written, m
  <2>11. ASSUME NEW i \in 1 .. k + 1, \A j \in i + 1 .. k + 1 : msg[j].price # msg[i].price
         PROVE  u[msg[i].price] = msg[i].qty
    <3>1. CASE i = k + 1
      BY <2>7, <3>1, Zenon DEF m
    <3>2. CASE i \in 1 .. k
      <4>1. m.price # msg[i].price /\ \A j \in i + 1 .. k : msg[j].price # msg[i].price
        BY <2>8, <2>11, <3>2, Zenon DEF m
      <4>2. v[msg[i].price] = msg[i].qty
        BY <2>3, <3>2, <4>1, Zenon DEF Written
      <4> QED
        BY <2>7, <2>9, <3>2, <4>1, <4>2, Zenon
    <3> QED
      BY <2>8, <3>1, <3>2, Zenon
  <2> QED
    BY <2>1, <2>6, <2>10, <2>11, Zenon DEF Written, u
<1> HIDE DEF T
<1>3. 0 .. N \subseteq T
  BY <1>1, <1>2, UpTo, Zenon
<1> QED
  BY <1>3, Zenon DEF T

(* The last level of a message that names a price.                         *)
LEMMA LastNamed ==
  ASSUME NEW N \in Nat, NEW msg \in [1 .. N -> Level], NEW i \in 1 .. N
  PROVE  \E c \in 1 .. N : /\ msg[c].price = msg[i].price
                           /\ \A j \in 1 .. N : msg[j].price = msg[i].price => j <= c
<1> DEFINE I == {j \in 1 .. N : msg[j].price = msg[i].price}
           T == {N - j : j \in I}
<1>1. T \in SUBSET Nat /\ N - i \in T
  <2>1. \A j \in I : N - j \in Nat
    OBVIOUS
  <2> QED
    BY <2>1, Zenon
<1>2. PICK x \in T : \A y \in T : x <= y
  BY <1>1, LeastNatural, Zenon
<1>3. PICK c \in I : x = N - c
  BY <1>2, Zenon
<1>4. ASSUME NEW j \in I PROVE j <= c
  <2>1. N - c <= N - j
    BY <1>2, <1>3, Zenon
  <2>2. j \in 1 .. N /\ c \in 1 .. N
    BY Zenon
  <2> QED
    BY <2>1, <2>2
<1> QED
  BY <1>4, Zenon

(* What a message says of each price in the end.                           *)
LEMMA LastOfIs ==
  ASSUME NEW N \in Nat, NEW msg \in [1 .. N -> Level]
  PROVE  /\ DOMAIN LastOf(msg) = {msg[i].price : i \in 1 .. N}
         /\ \A p \in DOMAIN LastOf(msg) :
              \E c \in 1 .. N : /\ msg[c].price = p /\ LastOf(msg)[p] = msg[c].qty
                                /\ \A j \in 1 .. N : msg[j].price = p => j <= c
<1> DEFINE P == {msg[i].price : i \in DOMAIN msg}
           IsLast(p, c) == msg[c].price = p /\ \A j \in DOMAIN msg : msg[j].price = p => j <= c
<1>1. DOMAIN msg = 1 .. N
  OBVIOUS
<1>2. LastOf(msg) = [p \in P |-> msg[CHOOSE c \in DOMAIN msg : IsLast(p, c)].qty]
  BY Zenon DEF LastOf
<1>3. ASSUME NEW p \in P
      PROVE  \E c \in 1 .. N : IsLast(p, c) /\ LastOf(msg)[p] = msg[c].qty
  <2>1. PICK i \in 1 .. N : p = msg[i].price
    BY <1>1, Zenon
  <2>2. \E c \in DOMAIN msg : IsLast(p, c)
    BY <1>1, <2>1, LastNamed, Zenon
  <2> DEFINE e == CHOOSE c \in DOMAIN msg : IsLast(p, c)
  <2>3. LastOf(msg)[p] = msg[e].qty
    BY <1>2, Zenon
  <2>4. e \in 1 .. N /\ IsLast(p, e)
    <3> HIDE DEF IsLast
    <3> QED
      BY <1>1, <2>2, Zenon
  <2> HIDE DEF e
  <2> QED
    BY <2>3, <2>4, Zenon
<1>4. DOMAIN LastOf(msg) = P
  BY <1>2, Zenon
<1> HIDE DEF P
<1>5. \A p \in DOMAIN LastOf(msg) : \E c \in 1 .. N : IsLast(p, c) /\ LastOf(msg)[p] = msg[c].qty
  BY <1>3, <1>4, Zenon
<1> QED
  BY <1>1, <1>4, <1>5, Zenon DEF P

(* The closed form of the levels.                                          *)
LEMMA WrittenIsApplied ==
  ASSUME NEW N \in Nat, NEW msg \in [1 .. N -> Level], NEW lv \in [Prices -> Qty0],
         NEW w, Written(msg, N, lv, w)
  PROVE  w = ApplyLevels(lv, LastOf(msg))
<1> DEFINE a == ApplyLevels(lv, LastOf(msg))
           L == LastOf(msg)
<1>0. /\ DOMAIN L = {msg[i].price : i \in 1 .. N}
      /\ \A p \in DOMAIN L :
           \E c \in 1 .. N : /\ msg[c].price = p /\ L[p] = msg[c].qty
                             /\ \A j \in 1 .. N : msg[j].price = p => j <= c
  BY LastOfIs, Zenon
<1>1. w = [p \in Prices |-> w[p]] /\ a = [p \in Prices |-> a[p]]
  <2>1. w \in [Prices -> Qty0]
    BY Zenon DEF Written
  <2> QED
    BY <2>1, Zenon DEF ApplyLevels
<1>2. ASSUME NEW p \in Prices PROVE w[p] = a[p]
  <2>1. CASE p \in DOMAIN LastOf(msg)
    <3>1. PICK c \in 1 .. N : /\ msg[c].price = p /\ LastOf(msg)[p] = msg[c].qty
                              /\ \A j \in 1 .. N : msg[j].price = p => j <= c
      BY <1>0, <2>1, Zenon
    <3>2. \A j \in c + 1 .. N : j \in 1 .. N /\ ~(j <= c)
      OBVIOUS
    <3>3. w[p] = msg[c].qty
      BY <3>1, <3>2, Zenon DEF Written
    <3> QED
      BY <2>1, <3>1, <3>3, Zenon DEF ApplyLevels
  <2>2. CASE p \notin DOMAIN LastOf(msg)
    <3>1. \A i \in 1 .. N : msg[i].price # p
      BY <1>0, <2>2, Zenon
    <3>2. w[p] = lv[p]
      BY <3>1, Zenon DEF Written
    <3> QED
      BY <2>2, <3>2, Zenon DEF ApplyLevels
  <2> QED
    BY <2>1, <2>2, Zenon
<1> HIDE DEF a
<1>3. w = a
  BY <1>1, <1>2, Zenon
<1> QED
  BY <1>3, Zenon DEF a

(* The tree's order, on prices.                                            *)
LEMMA BetterOrders ==
  ASSUME NEW side \in Sides, NEW p \in Prices, NEW q \in Prices, NEW r \in Prices
  PROVE  /\ ~Better(side, p, p) /\ (Better(side, p, q) => ~Better(side, q, p))
         /\ Better(side, p, q) /\ ~Better(side, p, r) => Better(side, r, q)
         /\ Better(side, p, q) /\ Better(side, q, r) => Better(side, p, r)
         /\ ~Better(side, p, q) /\ ~Better(side, q, p) => p = q
<1>1. p \in Nat /\ q \in Nat /\ r \in Nat
  BY PricesAssumption, Zenon
<1> QED
  BY <1>1 DEF Better

(* While no level of the message was at or better than the top of lv, the  *)
(* top has stayed, and the test of the next level is the test against lv.  *)
LEMMA TopStays ==
  ASSUME NEW side \in Sides, NEW k \in Nat, NEW msg, NEW lv \in [Prices -> Qty0], NEW w,
         \A i \in 1 .. k : msg[i].price \in Prices, Written(msg, k, lv, w),
         ~\E i \in 1 .. k : \A q \in Occupied(lv) : ~Better(side, q, msg[i].price),
         NEW price \in Prices
  PROVE  AtOrBetterThanTop(side, w, price) <=>
           \A q \in Occupied(lv) : ~Better(side, q, price)
<1>1. Occupied(lv) \subseteq Prices /\ Occupied(w) \subseteq Prices /\ w \in [Prices -> Qty0]
  BY Zenon DEF Occupied, Written
<1>2. CASE Occupied(lv) = {}
  <2>1. 1 .. k = {}
    BY <1>2, Zenon
  <2>2. \A p \in Prices : w[p] = lv[p]
    BY <2>1, Zenon DEF Written
  <2>3. Occupied(w) = {}
    BY <1>2, <2>2, Zenon DEF Occupied
  <2> QED
    BY <1>2, <2>3, Zenon DEF AtOrBetterThanTop
<1>3. CASE Occupied(lv) # {}
  <2>1. PICK t \in Prices : IsTop(side, lv, t)
    BY <1>3, TopExists, Zenon
  <2>2. t \in Occupied(lv) /\ \A q \in Occupied(lv) : ~Better(side, q, t)
    BY <2>1, Zenon DEF IsTop
  <2>3. \A i \in 1 .. k : msg[i].price # t
    BY <2>2, Zenon
  <2>4. t \in Occupied(w)
    BY <2>2, <2>3, Zenon DEF Written, Occupied
  <2>5. ASSUME NEW q \in Occupied(w) PROVE ~Better(side, q, t)
    <3>1. CASE \A i \in 1 .. k : msg[i].price # q
      <4>1. q \in Occupied(lv)
        BY <1>1, <3>1, Zenon DEF Written, Occupied
      <4> QED
        BY <2>2, <4>1, Zenon
    <3>2. CASE \E i \in 1 .. k : msg[i].price = q
      <4>1. PICK r \in Occupied(lv) : Better(side, r, q)
        BY <3>2, Zenon
      <4>2. Better(side, t, q)
        BY <1>1, <2>2, <4>1, BetterOrders, Zenon
      <4> QED
        BY <1>1, <4>2, BetterOrders, Zenon
    <3> QED
      BY <3>1, <3>2, Zenon
  <2>6. TopOf(side, w) = <<t, w[t]>>
    BY <1>1, <2>4, <2>5, TopIsUnique, Zenon DEF IsTop
  <2>7. AtOrBetterThanTop(side, w, price) <=> ~Better(side, t, price)
    <3>1. TopOf(side, w)[1] = t
      BY <2>6
    <3>2. Occupied(w) # {}
      BY <2>4, Zenon
    <3> QED
      BY <3>1, <3>2, Zenon DEF AtOrBetterThanTop
  <2>8. ASSUME NEW q \in Occupied(lv), Better(side, q, price) PROVE Better(side, t, price)
    BY <1>1, <2>2, <2>8, BetterOrders, Zenon
  <2> QED
    BY <2>2, <2>7, <2>8, Zenon
<1> QED
  BY <1>2, <1>3, Zenon

(* f[n] is what the loop of a handler has made of the side after n levels. *)
IsRun(f, handler, side, lv, msg, N) ==
  /\ f[0] = [lv |-> lv, flag |-> FALSE] /\ Loop(handler, side, lv, msg) = f[N]
  /\ \A n \in 1 .. N : f[n] = Iteration(handler, side, f[n - 1], msg[n])
  /\ \A n \in 0 .. N : f[n] \in [lv : [Prices -> Qty0], flag : BOOLEAN]

Ran(handler, side, lv, msg, N) == \E f : IsRun(f, handler, side, lv, msg, N)

(* The loop of a handler runs.                                             *)
LEMMA HandlerRuns ==
  ASSUME NEW handler, NEW side \in Sides, NEW N \in Nat, NEW msg \in [1 .. N -> Level],
         NEW lv \in [Prices -> Qty0]
  PROVE  Ran(handler, side, lv, msg, N)
<1> DEFINE V == [lv : [Prices -> Qty0], flag : BOOLEAN]
           b == [lv |-> lv, flag |-> FALSE]
           body == [x \in V \X (1 .. N) |-> Iteration(handler, side, x[1], msg[x[2]])]
           Rerun(h) ==
             [n \in 0 .. N |-> IF n = 0 THEN b ELSE Iteration(handler, side, h[n - 1], msg[n])]
           F == CHOOSE h : h = Rerun(h)
<1>1. Len(msg) = N
  OBVIOUS
<1>2. b \in V
  OBVIOUS
<1>3. ASSUME NEW v \in V, NEW n \in 1 .. N PROVE Iteration(handler, side, v, msg[n]) \in V
  <2>1. msg[n] \in Level /\ v.lv \in [Prices -> Qty0]
    OBVIOUS
  <2>2. ApplyOne(v.lv, msg[n]) \in [Prices -> Qty0]
    BY <2>1, ApplyOneIs, Zenon
  <2> QED
    BY <2>2, Zenon DEF Iteration, DiffIteration, SnapshotIteration
<1>4. body \in [V \X (1 .. N) -> V]
  <2>1. \A x \in V \X (1 .. N) : x[1] \in V /\ x[2] \in 1 .. N
    BY Zenon
  <2> HIDE DEF V
  <2> QED
    BY <1>3, <2>1, Zenon
<1>5. \A v \in V, n \in 1 .. N : body[<<v, n>>] = Iteration(handler, side, v, msg[n])
  <2>1. ASSUME NEW v \in V, NEW n \in 1 .. N
        PROVE  body[<<v, n>>] = Iteration(handler, side, v, msg[n])
    <3>1. <<v, n>> \in V \X (1 .. N) /\ <<v, n>>[1] = v /\ <<v, n>>[2] = n
      OBVIOUS
    <3> HIDE DEF V
    <3> QED
      BY <3>1, Zenon
  <2> QED
    BY <2>1, Zenon
<1> HIDE DEF body, V, b
<1>6. PICK f \in [0 .. N -> V] : f[0] = b /\ \A n \in 1 .. N : f[n] = body[<<f[n - 1], n>>]
  <2>1. HasRun(N, V, b, body)
    BY <1>2, <1>4, LoopRuns, Zenon
  <2> QED
    BY <2>1, Zenon DEF HasRun
<1>7. f = Rerun(f)
  <2>1. \A n \in 0 .. N : n # 0 => n \in 1 .. N /\ n - 1 \in 0 .. N
    OBVIOUS
  <2>2. \A n \in 0 .. N : f[n] = IF n = 0 THEN b ELSE Iteration(handler, side, f[n - 1], msg[n])
    BY <1>5, <1>6, <2>1, Zenon
  <2> QED
    BY <2>2, Zenon
<1>8. F = Rerun(F)
  <2> HIDE DEF Rerun
  <2> QED
    BY <1>7, Zenon
<1>9. Loop(handler, side, lv, msg) = F[N]
  BY <1>1, Zenon DEF Loop, b
<1> HIDE DEF F
<1>10. F[0] = b /\ \A n \in 1 .. N : F[n] = Iteration(handler, side, F[n - 1], msg[n])
  <2>1. 0 \in 0 .. N /\ \A n \in 1 .. N : n # 0 /\ n \in 0 .. N
    OBVIOUS
  <2> QED
    BY <1>8, <2>1, Zenon
<1>11. \A n \in 0 .. N : F[n] \in V
  <2> DEFINE T == {n \in 0 .. N : F[n] \in V}
  <2>1. 0 \in T
    BY <1>2, <1>10
  <2>2. ASSUME NEW k \in 0 .. N - 1, k \in T PROVE k + 1 \in T
    <3>1. k + 1 \in 1 .. N /\ (k + 1) - 1 = k /\ k + 1 \in 0 .. N
      OBVIOUS
    <3> QED
      BY <1>3, <1>10, <2>2, <3>1, Zenon
  <2> HIDE DEF T
  <2>3. 0 .. N \subseteq T
    BY <2>1, <2>2, UpTo, Zenon
  <2> QED
    BY <2>3, Zenon DEF T
<1> QED
  BY <1>9, <1>10, <1>11, Zenon DEF b, V, Ran, IsRun

(* One iteration, field by field.                                          *)
LEMMA IterationIs ==
  ASSUME NEW handler, NEW side, NEW st, NEW level
  PROVE  /\ Iteration(handler, side, st, level).lv = ApplyOne(st.lv, level)
         /\ handler = "diff" =>
              (Iteration(handler, side, st, level).flag <=>
                 (st.flag \/ AtOrBetterThanTop(side, st.lv, level.price)))
         /\ handler = "snapshot" =>
              (Iteration(handler, side, st, level).flag <=>
                 (st.flag \/ (level.qty > 0 /\ AtOrBetterThanTop(side, st.lv, level.price))))
<1>1. "snapshot" # "diff"
  OBVIOUS
<1>2. CASE handler = "diff"
  BY <1>1, <1>2, Zenon DEF Iteration, DiffIteration
<1>3. CASE handler # "diff"
  BY <1>3, Zenon DEF Iteration, SnapshotIteration
<1> QED
  BY <1>2, <1>3, Zenon

(* What both handlers' loops do to the levels.                             *)
LEMMA LoopWrites ==
  ASSUME NEW handler, NEW N \in Nat, NEW msg \in [1 .. N -> Level], NEW lv \in [Prices -> Qty0],
         NEW side, NEW f, IsRun(f, handler, side, lv, msg, N)
  PROVE  \A k \in 0 .. N : Written(msg, k, lv, f[k].lv)
<1> DEFINE w == [n \in 0 .. N |-> f[n].lv]
<1>1. \A n \in 1 .. N : n \in 0 .. N /\ n - 1 \in 0 .. N
  OBVIOUS
<1>2. \A n \in 1 .. N : f[n].lv = ApplyOne(f[n - 1].lv, msg[n])
  <2>1. ASSUME NEW n \in 1 .. N PROVE f[n].lv = ApplyOne(f[n - 1].lv, msg[n])
    <3>1. f[n] = Iteration(handler, side, f[n - 1], msg[n])
      BY Zenon DEF IsRun
    <3>2. Iteration(handler, side, f[n - 1], msg[n]).lv = ApplyOne(f[n - 1].lv, msg[n])
      BY IterationIs
    <3> QED
      BY <3>1, <3>2, Zenon
  <2> QED
    BY <2>1, Zenon
<1>3. \A n \in 0 .. N : w[n] = f[n].lv
  BY Zenon
<1>4. 0 \in 0 .. N /\ f[0].lv = lv
  <2>1. f[0] = [lv |-> lv, flag |-> FALSE]
    BY Zenon DEF IsRun
  <2> QED
    BY <2>1
<1> HIDE DEF w
<1>5. w[0] = lv /\ \A n \in 1 .. N : w[n] = ApplyOne(w[n - 1], msg[n])
  BY <1>1, <1>2, <1>3, <1>4, Zenon
<1>6. \A k \in 0 .. N : Written(msg, k, lv, w[k])
  BY <1>5, LevelsRun, Zenon
<1> QED
  BY <1>3, <1>6, Zenon

(* The diff handler's loop computes what the model writes in closed form.  *)
LEMMA DiffClosed ==
  ASSUME NEW side \in Sides, NEW N \in Nat, NEW msg \in [1 .. N -> Level],
         NEW lv \in [Prices -> Qty0]
  PROVE  /\ Loop("diff", side, lv, msg).lv = ApplyLevels(lv, LastOf(msg))
         /\ Loop("diff", side, lv, msg).flag = WillBeUpdated(side, lv, LastOf(msg))
<1> DEFINE Sees(k) == \E i \in 1 .. k : \A q \in Occupied(lv) : ~Better(side, q, msg[i].price)
<1>0. PICK f : IsRun(f, "diff", side, lv, msg, N)
  <2>1. Ran("diff", side, lv, msg, N)
    BY HandlerRuns, Zenon
  <2> QED
    BY <2>1, Zenon DEF Ran
<1>1. /\ f[0] = [lv |-> lv, flag |-> FALSE] /\ Loop("diff", side, lv, msg) = f[N]
      /\ \A n \in 1 .. N : f[n] = Iteration("diff", side, f[n - 1], msg[n])
      /\ \A n \in 0 .. N : f[n] \in [lv : [Prices -> Qty0], flag : BOOLEAN]
  BY <1>0, Zenon DEF IsRun
<1>2. \A k \in 0 .. N : Written(msg, k, lv, f[k].lv)
  BY <1>0, LoopWrites, Zenon
<1>3. N \in 0 .. N
  OBVIOUS
<1>4. f[N].lv = ApplyLevels(lv, LastOf(msg))
  BY <1>2, <1>3, WrittenIsApplied, Zenon
<1>5. \A k \in 0 .. N : f[k].flag <=> Sees(k)
  <2> DEFINE T == {k \in 0 .. N : f[k].flag <=> Sees(k)}
  <2>1. 0 \in T
    <3>1. 1 .. 0 = {} /\ 0 \in 0 .. N /\ f[0].flag = FALSE
      BY <1>1
    <3> QED
      BY <3>1, Zenon
  <2>2. ASSUME NEW k \in 0 .. N - 1, k \in T PROVE k + 1 \in T
    <3>1. /\ k + 1 \in 1 .. N /\ (k + 1) - 1 = k /\ k + 1 \in 0 .. N /\ k \in 0 .. N /\ k \in Nat
          /\ 1 .. k + 1 = (1 .. k) \union {k + 1} /\ \A i \in 1 .. k : i \in 1 .. N
      OBVIOUS
    <3>2. \A i \in 1 .. N : msg[i].price \in Prices
      BY Zenon DEF Level
    <3> DEFINE price == msg[k + 1].price
    <3>3. f[k + 1].flag <=> (f[k].flag \/ AtOrBetterThanTop(side, f[k].lv, price))
      <4>1. f[k + 1] = Iteration("diff", side, f[k], msg[k + 1])
        BY <1>1, <3>1, Zenon
      <4>2. Iteration("diff", side, f[k], msg[k + 1]).flag <=>
              (f[k].flag \/ AtOrBetterThanTop(side, f[k].lv, price))
        BY IterationIs, Zenon
      <4> QED
        BY <4>1, <4>2, Zenon
    <3>4. Sees(k + 1) <=> (Sees(k) \/ \A q \in Occupied(lv) : ~Better(side, q, price))
      BY <3>1, Zenon
    <3>5. CASE Sees(k)
      BY <2>2, <3>1, <3>3, <3>4, <3>5, Zenon
    <3>6. CASE ~Sees(k)
      <4>1. AtOrBetterThanTop(side, f[k].lv, price) <=>
              \A q \in Occupied(lv) : ~Better(side, q, price)
        BY <1>2, <3>1, <3>2, <3>6, TopStays, Zenon
      <4> HIDE DEF Sees, price
      <4> QED
        BY <2>2, <3>1, <3>3, <3>4, <3>6, <4>1, Zenon
    <3> QED
      BY <3>5, <3>6, Zenon
  <2> HIDE DEF T
  <2>3. 0 .. N \subseteq T
    BY <2>1, <2>2, UpTo, Zenon
  <2> QED
    BY <2>3, Zenon DEF T
<1>6. WillBeUpdated(side, lv, LastOf(msg)) <=> Sees(N)
  <2>1. DOMAIN LastOf(msg) = {msg[i].price : i \in 1 .. N}
    BY LastOfIs, Zenon
  <2> QED
    BY <2>1, Zenon DEF WillBeUpdated
<1>7. f[N].flag \in BOOLEAN /\ WillBeUpdated(side, lv, LastOf(msg)) \in BOOLEAN
  BY <1>1, <1>3, Zenon DEF WillBeUpdated
<1> HIDE DEF Sees
<1>8. f[N].flag = WillBeUpdated(side, lv, LastOf(msg))
  BY <1>3, <1>5, <1>6, <1>7, Zenon
<1> QED
  BY <1>1, <1>4, <1>8, Zenon

(* The snapshot handler's: a side that ends up with levels raised its flag, *)
(* and only a level with a quantity raises it.                             *)
LEMMA SnapshotClosed ==
  ASSUME NEW side \in Sides, NEW N \in Nat, NEW msg \in [1 .. N -> Level],
         NEW lv \in [Prices -> Qty0], Occupied(lv) = {}
  PROVE  /\ Loop("snapshot", side, lv, msg).lv = ApplyLevels(lv, LastOf(msg))
         /\ Loop("snapshot", side, lv, msg).flag \in BOOLEAN
         /\ Occupied(Loop("snapshot", side, lv, msg).lv) # {} =>
              Loop("snapshot", side, lv, msg).flag
         /\ Loop("snapshot", side, lv, msg).flag => \E i \in 1 .. N : msg[i].qty > 0
<1>0. PICK f : IsRun(f, "snapshot", side, lv, msg, N)
  <2>1. Ran("snapshot", side, lv, msg, N)
    BY HandlerRuns, Zenon
  <2> QED
    BY <2>1, Zenon DEF Ran
<1>1. /\ f[0] = [lv |-> lv, flag |-> FALSE] /\ Loop("snapshot", side, lv, msg) = f[N]
      /\ \A n \in 1 .. N : f[n] = Iteration("snapshot", side, f[n - 1], msg[n])
      /\ \A n \in 0 .. N : f[n] \in [lv : [Prices -> Qty0], flag : BOOLEAN]
  BY <1>0, Zenon DEF IsRun
<1>2. \A k \in 0 .. N : Written(msg, k, lv, f[k].lv)
  BY <1>0, LoopWrites, Zenon
<1>3. N \in 0 .. N
  OBVIOUS
<1>4. f[N].lv = ApplyLevels(lv, LastOf(msg))
  BY <1>2, <1>3, WrittenIsApplied, Zenon
<1> DEFINE Rises(k) == /\ ~f[k].flag => Occupied(f[k].lv) = {}
                       /\ f[k].flag => \E i \in 1 .. k : msg[i].qty > 0
<1>5. \A k \in 0 .. N : Rises(k)
  <2> DEFINE T == {k \in 0 .. N : Rises(k)}
  <2>1. 0 \in T
    <3>1. 0 \in 0 .. N /\ f[0].flag = FALSE /\ f[0].lv = lv
      BY <1>1
    <3> QED
      BY <3>1, Zenon
  <2>2. ASSUME NEW k \in 0 .. N - 1, k \in T PROVE k + 1 \in T
    <3>1. /\ k + 1 \in 1 .. N /\ (k + 1) - 1 = k /\ k + 1 \in 0 .. N /\ k \in 0 .. N
          /\ 1 .. k + 1 = (1 .. k) \union {k + 1}
      OBVIOUS
    <3> DEFINE m == msg[k + 1]
               v == f[k].lv
    <3>2. m \in Level /\ v \in [Prices -> Qty0] /\ m.price \in Prices /\ m.qty \in Qty0
      BY <1>1, <3>1, Zenon DEF Level
    <3>3. /\ f[k + 1].lv = ApplyOne(v, m)
          /\ f[k + 1].flag <=> (f[k].flag \/ (m.qty > 0 /\ AtOrBetterThanTop(side, v, m.price)))
      <4>1. f[k + 1] = Iteration("snapshot", side, f[k], m)
        BY <1>1, <3>1, Zenon
      <4>2. /\ Iteration("snapshot", side, f[k], m).lv = ApplyOne(v, m)
            /\ Iteration("snapshot", side, f[k], m).flag <=>
                 (f[k].flag \/ (m.qty > 0 /\ AtOrBetterThanTop(side, v, m.price)))
        BY IterationIs
      <4> QED
        BY <4>1, <4>2, Zenon
    <3>4. f[k].flag => \E i \in 1 .. k : msg[i].qty > 0
      BY <2>2, Zenon
    <3>5. ~f[k].flag => Occupied(v) = {}
      BY <2>2, Zenon
    <3>6. f[k + 1].flag => \E i \in 1 .. k + 1 : msg[i].qty > 0
      BY <3>1, <3>3, <3>4, Zenon
    <3> HIDE DEF m, v
    <3>7. ASSUME ~f[k + 1].flag PROVE Occupied(f[k + 1].lv) = {}
      <4>1. ~f[k].flag /\ Occupied(v) = {}
        BY <3>3, <3>5, <3>7, Zenon
      <4>2. ~(m.qty > 0)
        BY <3>3, <3>7, <4>1, Zenon DEF AtOrBetterThanTop
      <4>3. f[k + 1].lv = [v EXCEPT ![m.price] = m.qty]
        BY <3>2, <3>3, ApplyOneIs, Zenon
      <4>4. \A p \in Prices : ~([v EXCEPT ![m.price] = m.qty][p] > 0)
        BY <3>2, <4>1, <4>2, Zenon DEF Occupied
      <4> QED
        BY <4>3, <4>4, Zenon DEF Occupied
    <3> QED
      BY <3>1, <3>6, <3>7, Zenon
  <2> HIDE DEF T
  <2>3. 0 .. N \subseteq T
    BY <2>1, <2>2, UpTo, Zenon
  <2> QED
    BY <2>3, Zenon DEF T
<1> QED
  BY <1>1, <1>3, <1>4, <1>5, Zenon

-----------------------------------------------------------------------------
(* A side has finitely many levels.                                        *)
LEMMA FiniteSide ==
  ASSUME NEW S \in SUBSET Prices
  PROVE  IsFiniteSet(S) /\ Cardinality(S) \in Nat
<1>1. IsFiniteSet(S)
  <2>1. CASE S = {}
    BY <2>1, FS_EmptySet, Zenon
  <2>2. CASE S # {}
    <3>1. PICK p \in S : \A q \in S : q <= p
      BY <2>2, PricesAssumption, Zenon
    <3>2. S \subseteq Nat
      BY PricesAssumption, Zenon
    <3>3. S \subseteq 0 .. p /\ p \in Int
      BY <3>1, <3>2
    <3>4. IsFiniteSet(0 .. p)
      BY <3>3, FS_Interval
    <3> QED
      BY <3>3, <3>4, FS_Subset, Zenon
  <2> QED
    BY <2>1, <2>2, Zenon
<1> QED
  BY <1>1, FS_CardinalityType, Zenon

(* The levels that are better than p.                                      *)
Ahead(side, lv, p) == {q \in Occupied(lv) : Better(side, q, p)}

(* An iterator that is not at the last level moves on by one.              *)
LEMMA IncrementMoves ==
  ASSUME NEW side \in Sides, NEW lv \in [Prices -> Qty0], NEW p \in Occupied(lv),
         Cardinality(Ahead(side, lv, p)) + 1 < Cardinality(Occupied(lv))
  PROVE  /\ Increment(side, lv, p) \in Occupied(lv)
         /\ Cardinality(Ahead(side, lv, Increment(side, lv, p)))
              = Cardinality(Ahead(side, lv, p)) + 1
<1> DEFINE O == Occupied(lv)
           B == Ahead(side, lv, p)
           W == {r \in O : Better(side, p, r)}
           n == Increment(side, lv, p)
<1>1. O \subseteq Prices /\ B \subseteq O /\ p \in O /\ p \in Prices
  BY Zenon DEF Occupied, Ahead
<1>2. p \notin B
  BY <1>1, BetterOrders, Zenon DEF Ahead
<1>3. Cardinality(B \union {p}) = Cardinality(B) + 1
  <2>1. IsFiniteSet(B)
    BY <1>1, FiniteSide, Zenon
  <2> QED
    BY <1>2, <2>1, FS_AddElement, Zenon
<1>4. W # {}
  <2> SUFFICES ASSUME W = {} PROVE FALSE
    BY Zenon
  <2>1. O = B \union {p}
    BY <1>1, BetterOrders, Zenon DEF Ahead
  <2>2. Cardinality(B) \in Nat
    BY <1>1, FiniteSide, Zenon
  <2> HIDE DEF O, B
  <2>3. Cardinality(B) + 1 < Cardinality(O)
    BY Zenon DEF O, B
  <2> QED
    BY <1>3, <2>1, <2>2, <2>3
<1>5. \E q \in W : \A r \in W : ~Better(side, r, q)
  <2>1. W \in SUBSET Prices /\ W \subseteq Nat
    BY <1>1, PricesAssumption, Zenon
  <2> HIDE DEF W
  <2>2. CASE side = "kBid"
    <3>1. PICK q \in W : \A r \in W : r <= q
      BY <1>4, <2>1, PricesAssumption, Zenon
    <3>2. \A r \in W : ~Better(side, r, q)
      BY <2>1, <2>2, <3>1 DEF Better
    <3> QED
      BY <3>2, Zenon
  <2>3. CASE side = "kAsk"
    <3>1. PICK q \in W : \A r \in W : q <= r
      BY <1>4, <2>1, PricesAssumption, Zenon
    <3>2. \A r \in W : ~Better(side, r, q)
      BY <2>1, <2>3, <3>1 DEF Better
    <3> QED
      BY <3>2, Zenon
  <2> QED
    BY <2>2, <2>3, Zenon DEF Sides
<1>6. \E q \in Prices : IsNext(side, lv, p, q)
  BY <1>1, <1>5, Zenon DEF IsNext
<1>7. IsNext(side, lv, p, n)
  BY <1>6, Zenon DEF Increment
<1>8. /\ n \in O /\ n \in Prices /\ Better(side, p, n)
      /\ \A r \in O : Better(side, p, r) => ~Better(side, r, n)
  BY <1>1, <1>7, Zenon DEF IsNext
<1> HIDE DEF n
<1>9. Ahead(side, lv, n) = B \union {p}
  <2>1. ASSUME NEW q \in O, Better(side, q, n) PROVE q \in B \union {p}
    BY <1>1, <1>8, <2>1, BetterOrders, Zenon DEF Ahead
  <2>2. ASSUME NEW q \in B PROVE Better(side, q, n)
    <3>1. Better(side, q, p) /\ q \in Prices
      BY <1>1, Zenon DEF Ahead
    <3> QED
      BY <1>1, <1>8, <3>1, BetterOrders, Zenon
  <2> QED
    BY <1>1, <1>8, <2>1, <2>2, Zenon DEF Ahead
<1> QED
  BY <1>3, <1>8, <1>9, Zenon DEF n

(* begin() advanced n times, for n up to level.                            *)
IsWalk(f, side, lv, level) ==
  /\ f[0] = TopOf(side, lv)[1] /\ Advanced(side, lv, level) = f[level]
  /\ \A n \in 1 .. level : f[n] = Increment(side, lv, f[n - 1])

Walked(side, lv, level) == \E f : IsWalk(f, side, lv, level)

(* std::advance runs.                                                      *)
LEMMA AdvanceRuns ==
  ASSUME NEW side \in Sides, NEW lv \in [Prices -> Qty0], NEW level \in Nat,
         TopOf(side, lv)[1] \in Prices
  PROVE  Walked(side, lv, level)
<1> DEFINE b == TopOf(side, lv)[1]
           body == [x \in Prices \X (1 .. level) |-> Increment(side, lv, x[1])]
           Rerun(h) == [n \in 0 .. level |-> IF n = 0 THEN b ELSE Increment(side, lv, h[n - 1])]
           F == CHOOSE h : h = Rerun(h)
<1>1. ASSUME NEW p \in Prices PROVE Increment(side, lv, p) \in Prices
  BY Zenon DEF Increment
<1>2. body \in [Prices \X (1 .. level) -> Prices]
  <2>1. \A x \in Prices \X (1 .. level) : x[1] \in Prices
    BY Zenon
  <2> QED
    BY <1>1, <2>1, Zenon
<1>3. ASSUME NEW p \in Prices, NEW n \in 1 .. level
      PROVE  body[<<p, n>>] = Increment(side, lv, p)
  <2>1. <<p, n>> \in Prices \X (1 .. level) /\ <<p, n>>[1] = p
    OBVIOUS
  <2> QED
    BY <2>1, Zenon
<1> HIDE DEF body
<1>4. PICK f \in [0 .. level -> Prices] :
        f[0] = b /\ \A n \in 1 .. level : f[n] = body[<<f[n - 1], n>>]
  <2>1. HasRun(level, Prices, b, body)
    BY <1>2, LoopRuns, Zenon
  <2> QED
    BY <2>1, Zenon DEF HasRun
<1>5. Advanced(side, lv, level) = F[level]
  BY Zenon DEF Advanced
<1> HIDE DEF b
<1>6. f = Rerun(f)
  <2>1. \A n \in 0 .. level : n # 0 => n \in 1 .. level /\ n - 1 \in 0 .. level
    OBVIOUS
  <2>2. \A n \in 0 .. level : f[n] = IF n = 0 THEN b ELSE Increment(side, lv, f[n - 1])
    BY <1>3, <1>4, <2>1, Zenon
  <2> QED
    BY <2>2, Zenon
<1>7. F = Rerun(F)
  <2> HIDE DEF Rerun
  <2> QED
    BY <1>6, Zenon
<1> HIDE DEF F
<1>8. F[0] = b /\ \A n \in 1 .. level : F[n] = Increment(side, lv, F[n - 1])
  <2>1. 0 \in 0 .. level /\ \A n \in 1 .. level : n # 0 /\ n \in 0 .. level
    OBVIOUS
  <2> QED
    BY <1>7, <2>1, Zenon
<1> QED
  BY <1>5, <1>8, Zenon DEF b, Walked, IsWalk

(* The level an iterator advanced n times is at has n levels ahead of it.  *)
LEMMA AdvancedIs ==
  ASSUME NEW side \in Sides, NEW lv \in [Prices -> Qty0], NEW level \in Nat,
         level < Cardinality(Occupied(lv))
  PROVE  /\ Advanced(side, lv, level) \in Occupied(lv)
         /\ Cardinality(Ahead(side, lv, Advanced(side, lv, level))) = level
         /\ level = 0 => Advanced(side, lv, level) = TopOf(side, lv)[1]
<1> DEFINE O == Occupied(lv)
<1>1. O \in SUBSET Prices /\ O # {} /\ Cardinality(O) \in Nat
  <2>1. O \in SUBSET Prices
    BY Zenon DEF Occupied
  <2>2. IsFiniteSet(O) /\ Cardinality(O) \in Nat
    BY <2>1, FiniteSide, Zenon
  <2>3. Cardinality(O) # 0
    BY <2>2
  <2> QED
    BY <2>1, <2>2, <2>3, FS_EmptySet, Zenon
<1>2. PICK t \in Prices : IsTop(side, lv, t)
  BY <1>1, TopExists, Zenon
<1>3. TopOf(side, lv)[1] = t
  <2>1. TopOf(side, lv) = <<t, lv[t]>>
    BY <1>2, TopIsUnique, Zenon
  <2> QED
    BY <2>1
<1>4. PICK f : IsWalk(f, side, lv, level)
  <2>1. Walked(side, lv, level)
    BY <1>3, AdvanceRuns, Zenon
  <2> QED
    BY <2>1, Zenon DEF Walked
<1>5. /\ f[0] = t /\ Advanced(side, lv, level) = f[level]
      /\ \A n \in 1 .. level : f[n] = Increment(side, lv, f[n - 1])
  BY <1>3, <1>4, Zenon DEF IsWalk
<1> DEFINE T == {k \in 0 .. level : f[k] \in O /\ Cardinality(Ahead(side, lv, f[k])) = k}
<1>6. 0 \in T
  <2>1. t \in O /\ Ahead(side, lv, t) = {}
    BY <1>2, Zenon DEF IsTop, Ahead
  <2>2. 0 \in 0 .. level
    OBVIOUS
  <2> QED
    BY <1>5, <2>1, <2>2, FS_EmptySet, Zenon
<1>7. ASSUME NEW k \in 0 .. level - 1, k \in T PROVE k + 1 \in T
  <2>1. k + 1 \in 1 .. level /\ (k + 1) - 1 = k /\ k + 1 \in 0 .. level
    OBVIOUS
  <2>2. f[k] \in O /\ Cardinality(Ahead(side, lv, f[k])) = k
    BY <1>7, Zenon
  <2>3. k + 1 < Cardinality(O)
    BY <1>1
  <2>4. f[k + 1] = Increment(side, lv, f[k])
    BY <1>5, <2>1, Zenon
  <2>5. f[k + 1] \in O /\ Cardinality(Ahead(side, lv, f[k + 1])) = k + 1
    BY <2>2, <2>3, <2>4, IncrementMoves, Zenon
  <2> QED
    BY <2>1, <2>5, Zenon
<1> HIDE DEF T
<1>8. 0 .. level \subseteq T /\ level \in 0 .. level
  <2>1. 0 .. level \subseteq T
    BY <1>6, <1>7, UpTo, Zenon
  <2> QED
    BY <2>1
<1> QED
  BY <1>3, <1>5, <1>8, Zenon DEF T

(* A message of the handlers, as a function on its positions.              *)
LEMMA MessageLength ==
  ASSUME NEW msg \in Messages
  PROVE  \E n \in Nat : msg \in [1 .. n -> Level]
<1>1. PICK n \in 0 .. MaxLength : msg \in [1 .. n -> Level]
  BY Zenon DEF Messages
<1>2. n \in Nat
  BY LengthAssumption
<1> QED
  BY <1>1, <1>2, Zenon

(* What the diff handler computes for the messages of the model.           *)
LEMMA DiffLoopHolds ==
  ASSUME TypeOK
  PROVE  DiffLoopIsClosedForm
<1>1. ASSUME NEW side \in Sides, NEW msg \in Messages
      PROVE  LET end == Loop("diff", side, levels[side], msg)
             IN  /\ end.lv = ApplyLevels(levels[side], LastOf(msg))
                 /\ end.flag = WillBeUpdated(side, levels[side], LastOf(msg))
  <2>1. PICK n \in Nat : msg \in [1 .. n -> Level]
    BY MessageLength, Zenon
  <2>2. levels[side] \in [Prices -> Qty0]
    BY Zenon DEF TypeOK
  <2> QED
    BY <2>1, <2>2, DiffClosed, Zenon
<1> QED
  BY <1>1, Zenon DEF DiffLoopIsClosedForm

(* What the snapshot handler computes for them.                            *)
LEMMA SnapshotLoopHolds ==
  ASSUME TypeOK
  PROVE  SnapshotLoopIsClosedForm
<1>1. ASSUME NEW side \in Sides, NEW msg \in Messages
      PROVE  LET end == Loop("snapshot", side, ClearOrderBook[side], msg)
             IN  /\ end.lv = ApplyLevels(ClearOrderBook[side], LastOf(msg))
                 /\ (\A i, j \in DOMAIN msg : msg[i].price = msg[j].price => i = j) =>
                      end.flag = SnapshotWillUpdate(LastOf(msg))
                 /\ Occupied(end.lv) # {} =>
                      (IF end.flag THEN TopOf(side, end.lv) ELSE bbo[side]) = TopOf(side, end.lv)
  <2> DEFINE lv == ClearOrderBook[side]
             end == Loop("snapshot", side, lv, msg)
             L == LastOf(msg)
  <2>1. PICK n \in Nat : msg \in [1 .. n -> Level]
    BY MessageLength, Zenon
  <2>2. lv \in [Prices -> Qty0] /\ Occupied(lv) = {}
    BY DEF ClearOrderBook, Occupied, Qty0
  <2> HIDE DEF lv
  <2>3. /\ end.lv = ApplyLevels(lv, L) /\ end.flag \in BOOLEAN
        /\ Occupied(end.lv) # {} => end.flag
        /\ end.flag => \E i \in 1 .. n : msg[i].qty > 0
    BY <2>1, <2>2, SnapshotClosed, Zenon
  <2>4. DOMAIN msg = 1 .. n
    BY <2>1, Zenon
  <2>5. /\ DOMAIN L = {msg[i].price : i \in 1 .. n}
        /\ \A p \in DOMAIN L : \E c \in 1 .. n : msg[c].price = p /\ L[p] = msg[c].qty
    <3>1. /\ DOMAIN LastOf(msg) = {msg[i].price : i \in 1 .. n}
          /\ \A p \in DOMAIN LastOf(msg) :
               \E c \in 1 .. n : /\ msg[c].price = p /\ LastOf(msg)[p] = msg[c].qty
                                 /\ \A j \in 1 .. n : msg[j].price = p => j <= c
      BY <2>1, LastOfIs, Zenon
    <3> QED
      BY <3>1, Zenon
  <2> HIDE DEF end, L
  <2>6. ASSUME \A i, j \in DOMAIN msg : msg[i].price = msg[j].price => i = j
        PROVE  end.flag = SnapshotWillUpdate(L)
    <3>1. ASSUME end.flag PROVE SnapshotWillUpdate(L)
      <4>1. PICK i \in 1 .. n : msg[i].qty > 0
        BY <2>3, <3>1, Zenon
      <4>2. PICK c \in 1 .. n : msg[c].price = msg[i].price /\ L[msg[i].price] = msg[c].qty
        BY <2>5, Zenon
      <4>3. c = i /\ msg[i].price \in DOMAIN L
        BY <2>4, <2>5, <2>6, <4>2, Zenon
      <4> QED
        BY <4>1, <4>2, <4>3, Zenon DEF SnapshotWillUpdate
    <3>2. ASSUME SnapshotWillUpdate(L) PROVE end.flag
      <4>1. PICK p \in DOMAIN L : L[p] > 0
        BY <3>2, Zenon DEF SnapshotWillUpdate
      <4>2. p \in Prices
        BY <2>1, <2>5, Zenon DEF Level
      <4>3. p \in Occupied(end.lv)
        BY <2>3, <4>1, <4>2, Zenon DEF Occupied, ApplyLevels
      <4> QED
        BY <2>3, <4>3, Zenon
    <3>3. SnapshotWillUpdate(L) \in BOOLEAN
      BY Zenon DEF SnapshotWillUpdate
    <3> QED
      BY <2>3, <3>1, <3>2, <3>3, Zenon
  <2>7. Occupied(end.lv) # {} =>
          (IF end.flag THEN TopOf(side, end.lv) ELSE bbo[side]) = TopOf(side, end.lv)
    BY <2>3, Zenon
  <2> QED
    BY <2>3, <2>6, <2>7, Zenon DEF end, L, lv
<1> QED
  BY <1>1, Zenon DEF SnapshotLoopIsClosedForm

(* The readers of a level.                                                 *)
LEMMA LevelsHold ==
  ASSUME TypeOK, SubscribersSeeTop
  PROVE  LevelsFromTheTop
<1>1. ASSUME NEW side \in Sides, NEW level \in 0 .. Cardinality(Prices)
      PROVE  LET answer == AtLevel(side, levels[side], level)
                 rank(p) == Cardinality({q \in Occupied(levels[side]) : Better(side, q, p)})
             IN  /\ IF answer = NoBBO
                    THEN \A p \in Occupied(levels[side]) : rank(p) # level
                    ELSE /\ answer[1] \in Occupied(levels[side]) /\ rank(answer[1]) = level
                         /\ answer[2] = levels[side][answer[1]]
                 /\ level = 0 /\ answer # NoBBO => answer = bbo[side]
  <2> DEFINE lv == levels[side]
             O == Occupied(lv)
             answer == AtLevel(side, lv, level)
             rank(p) == Cardinality({q \in O : Better(side, q, p)})
  <2>1. /\ lv \in [Prices -> Qty0] /\ O \in SUBSET Prices
        /\ (O # {} => bbo[side] = TopOf(side, lv))
    BY Zenon DEF TypeOK, Occupied, SubscribersSeeTop
  <2>2. level \in Nat
    <3>1. Prices \in SUBSET Prices
      BY Zenon
    <3>2. Cardinality(Prices) \in Nat
      BY <3>1, FiniteSide, Zenon
    <3> QED
      BY <3>2
  <2>3. IsFiniteSet(O) /\ Cardinality(O) \in Nat
    BY <2>1, FiniteSide, Zenon
  <2> HIDE DEF lv
  <2>4. CASE level >= Cardinality(O)
    <3>1. answer = NoBBO
      BY <2>4, Zenon DEF AtLevel
    <3>2. ASSUME NEW p \in O PROVE rank(p) # level
      <4> DEFINE B == {q \in O : Better(side, q, p)}
      <4>1. B \in SUBSET O /\ p \notin B
        BY <2>1, BetterOrders, Zenon
      <4>2. Cardinality(B) <= Cardinality(O) /\ (Cardinality(O) = Cardinality(B) => O = B)
        BY <2>3, <4>1, FS_Subset, Zenon
      <4>3. Cardinality(B) \in Nat
        BY <2>1, <4>1, FiniteSide, Zenon
      <4>4. Cardinality(O) # Cardinality(B)
        BY <4>1, <4>2, Zenon
      <4> HIDE DEF B, O
      <4>5. Cardinality(B) # level
        BY <2>2, <2>3, <2>4, <4>2, <4>3, <4>4
      <4> QED
        BY <4>5, Zenon DEF B
    <3> QED
      BY <3>1, <3>2, Zenon DEF lv
  <2>5. CASE ~(level >= Cardinality(O))
    <3> DEFINE a == Advanced(side, lv, level)
    <3>1. answer = <<a, lv[a]>>
      BY <2>5, Zenon DEF AtLevel
    <3>2. answer # NoBBO /\ answer[1] = a /\ answer[2] = lv[a]
      BY <3>1 DEF NoBBO
    <3>3. level < Cardinality(O)
      BY <2>2, <2>3, <2>5
    <3>4. a \in O /\ Cardinality(Ahead(side, lv, a)) = level /\ (level = 0 => a = TopOf(side, lv)[1])
      BY <2>1, <2>2, <3>3, AdvancedIs, Zenon
    <3>5. rank(a) = level
      BY <3>4, Zenon DEF Ahead
    <3>6. level = 0 => answer = bbo[side]
      <4>1. PICK t \in Prices : IsTop(side, lv, t)
        BY <2>1, <3>4, TopExists, Zenon
      <4>2. TopOf(side, lv) = <<t, lv[t]>>
        BY <2>1, <4>1, TopIsUnique, Zenon
      <4>3. TopOf(side, lv)[1] = t
        BY <4>2
      <4> QED
        BY <2>1, <3>1, <3>4, <4>2, <4>3, Zenon
    <3> QED
      BY <3>2, <3>4, <3>5, <3>6, Zenon DEF lv
  <2> QED
    BY <2>4, <2>5, Zenon
<1> QED
  BY <1>1, Zenon DEF LevelsFromTheTop

(* Whatever the book and the message, of whatever length and naming prices *)
(* as often as it likes: the handlers' loops over the levels, whose test   *)
(* reads a top that the loop itself moves, compute the closed forms of the *)
(* model, and the readers of a level find the level they are asked for.    *)
THEOREM LoopsComputeClosedForms == Spec => []LoopsAreClosedForms
<1>1. TypeOK /\ SubscribersSeeTop => LoopsAreClosedForms
  BY DiffLoopHolds, SnapshotLoopHolds, LevelsHold, Zenon DEF LoopsAreClosedForms
<1> QED
  BY <1>1, TypeCorrect, BBOIsTopOfBook, PTL
===============================================================================
