------------------------ MODULE PositionKeeper_proofs ------------------------
(***************************************************************************)
(* Two results of trading.  The position keeper keeps the books of         *)
(* PnlLedger, for every set of exchanges, pairs, prices and quantities; the *)
(* cyclic arbitrage strategy leaves no trade open, for any cycles, tasks    *)
(* and prices.                                                             *)
(***************************************************************************)
EXTENDS PositionKeeper, Arbitrage, WellFoundedInduction, TLAPS

-----------------------------------------------------------------------------
(* OneSided of a single PositionInfo.                                      *)
OneSidedInfo(i) ==
  /\ i.position <= 0 => i.vwap["kAsk"] = 0
  /\ i.position >= 0 => i.vwap["kBid"] = 0

(* Valuing what is held changes no position and no cash, and makes the     *)
(* total the cash plus the value of the position.                          *)
LEMMA ValuedIsEquity ==
  ASSUME NEW i \in PositionInfo, OneSidedInfo(i), NEW price \in Int
  PROVE  /\ Valued(i, price) \in PositionInfo
         /\ Valued(i, price).position = i.position
         /\ Valued(i, price).vwap = i.vwap
         /\ Valued(i, price).real = i.real
         /\ Valued(i, price).total = Cash(i) + i.position * price
<1> DEFINE u == Unreal(i, price)
<1>1. i.position \in Int /\ i.real \in Int /\ i.vwap["kAsk"] \in Int /\ i.vwap["kBid"] \in Int
  BY DEF PositionInfo
<1>2. price * i.position \in Int /\ price * i.position = i.position * price
  BY <1>1
<1>3. price * (-i.position) \in Int /\ price * (-i.position) = -(i.position * price)
  BY <1>1
<1>4. u \in Int /\ u + i.real = Cash(i) + i.position * price
  <2>1. CASE i.position = 0
    BY <1>1, <2>1 DEF Unreal, OneSidedInfo, Cash
  <2>2. CASE i.position > 0
    BY <1>1, <1>2, <2>2 DEF Unreal, OneSidedInfo, Cash
  <2>3. CASE i.position < 0
    BY <1>1, <1>3, <2>3 DEF Unreal, OneSidedInfo, Cash
  <2> QED
    BY <1>1, <2>1, <2>2, <2>3
<1>5. Valued(i, price) = [i EXCEPT !.unreal = u, !.total = u + i.real]
  BY DEF Valued
<1> HIDE DEF u
<1>6. u + i.real \in Int
  BY <1>1, <1>4
<1>7. [i EXCEPT !.unreal = u, !.total = u + i.real] \in PositionInfo
  BY <1>4, <1>6 DEF PositionInfo
<1>8. Valued(i, price).total = u + i.real
  BY <1>5 DEF PositionInfo
<1>9. /\ Valued(i, price).position = i.position
      /\ Valued(i, price).vwap = i.vwap
      /\ Valued(i, price).real = i.real
  BY <1>5 DEF PositionInfo
<1> QED
  BY <1>4, <1>5, <1>7, <1>8, <1>9

(* The arithmetic of a decrease that keeps the sign or closes: what is     *)
(* realised on q lots is what they were bought for less what they bring.   *)
LEMMA ReduceArithmetic ==
  ASSUME NEW held \in Int, NEW q \in Int, NEW price \in Int, NEW avg \in Int,
         NEW real \in Int, NEW cost \in Int, cost = avg * held
  PROVE  /\ real + q * (avg - price) * (-1) - avg * (held - q) = real - cost + price * q
         /\ real + q * (avg - price) * 1 + avg * (held - q) = real + cost - price * q
<1>1. q * (avg - price) = q * avg - q * price
  OBVIOUS
<1>2. avg * (held - q) = avg * held - avg * q
  OBVIOUS
<1>3. q * avg = avg * q /\ q * price = price * q
  OBVIOUS
<1>4. avg * q \in Int /\ price * q \in Int /\ avg * held \in Int
  OBVIOUS
<1>5. q * (avg - price) * (-1) = price * q - avg * q
  BY <1>1, <1>3, <1>4
<1>6. q * (avg - price) * 1 = avg * q - price * q
  BY <1>1, <1>3, <1>4
<1> QED
  BY <1>2, <1>4, <1>5, <1>6

(* The same when q is more than what is held and the rest opens the other  *)
(* side.                                                                   *)
LEMMA FlipArithmetic ==
  ASSUME NEW held \in Int, NEW q \in Int, NEW price \in Int, NEW avg \in Int,
         NEW real \in Int, NEW cost \in Int, cost = avg * held
  PROVE  /\ real + held * (avg - price) * (-1) + price * (q - held) = real - cost + price * q
         /\ real + held * (avg - price) * 1 - price * (q - held) = real + cost - price * q
<1>1. held * (avg - price) = held * avg - held * price
  OBVIOUS
<1>2. price * (q - held) = price * q - price * held
  OBVIOUS
<1>3. held * avg = avg * held /\ held * price = price * held
  OBVIOUS
<1>4. avg * held \in Int /\ price * q \in Int /\ price * held \in Int
  OBVIOUS
<1>5. held * (avg - price) * (-1) = price * held - avg * held
  BY <1>1, <1>3, <1>4
<1>6. held * (avg - price) * 1 = avg * held - price * held
  BY <1>1, <1>3, <1>4
<1> QED
  BY <1>2, <1>4, <1>5, <1>6

-----------------------------------------------------------------------------
(* What a response with a side carries.                                    *)
SidedResponse(r) ==
  r.side \in {"kAsk", "kBid"} /\ r.price \in Nat /\ r.qty \in Nat

(* What booking r has to do to the books of i, before it is valued.        *)
Booked(i, r, j) ==
  /\ j \in PositionInfo
  /\ OneSidedInfo(j)
  /\ j.position = i.position + sideToValue[r.side] * r.qty
  /\ Cash(j) = Cash(i) - sideToValue[r.side] * (r.price * r.qty)

(* A PositionInfo whose position, realised pnl and costs are replaced.     *)
LEMMA UpdateType ==
  ASSUME NEW i \in PositionInfo, NEW position \in Int, NEW real \in Int,
         NEW vwap \in [{"kAsk", "kBid"} -> Int]
  PROVE  /\ [i EXCEPT !.position = position, !.vwap = vwap] \in PositionInfo
         /\ [i EXCEPT !.position = position, !.real = real, !.vwap = vwap] \in PositionInfo
  BY DEF PositionInfo

(* A fill on the side of the position, or on none.                         *)
LEMMA IncreaseBooks ==
  ASSUME NEW i \in PositionInfo, OneSidedInfo(i), NEW r, SidedResponse(r),
         ~Decreases(i, r)
  PROVE  Booked(i, r, Increased(i, r))
<1> DEFINE j == Increased(i, r)
           n == r.price * r.qty
<1>1. i.position \in Int /\ i.real \in Int /\ i.vwap["kAsk"] \in Int /\ i.vwap["kBid"] \in Int
  BY DEF PositionInfo
<1>2. r.price \in Nat /\ r.qty \in Nat /\ n \in Nat
  BY DEF SidedResponse
<1>3. j.vwap = [s \in {"kAsk", "kBid"} |->
                  IF s = r.side THEN i.vwap[s] + n ELSE i.vwap[s]]
  BY DEF Increased, PositionInfo
<1>4. j.position = NewPosition(i, r) /\ j.real = i.real
  BY DEF Increased, PositionInfo
<1>5. CASE r.side = "kAsk"
  <2>1. NewPosition(i, r) = i.position + r.qty
    BY <1>1, <1>2, <1>5 DEF NewPosition, sideToValue
  <2>2. i.position >= 0
    BY <1>1, <1>5 DEF Decreases, sideToValue
  <2>3. j.vwap["kAsk"] = i.vwap["kAsk"] + n /\ j.vwap["kBid"] = i.vwap["kBid"]
    BY <1>3, <1>5
  <2>4. i.position = 0 => i.vwap["kAsk"] = 0
    BY <1>1 DEF OneSidedInfo
  <2>5. j.position = 0 => n = 0
    <3>1. j.position = 0 => r.qty = 0
      BY <1>1, <1>2, <1>4, <2>1, <2>2
    <3> QED
      BY <1>2, <3>1
  <2>6. j \in PositionInfo
    <3> DEFINE position == NewPosition(i, r)
               vwap == [s \in {"kAsk", "kBid"} |->
                          IF s = r.side THEN i.vwap[s] + n ELSE i.vwap[s]]
    <3>1. j = [i EXCEPT !.position = position, !.vwap = vwap]
      BY DEF Increased
    <3>2. position \in Int /\ vwap \in [{"kAsk", "kBid"} -> Int]
      BY <1>1, <1>2, <2>1
    <3> HIDE DEF position, vwap, j
    <3> QED
      BY <1>1, <3>1, <3>2, UpdateType
  <2>7. OneSidedInfo(j)
    BY <1>1, <1>2, <1>4, <2>1, <2>2, <2>3, <2>4, <2>5 DEF OneSidedInfo
  <2>8. Cash(j) = Cash(i) - 1 * n
    BY <1>1, <1>2, <1>4, <2>3 DEF Cash
  <2> HIDE DEF n, j
  <2>9. sideToValue[r.side] = 1
    BY <1>5 DEF sideToValue
  <2>10. j.position = i.position + sideToValue[r.side] * r.qty
    BY <1>1, <1>2, <1>4, <2>1, <2>9
  <2> QED
    BY <2>6, <2>7, <2>8, <2>9, <2>10 DEF Booked, n, j
<1>6. CASE r.side = "kBid"
  <2>1. NewPosition(i, r) = i.position - r.qty
    BY <1>1, <1>2, <1>6 DEF NewPosition, sideToValue
  <2>2. i.position <= 0
    BY <1>1, <1>6 DEF Decreases, sideToValue
  <2>3. j.vwap["kBid"] = i.vwap["kBid"] + n /\ j.vwap["kAsk"] = i.vwap["kAsk"]
    BY <1>3, <1>6
  <2>4. i.position = 0 => i.vwap["kBid"] = 0
    BY <1>1 DEF OneSidedInfo
  <2>5. j.position = 0 => n = 0
    <3>1. j.position = 0 => r.qty = 0
      BY <1>1, <1>2, <1>4, <2>1, <2>2
    <3> QED
      BY <1>2, <3>1
  <2>6. j \in PositionInfo
    <3> DEFINE position == NewPosition(i, r)
               vwap == [s \in {"kAsk", "kBid"} |->
                          IF s = r.side THEN i.vwap[s] + n ELSE i.vwap[s]]
    <3>1. j = [i EXCEPT !.position = position, !.vwap = vwap]
      BY DEF Increased
    <3>2. position \in Int /\ vwap \in [{"kAsk", "kBid"} -> Int]
      BY <1>1, <1>2, <2>1
    <3> HIDE DEF position, vwap, j
    <3> QED
      BY <1>1, <3>1, <3>2, UpdateType
  <2>7. OneSidedInfo(j)
    BY <1>1, <1>2, <1>4, <2>1, <2>2, <2>3, <2>4, <2>5 DEF OneSidedInfo
  <2>8. Cash(j) = Cash(i) - (-1) * n
    BY <1>1, <1>2, <1>4, <2>3 DEF Cash
  <2> HIDE DEF n, j
  <2>9. sideToValue[r.side] = -1
    BY <1>6 DEF sideToValue
  <2>10. j.position = i.position + sideToValue[r.side] * r.qty
    BY <1>1, <1>2, <1>4, <2>1, <2>9
  <2> QED
    BY <2>6, <2>7, <2>8, <2>9, <2>10 DEF Booked, n, j
<1> QED
  BY <1>5, <1>6 DEF SidedResponse

(* A product is negative when its factors differ in sign.                  *)
LEMMA SignOfProduct ==
  ASSUME NEW a \in Int, NEW b \in Int
  PROVE  /\ b > 0 => (a * b < 0 <=> a < 0)
         /\ b < 0 => (a * b < 0 <=> a > 0)
  OBVIOUS

(* A fill against the position: it reduces, closes or flips it.            *)
LEMMA DecreaseBooks ==
  ASSUME NEW i \in PositionInfo, OneSidedInfo(i), NEW r, SidedResponse(r),
         Decreases(i, r), Whole(i, r)
  PROVE  Booked(i, r, Decreased(i, r))
<1> DEFINE j == Decreased(i, r)
           avg == Average(i, r)
           position == NewPosition(i, r)
           flipped == position * i.position < 0
           gain == MinOf(r.qty, Abs(i.position)) * (avg - r.price) * sideToValue[r.side]
           vwap == [s \in {"kAsk", "kBid"} |->
                      IF s = r.side
                        THEN IF flipped THEN r.price * Abs(position) ELSE i.vwap[s]
                        ELSE IF flipped THEN 0 ELSE avg * Abs(position)]
<1>1. i.position \in Int /\ i.real \in Int /\ i.vwap["kAsk"] \in Int /\ i.vwap["kBid"] \in Int
  BY DEF PositionInfo
<1>2. r.price \in Nat /\ r.qty \in Nat
  BY DEF SidedResponse
<1>3. j = [i EXCEPT !.position = position, !.real = i.real + gain, !.vwap = vwap]
  BY DEF Decreased, PositionInfo
<1>4. j.position = position /\ j.real = i.real + gain /\ j.vwap = vwap
  BY DEF Decreased, PositionInfo
<1>7. ASSUME vwap["kAsk"] \in Int, vwap["kBid"] \in Int
      PROVE  vwap \in [{"kAsk", "kBid"} -> Int]
  BY <1>7
<1> SUFFICES Booked(i, r, j)
  OBVIOUS
<1> HIDE DEF j
<1>5. CASE r.side = "kBid"
  <2> DEFINE held == i.position
             cost == i.vwap["kAsk"]
  <2>1. i.position > 0 /\ held \in Nat /\ held > 0
    BY <1>1, <1>5 DEF Decreases, sideToValue
  <2>2. Abs(i.position) = held /\ Opposite(r.side) = "kAsk" /\ i.vwap["kBid"] = 0
    BY <1>1, <1>5, <2>1 DEF Abs, Opposite, OneSidedInfo
  <2>3. avg = cost \div held
    BY <2>2 DEF Average
  <2>4. avg \in Int
    BY <1>1, <2>1, <2>3
  <2>5. cost = avg * held /\ cost \in Int
    BY <1>1, <2>2 DEF Whole
  <2>6. position = i.position - r.qty /\ position \in Int
    BY <1>1, <1>2, <1>5 DEF NewPosition, sideToValue
  <2>7. flipped <=> held < r.qty
    BY <1>1, <1>2, <2>1, <2>6, SignOfProduct
  <2>8. gain = MinOf(r.qty, held) * (avg - r.price) * (-1)
    BY <1>5, <2>2 DEF sideToValue
  <2>9. vwap["kBid"] = IF flipped THEN r.price * Abs(position) ELSE 0
    BY <1>5, <2>2
  <2>10. vwap["kAsk"] = IF flipped THEN 0 ELSE avg * Abs(position)
    BY <1>5
  <2>11. sideToValue[r.side] = -1 /\ r.price * r.qty \in Int
    BY <1>2, <1>5 DEF sideToValue
  <2> HIDE DEF avg, position, gain, vwap, flipped
  <2>12. CASE held < r.qty
    <3>1. gain = held * (avg - r.price) * (-1) /\ Abs(position) = r.qty - held
      <4>1. MinOf(r.qty, held) = held
        BY <1>2, <2>1, <2>12 DEF MinOf
      <4>2. Abs(position) = r.qty - held
        BY <1>1, <1>2, <2>1, <2>6, <2>12 DEF Abs
      <4> QED
        BY <2>8, <4>1, <4>2
    <3>2. vwap["kBid"] = r.price * (r.qty - held) /\ vwap["kAsk"] = 0
      BY <2>7, <2>9, <2>10, <2>12, <3>1
    <3>3. i.real + gain + r.price * (r.qty - held) = i.real - cost + r.price * r.qty
      BY <1>1, <1>2, <2>1, <2>4, <2>5, <3>1, FlipArithmetic
    <3>4. gain \in Int /\ r.price * (r.qty - held) \in Int
      BY <1>2, <2>1, <2>4, <3>1
    <3>5. j \in PositionInfo
      <4>1. vwap \in [{"kAsk", "kBid"} -> Int]
        BY <1>7, <3>2, <3>4
      <4>2. i.real + gain \in Int
        BY <1>1, <3>4
      <4> QED
        BY <1>3, <2>6, <4>1, <4>2, UpdateType
    <3>6. OneSidedInfo(j)
      BY <1>4, <2>1, <2>6, <2>12, <1>1, <1>2, <3>2 DEF OneSidedInfo
    <3>7. Cash(j) = Cash(i) - (-1) * (r.price * r.qty)
      BY <1>1, <1>4, <2>2, <2>5, <2>11, <3>2, <3>3, <3>4 DEF Cash
    <3>8. j.position = i.position + sideToValue[r.side] * r.qty
      BY <1>1, <1>2, <1>4, <2>6, <2>11
    <3> QED
      BY <2>11, <3>5, <3>6, <3>7, <3>8 DEF Booked
  <2>13. CASE ~(held < r.qty)
    <3>1. gain = r.qty * (avg - r.price) * (-1) /\ Abs(position) = held - r.qty
      <4>1. MinOf(r.qty, held) = r.qty
        BY <1>2, <2>1, <2>13 DEF MinOf
      <4>2. Abs(position) = held - r.qty
        BY <1>1, <1>2, <2>1, <2>6, <2>13 DEF Abs
      <4> QED
        BY <2>8, <4>1, <4>2
    <3>2. vwap["kBid"] = 0 /\ vwap["kAsk"] = avg * (held - r.qty)
      BY <2>7, <2>9, <2>10, <2>13, <3>1
    <3>3. i.real + gain - avg * (held - r.qty) = i.real - cost + r.price * r.qty
      BY <1>1, <1>2, <2>1, <2>4, <2>5, <3>1, ReduceArithmetic
    <3>4. gain \in Int /\ avg * (held - r.qty) \in Int
      BY <1>2, <2>1, <2>4, <3>1
    <3>5. j \in PositionInfo
      <4>1. vwap \in [{"kAsk", "kBid"} -> Int]
        BY <1>7, <3>2, <3>4
      <4>2. i.real + gain \in Int
        BY <1>1, <3>4
      <4> QED
        BY <1>3, <2>6, <4>1, <4>2, UpdateType
    <3>6. position = 0 => avg * (held - r.qty) = 0
      BY <1>1, <1>2, <2>1, <2>4, <2>6
    <3>7. OneSidedInfo(j)
      BY <1>1, <1>2, <1>4, <2>1, <2>6, <2>13, <3>2, <3>6 DEF OneSidedInfo
    <3>8. Cash(j) = Cash(i) - (-1) * (r.price * r.qty)
      BY <1>1, <1>4, <2>2, <2>5, <2>11, <3>2, <3>3, <3>4 DEF Cash
    <3>9. j.position = i.position + sideToValue[r.side] * r.qty
      BY <1>1, <1>2, <1>4, <2>6, <2>11
    <3> QED
      BY <2>11, <3>5, <3>7, <3>8, <3>9 DEF Booked
  <2> QED
    BY <2>12, <2>13
<1>6. CASE r.side = "kAsk"
  <2> DEFINE held == -i.position
             cost == i.vwap["kBid"]
  <2>1. i.position < 0 /\ held \in Nat /\ held > 0
    BY <1>1, <1>6 DEF Decreases, sideToValue
  <2>2. Abs(i.position) = held /\ Opposite(r.side) = "kBid" /\ i.vwap["kAsk"] = 0
    BY <1>1, <1>6, <2>1 DEF Abs, Opposite, OneSidedInfo
  <2>3. avg = cost \div held
    BY <2>2 DEF Average
  <2>4. avg \in Int
    BY <1>1, <2>1, <2>3
  <2>5. cost = avg * held /\ cost \in Int
    BY <1>1, <2>2 DEF Whole
  <2>6. position = i.position + r.qty /\ position \in Int
    BY <1>1, <1>2, <1>6 DEF NewPosition, sideToValue
  <2>7. flipped <=> held < r.qty
    BY <1>1, <1>2, <2>1, <2>6, SignOfProduct
  <2>8. gain = MinOf(r.qty, held) * (avg - r.price) * 1
    BY <1>6, <2>2 DEF sideToValue
  <2>9. vwap["kAsk"] = IF flipped THEN r.price * Abs(position) ELSE 0
    BY <1>6, <2>2
  <2>10. vwap["kBid"] = IF flipped THEN 0 ELSE avg * Abs(position)
    BY <1>6
  <2>11. sideToValue[r.side] = 1 /\ r.price * r.qty \in Int
    BY <1>2, <1>6 DEF sideToValue
  <2> HIDE DEF avg, position, gain, vwap, flipped
  <2>12. CASE held < r.qty
    <3>1. gain = held * (avg - r.price) * 1 /\ Abs(position) = r.qty - held
      <4>1. MinOf(r.qty, held) = held
        BY <1>2, <2>1, <2>12 DEF MinOf
      <4>2. Abs(position) = r.qty - held
        BY <1>1, <1>2, <2>1, <2>6, <2>12 DEF Abs
      <4> QED
        BY <2>8, <4>1, <4>2
    <3>2. vwap["kAsk"] = r.price * (r.qty - held) /\ vwap["kBid"] = 0
      BY <2>7, <2>9, <2>10, <2>12, <3>1
    <3>3. i.real + gain - r.price * (r.qty - held) = i.real + cost - r.price * r.qty
      BY <1>1, <1>2, <2>1, <2>4, <2>5, <3>1, FlipArithmetic
    <3>4. gain \in Int /\ r.price * (r.qty - held) \in Int
      BY <1>2, <2>1, <2>4, <3>1
    <3>5. j \in PositionInfo
      <4>1. vwap \in [{"kAsk", "kBid"} -> Int]
        BY <1>7, <3>2, <3>4
      <4>2. i.real + gain \in Int
        BY <1>1, <3>4
      <4> QED
        BY <1>3, <2>6, <4>1, <4>2, UpdateType
    <3>6. OneSidedInfo(j)
      BY <1>4, <2>1, <2>6, <2>12, <1>1, <1>2, <3>2 DEF OneSidedInfo
    <3>7. Cash(j) = Cash(i) - (1) * (r.price * r.qty)
      BY <1>1, <1>4, <2>2, <2>5, <2>11, <3>2, <3>3, <3>4 DEF Cash
    <3>8. j.position = i.position + sideToValue[r.side] * r.qty
      BY <1>1, <1>2, <1>4, <2>6, <2>11
    <3> QED
      BY <2>11, <3>5, <3>6, <3>7, <3>8 DEF Booked
  <2>13. CASE ~(held < r.qty)
    <3>1. gain = r.qty * (avg - r.price) * 1 /\ Abs(position) = held - r.qty
      <4>1. MinOf(r.qty, held) = r.qty
        BY <1>2, <2>1, <2>13 DEF MinOf
      <4>2. Abs(position) = held - r.qty
        BY <1>1, <1>2, <2>1, <2>6, <2>13 DEF Abs
      <4> QED
        BY <2>8, <4>1, <4>2
    <3>2. vwap["kAsk"] = 0 /\ vwap["kBid"] = avg * (held - r.qty)
      BY <2>7, <2>9, <2>10, <2>13, <3>1
    <3>3. i.real + gain + avg * (held - r.qty) = i.real + cost - r.price * r.qty
      BY <1>1, <1>2, <2>1, <2>4, <2>5, <3>1, ReduceArithmetic
    <3>4. gain \in Int /\ avg * (held - r.qty) \in Int
      BY <1>2, <2>1, <2>4, <3>1
    <3>5. j \in PositionInfo
      <4>1. vwap \in [{"kAsk", "kBid"} -> Int]
        BY <1>7, <3>2, <3>4
      <4>2. i.real + gain \in Int
        BY <1>1, <3>4
      <4> QED
        BY <1>3, <2>6, <4>1, <4>2, UpdateType
    <3>6. position = 0 => avg * (held - r.qty) = 0
      BY <1>1, <1>2, <2>1, <2>4, <2>6
    <3>7. OneSidedInfo(j)
      BY <1>1, <1>2, <1>4, <2>1, <2>6, <2>13, <3>2, <3>6 DEF OneSidedInfo
    <3>8. Cash(j) = Cash(i) - (1) * (r.price * r.qty)
      BY <1>1, <1>4, <2>2, <2>5, <2>11, <3>2, <3>3, <3>4 DEF Cash
    <3>9. j.position = i.position + sideToValue[r.side] * r.qty
      BY <1>1, <1>2, <1>4, <2>6, <2>11
    <3> QED
      BY <2>11, <3>5, <3>7, <3>8, <3>9 DEF Booked
  <2> QED
    BY <2>12, <2>13
<1> QED
  BY <1>5, <1>6 DEF SidedResponse

-----------------------------------------------------------------------------
(* A position that is flat has nothing left to forget.                     *)
LEMMA FlattenedIsSame ==
  ASSUME NEW j \in PositionInfo, OneSidedInfo(j)
  PROVE  Flattened(j) = j
<1>1. CASE j.position = 0
  <2> DEFINE zero == [s \in {"kAsk", "kBid"} |-> 0]
  <2>1. j.vwap["kAsk"] = 0 /\ j.vwap["kBid"] = 0
    BY <1>1 DEF OneSidedInfo
  <2>2. j.vwap \in [{"kAsk", "kBid"} -> Int]
    BY DEF PositionInfo
  <2>3. j.vwap = zero
    BY <2>1, <2>2
  <2>4. Flattened(j) = [j EXCEPT !.vwap = zero]
    BY <1>1 DEF Flattened
  <2> HIDE DEF zero
  <2>5. [j EXCEPT !.vwap = zero] = j
    BY <2>3 DEF PositionInfo
  <2> QED
    BY <2>4, <2>5
<1>2. CASE j.position # 0
  BY <1>2 DEF Flattened
<1> QED
  BY <1>1, <1>2

(* The response to a cancel moves neither the position nor the cash.       *)
LEMMA CancelBooks ==
  ASSUME NEW i \in PositionInfo, OneSidedInfo(i)
  PROVE  Booked(i, Canceled, Increased(i, Canceled)) /\ ~Decreases(i, Canceled)
<1> DEFINE j == Increased(i, Canceled)
           vwap == [s \in {"kAsk", "kBid"} |->
                      IF s = "kInvalid" THEN i.vwap[s] + PriceInvalid * 0 ELSE i.vwap[s]]
<1>1. i.position \in Int /\ i.real \in Int /\ i.vwap["kAsk"] \in Int /\ i.vwap["kBid"] \in Int
  BY DEF PositionInfo
<1>2. /\ Canceled.side = "kInvalid" /\ Canceled.qty = 0 /\ Canceled.price = PriceInvalid
      /\ sideToValue["kInvalid"] = 0
      /\ PriceInvalid \in Nat
  BY PricesAssumption DEF Canceled, sideToValue
<1>3. NewPosition(i, Canceled) = i.position
  BY <1>1, <1>2 DEF NewPosition
<1>4. j = [i EXCEPT !.position = i.position, !.vwap = vwap]
  BY <1>2, <1>3 DEF Increased
<1>5. vwap["kAsk"] = i.vwap["kAsk"] /\ vwap["kBid"] = i.vwap["kBid"]
  OBVIOUS
<1>6. vwap \in [{"kAsk", "kBid"} -> Int]
  BY <1>1
<1> HIDE DEF vwap, j
<1>7. j \in PositionInfo
  BY <1>1, <1>4, <1>6, UpdateType
<1>8. j.position = i.position /\ j.real = i.real /\ j.vwap = vwap
  BY <1>4 DEF PositionInfo
<1>9. OneSidedInfo(j) /\ Cash(j) = Cash(i)
  BY <1>5, <1>8 DEF OneSidedInfo, Cash
<1>10. Cash(i) \in Int
  BY <1>1 DEF Cash
<1>11. sideToValue[Canceled.side] = 0 /\ Canceled.price * Canceled.qty = 0
  BY <1>2
<1>12. j.position = i.position + sideToValue[Canceled.side] * Canceled.qty
  BY <1>1, <1>2, <1>8, <1>11
<1>13. Cash(j) = Cash(i) - sideToValue[Canceled.side] * (Canceled.price * Canceled.qty)
  BY <1>9, <1>10, <1>11
<1>14. ~Decreases(i, Canceled)
  BY <1>1, <1>2 DEF Decreases
<1> QED
  BY <1>7, <1>9, <1>12, <1>13, <1>14 DEF Booked, j

(* What a response is.                                                     *)
LEMMA ResponseCases ==
  ASSUME NEW r \in Responses
  PROVE  /\ \/ r = Canceled
            \/ SidedResponse(r) /\ r.price \in NamedPrices /\ r.qty \in Qtys \cup {0}
         /\ r.price \in Nat
<1>1. CASE r = Canceled
  <2>1. r.price = PriceInvalid /\ PriceInvalid \in Nat
    BY <1>1, PricesAssumption, Zenon DEF Canceled
  <2> QED
    BY <1>1, <2>1, Zenon
<1>2. CASE r # Canceled
  <2>1. \/ \E s \in {"kAsk", "kBid"}, pr \in Prices, q \in Qtys : r = Fill(s, pr, q)
        \/ \E s \in {"kAsk", "kBid"}, pr \in Prices : r = Accepted(s, pr)
    BY <1>2 DEF Responses
  <2>2. r.side \in {"kAsk", "kBid"} /\ r.price \in NamedPrices /\ r.qty \in Qtys \cup {0}
    <3>1. ASSUME NEW s \in {"kAsk", "kBid"}, NEW pr \in Prices, NEW q \in Qtys,
                 r = Fill(s, pr, q)
          PROVE  r.side = s /\ r.price \in NamedPrices /\ r.qty = q
      <4> DEFINE amounts == { pr * k : k \in Qtys }
      <4>1. pr * q \in amounts
        BY Zenon
      <4>2. amounts \in { { p * k : k \in Qtys } : p \in Prices }
        BY Zenon
      <4> HIDE DEF amounts
      <4>3. pr * q \in NamedPrices
        BY <4>1, <4>2, Zenon DEF NamedPrices
      <4> QED
        BY <3>1, <4>3, Zenon DEF Fill
    <3>2. ASSUME NEW s \in {"kAsk", "kBid"}, NEW pr \in Prices, r = Accepted(s, pr)
          PROVE  r.side = s /\ r.price \in NamedPrices /\ r.qty = 0
      BY <3>2, Zenon DEF Accepted, NamedPrices
    <3> QED
      BY <2>1, <3>1, <3>2, Zenon
  <2>3. r.price \in Nat
    <3>1. ASSUME NEW p \in Prices, NEW q \in Qtys PROVE p * q \in Nat
      <4>1. p \in Nat /\ q \in Nat
        BY PricesAssumption, QtysAssumption, Zenon
      <4> QED
        BY <4>1
    <3>2. r.price \in Prices \/ \E p \in Prices, q \in Qtys : r.price = p * q
      BY <2>2, Zenon DEF NamedPrices
    <3> QED
      BY <3>1, <3>2, PricesAssumption, Zenon
  <2>4. r.qty \in Nat
    <3>1. CASE r.qty \in Qtys
      BY <3>1, QtysAssumption, Zenon
    <3>2. CASE r.qty = 0
      BY <3>2
    <3> QED
      BY <2>2, <3>1, <3>2
  <2> QED
    BY <2>2, <2>3, <2>4 DEF SidedResponse
<1> QED
  BY <1>1, <1>2

(* addFill books the response and values the position at its price.        *)
LEMMA AddFillBooks ==
  ASSUME NEW i \in PositionInfo, OneSidedInfo(i), NEW r \in Responses, Whole(i, r)
  PROVE  /\ Booked(i, r, addFill(i, r))
         /\ addFill(i, r).total = Cash(addFill(i, r)) + addFill(i, r).position * r.price
<1> DEFINE j == IF Decreases(i, r) THEN Decreased(i, r) ELSE Increased(i, r)
<1>1. Booked(i, r, j)
  <2>1. CASE r = Canceled
    BY <2>1, CancelBooks
  <2>2. CASE SidedResponse(r)
    BY <2>2, IncreaseBooks, DecreaseBooks
  <2> QED
    BY <2>1, <2>2, ResponseCases
<1>2. addFill(i, r) = Valued(Flattened(j), r.price)
  BY DEF addFill
<1> HIDE DEF j
<1>3. j \in PositionInfo /\ OneSidedInfo(j)
  BY <1>1 DEF Booked
<1>4. addFill(i, r) = Valued(j, r.price)
  BY <1>2, <1>3, FlattenedIsSame
<1>5. r.price \in Int
  BY ResponseCases
<1> DEFINE k == Valued(j, r.price)
<1>6. /\ k \in PositionInfo /\ k.position = j.position /\ k.vwap = j.vwap
      /\ k.real = j.real /\ k.total = Cash(j) + j.position * r.price
  BY <1>3, <1>5, ValuedIsEquity
<1> HIDE DEF k
<1>7. Cash(k) = Cash(j) /\ OneSidedInfo(k)
  BY <1>3, <1>6 DEF Cash, OneSidedInfo
<1>8. Booked(i, r, k) /\ k.total = Cash(k) + k.position * r.price
  BY <1>1, <1>6, <1>7 DEF Booked
<1> QED
  BY <1>4, <1>8 DEF k

-----------------------------------------------------------------------------
(* The inductive invariant: typed and one-sided.                           *)
BooksInv == info \in [Instruments -> PositionInfo] /\ OneSided

(* A new PositionInfo is in order.                                         *)
LEMMA InitBooks ==
  ASSUME Init
  PROVE  BooksInv /\ Ledger!Init
<1>1. NewPositionInfo \in PositionInfo
  BY DEF NewPositionInfo, PositionInfo
<1>2. /\ NewPositionInfo.position = 0 /\ NewPositionInfo.total = 0
      /\ NewPositionInfo.vwap["kAsk"] = 0 /\ NewPositionInfo.vwap["kBid"] = 0
      /\ Cash(NewPositionInfo) = 0
  BY DEF NewPositionInfo, Cash
<1>3. \A k \in Instruments : info[k] = NewPositionInfo
  BY DEF Init
<1>4. BooksInv
  BY <1>1, <1>2, <1>3 DEF Init, BooksInv, OneSided
<1> QED
  BY <1>2, <1>3, <1>4 DEF Ledger!Init

(* Booking a response is a trade of the ledger, or a mark for a cancel.    *)
LEMMA AddFillStep ==
  ASSUME BooksInv, NEW e \in Kept, NEW p \in Pairs, NEW r \in Responses,
         Whole(info[<<e, p>>], r), AddFill(e, p, r)
  PROVE  BooksInv' /\ Ledger!Next
<1> DEFINE k == <<e, p>>
           i == info[k]
           j == addFill(i, r)
<1>1. k \in Instruments /\ i \in PositionInfo /\ OneSidedInfo(i)
  BY DEF BooksInv, OneSided, OneSidedInfo, Instruments
<1>2. Booked(i, r, j) /\ j.total = Cash(j) + j.position * r.price
  BY <1>1, AddFillBooks
<1>3. info' = [info EXCEPT ![k] = j] /\ info \in [Instruments -> PositionInfo]
  BY DEF AddFill, BooksInv
<1> HIDE DEF j, k
<1>4. j \in PositionInfo /\ OneSidedInfo(j)
  BY <1>2 DEF Booked
<1>5. BooksInv'
  BY <1>1, <1>3, <1>4 DEF BooksInv, OneSided, OneSidedInfo
<1>6. CASE r = Canceled
  <2>1. j.position = i.position /\ Cash(j) = Cash(i) /\ r.price = PriceInvalid
    <3>1. /\ r.qty = 0 /\ sideToValue[r.side] = 0 /\ r.price = PriceInvalid
          /\ PriceInvalid \in Nat
      BY <1>6, PricesAssumption DEF Canceled, sideToValue
    <3>2. i.position \in Int /\ Cash(i) \in Int
      BY <1>1 DEF PositionInfo, Cash
    <3>3. sideToValue[r.side] * r.qty = 0 /\ sideToValue[r.side] * (r.price * r.qty) = 0
      BY <3>1
    <3> QED
      BY <1>2, <3>1, <3>2, <3>3 DEF Booked
  <2>2. Ledger!Mark(k, PriceInvalid)
    BY <1>1, <1>2, <1>3, <2>1 DEF Ledger!Mark
  <2> QED
    BY <1>1, <1>5, <2>2 DEF Ledger!Next
<1>7. CASE r # Canceled
  <2> DEFINE sign == sideToValue[r.side]
  <2>1. /\ SidedResponse(r) /\ r.qty \in Qtys \cup {0}
        /\ r.price \in NamedPrices
    BY <1>7, ResponseCases
  <2>2. sign \in {1, -1}
    BY <2>1 DEF sideToValue, SidedResponse
  <2>3. /\ j.position = i.position + sign * r.qty
        /\ Cash(j) = Cash(i) - sign * (r.price * r.qty)
    BY <1>2 DEF Booked
  <2> HIDE DEF sign
  <2>4. Ledger!Trade(k, sign, r.price, r.qty)
    BY <1>1, <1>2, <1>3, <2>3 DEF Ledger!Trade
  <2> QED
    BY <1>1, <1>5, <2>1, <2>2, <2>4 DEF Ledger!Next
<1> QED
  BY <1>6, <1>7

(* A new BBO is a mark of the ledger, or nothing.                          *)
LEMMA UpdateBBOStep ==
  ASSUME BooksInv, NEW e \in Kept, NEW p \in Pairs,
         NEW bid \in Prices \cup {PriceInvalid}, NEW ask \in Prices \cup {PriceInvalid},
         UpdateBBO(e, p, bid, ask)
  PROVE  BooksInv' /\ [Ledger!Next]_(Ledger!ledger)
<1> DEFINE k == <<e, p>>
           i == info[k]
           mid == (bid + ask) \div 2
           j == Valued(i, mid)
<1>1. k \in Instruments /\ i \in PositionInfo /\ OneSidedInfo(i)
  BY DEF BooksInv, OneSided, OneSidedInfo, Instruments
<1>2. info \in [Instruments -> PositionInfo]
  BY DEF BooksInv
<1>3. CASE i.position # 0 /\ bid # PriceInvalid /\ ask # PriceInvalid
  <2>1. bid \in Prices /\ ask \in Prices
    BY <1>3
  <2>2. bid \in Nat /\ ask \in Nat
    BY <2>1, PricesAssumption
  <2>3. mid \in Int
    BY <2>2
  <2>4. mid \in { (b + a) \div 2 : b, a \in Prices } \cup {PriceInvalid}
    BY <2>1
  <2>5. info' = [info EXCEPT ![k] = j]
    BY <1>3 DEF UpdateBBO, updateBBO
  <2> HIDE DEF mid
  <2>6. /\ j \in PositionInfo /\ j.position = i.position /\ j.vwap = i.vwap
        /\ j.real = i.real /\ j.total = Cash(i) + i.position * mid
    BY <1>1, <2>3, ValuedIsEquity
  <2> HIDE DEF j, k
  <2>7. Cash(j) = Cash(i) /\ OneSidedInfo(j)
    BY <1>1, <2>6 DEF Cash, OneSidedInfo
  <2>8. BooksInv'
    BY <1>1, <1>2, <2>5, <2>6, <2>7 DEF BooksInv, OneSided, OneSidedInfo
  <2>9. Ledger!Mark(k, mid)
    BY <1>1, <1>2, <2>5, <2>6, <2>7 DEF Ledger!Mark
  <2> QED
    BY <1>1, <2>4, <2>8, <2>9 DEF Ledger!Next
<1>4. CASE ~(i.position # 0 /\ bid # PriceInvalid /\ ask # PriceInvalid)
  <2>1. info' = info
    BY <1>2, <1>4 DEF UpdateBBO, updateBBO
  <2> QED
    BY <2>1 DEF BooksInv, OneSided, Ledger!ledger
<1> QED
  BY <1>3, <1>4

(* Every step of the program is one of the ledger or leaves it alone.      *)
LEMMA NextStep ==
  ASSUME BooksInv, [Next]_vars
  PROVE  BooksInv' /\ [Ledger!Next]_(Ledger!ledger)
<1>1. ASSUME NEW p \in Pairs, NEW e \in Kept, NEW r \in Responses,
             OnOrderResponse(e, p, r)
      PROVE  BooksInv' /\ [Ledger!Next]_(Ledger!ledger)
  BY <1>1, AddFillStep DEF OnOrderResponse, InBounds
<1>2. ASSUME NEW p \in Pairs, NEW e \in Exchanges, NEW r \in Responses,
             HandleResponse(e, p, r)
      PROVE  BooksInv' /\ [Ledger!Next]_(Ledger!ledger)
  <2>1. CASE e \in Kept
    BY <1>2, <2>1, AddFillStep DEF HandleResponse, InBounds
  <2>2. CASE e \notin Kept
    <3>1. info' = info
      BY <1>2, <2>2 DEF HandleResponse
    <3> QED
      BY <3>1 DEF BooksInv, OneSided, Ledger!ledger
  <2> QED
    BY <2>1, <2>2
<1>3. CASE UNCHANGED vars
  BY <1>3 DEF vars, BooksInv, OneSided, Ledger!ledger
<1> QED
  BY <1>1, <1>2, <1>3, UpdateBBOStep DEF Next

(* open_vwap holds the cost of the open position and nothing else.         *)
THEOREM OneSidedAlways == Spec => []OneSided
<1>1. Init => BooksInv
  BY InitBooks
<1>2. BooksInv /\ [Next]_vars => BooksInv'
  BY NextStep
<1>3. BooksInv => OneSided
  BY DEF BooksInv
<1> QED
  BY <1>1, <1>2, <1>3, PTL DEF Spec

(* total_pnl is the cash that the fills brought in plus the position at    *)
(* the last price, after every sequence of fills, flips and quotes.        *)
THEOREM KeeperImplementsLedger == Spec => ImplementsLedger
<1>1. Init => BooksInv /\ Ledger!Init
  BY InitBooks
<1>2. BooksInv /\ [Next]_vars => BooksInv' /\ [Ledger!Next]_(Ledger!ledger)
  BY NextStep
<1> QED
  BY <1>1, <1>2, PTL DEF Spec, ImplementsLedger, Ledger!Spec

-----------------------------------------------------------------------------
(***************************************************************************)
(* AddArbitrageCycle, for any calls.                                       *)
(***************************************************************************)

(* A set of naturals has a least one.                                      *)
LEMMA LeastNatural ==
  ASSUME NEW T \in SUBSET Nat, T # {}
  PROVE  \E x \in T : \A y \in T : x <= y
<1>1. IsWellFoundedOn(OpToRel(<, Nat), Nat)
  BY NatLessThanWellFounded, Zenon
<1> DEFINE R == OpToRel(<, Nat)
<1>2. \A x, y \in Nat : y < x => <<y, x>> \in R
  BY Zenon DEF OpToRel
<1> HIDE DEF R
<1>3. IsWellFoundedOn(R, Nat)
  BY <1>1, Zenon DEF R
<1>4. PICK x \in T : \A y \in T : ~ (<<y, x>> \in R)
  BY <1>3, WFMin, Zenon
<1>5. ASSUME NEW y \in T PROVE x <= y
  <2>1. x \in Nat /\ y \in Nat
    OBVIOUS
  <2>2. ~(y < x)
    BY <1>2, <1>4, <2>1, Zenon
  <2> QED
    BY <2>1, <2>2
<1> QED
  BY <1>5, Zenon

(* Induction along a loop: a set with 0 that every iteration below n keeps *)
(* contains 0 .. n.                                                        *)
LEMMA UpTo ==
  ASSUME NEW n \in Nat, NEW T, 0 \in T, \A k \in 0 .. n - 1 : k \in T => k + 1 \in T
  PROVE  0 .. n \subseteq T
<1> SUFFICES ASSUME {k \in 0 .. n : k \notin T} # {} PROVE FALSE
  BY Zenon
<1>1. {k \in 0 .. n : k \notin T} \in SUBSET Nat
  OBVIOUS
<1>2. PICK x \in {k \in 0 .. n : k \notin T} : \A y \in {k \in 0 .. n : k \notin T} : x <= y
  BY <1>1, LeastNatural, Zenon
<1>3. x # 0 /\ x \in 0 .. n /\ x \notin T
  BY <1>2, Zenon
<1>4. x - 1 \in 0 .. n - 1 /\ x - 1 \in 0 .. n /\ (x - 1) + 1 = x /\ ~(x <= x - 1)
  BY <1>3
<1>5. x - 1 \in T
  BY <1>2, <1>4, Zenon
<1> QED
  BY <1>3, <1>4, <1>5, Zenon

(* A loop of N iterations over values of V: its values exist.              *)
HasRun(N, V, b, body) ==
  \E f \in [0 .. N -> V] : f[0] = b /\ \A n \in 1 .. N : f[n] = body[<<f[n - 1], n>>]

(* By induction over the iterations.                                       *)
LEMMA LoopRuns ==
  ASSUME NEW N \in Nat, NEW V, NEW b \in V, NEW body \in [V \X (1 .. N) -> V]
  PROVE  HasRun(N, V, b, body)
<1> DEFINE Runs(f, k) == f[0] = b /\ \A n \in 1 .. k : f[n] = body[<<f[n - 1], n>>]
           T == {k \in Nat : \E f \in [0 .. k -> V] : Runs(f, k)}
<1>1. 0 \in T
  <2> DEFINE f0 == [n \in 0 .. 0 |-> b]
  <2>1. f0 \in [0 .. 0 -> V] /\ f0[0] = b /\ 1 .. 0 = {}
    OBVIOUS
  <2> HIDE DEF f0
  <2> QED
    BY <2>1, Zenon
<1>2. ASSUME NEW k \in 0 .. N - 1, k \in T
      PROVE  k + 1 \in T
  <2>1. PICK f \in [0 .. k -> V] : Runs(f, k)
    BY <1>2, Zenon
  <2> DEFINE v == body[<<f[k], k + 1>>]
             g == [n \in 0 .. k + 1 |-> IF n = k + 1 THEN v ELSE f[n]]
  <2>2. v \in V
    <3>1. f[k] \in V /\ k + 1 \in 1 .. N
      OBVIOUS
    <3> QED
      BY <3>1, Zenon
  <2> HIDE DEF v
  <2>3. g \in [0 .. k + 1 -> V]
    BY <2>2
  <2>4. /\ g[0] = f[0] /\ g[k + 1] = v
        /\ \A n \in 1 .. k : g[n] = f[n] /\ g[n - 1] = f[n - 1]
        /\ g[k] = f[k] /\ (k + 1) - 1 = k
        /\ \A n \in 1 .. k + 1 : n \in 1 .. k \/ n = k + 1
    OBVIOUS
  <2> HIDE DEF g
  <2>5. Runs(g, k + 1)
    BY <2>1, <2>4, Zenon DEF v
  <2>6. k + 1 \in Nat
    OBVIOUS
  <2> HIDE DEF Runs
  <2> QED
    BY <2>3, <2>5, <2>6, Zenon
<1> HIDE DEF T
<1>3. 0 .. N \subseteq T /\ N \in 0 .. N
  <2>1. 0 .. N \subseteq T
    BY <1>1, <1>2, UpTo, Zenon
  <2> QED
    BY <2>1
<1> QED
  BY <1>3, Zenon DEF T, HasRun

(* Before the first cycle is added.                                        *)
LEMMA NoCyclesSound == SoundSetup(NoCycles)
<1>1. << >> \in Seq({}) /\ DOMAIN << >> = {}
  OBVIOUS
<1>2. NoCycles.trades = {} /\ NoCycles.dictionary = [k \in Keys |-> << >>]
  BY Zenon DEF NoCycles
<1> QED
  BY <1>1, <1>2, Zenon DEF SoundSetup, IsInjective, Range

(* A call enters a cycle under the key of each of its steps, and under none *)
(* twice.                                                                  *)
LEMMA AddKeepsSound ==
  ASSUME NEW setup, SoundSetup(setup), NEW cycle \in Seq([key : Keys, operation : Legs])
  PROVE  SoundSetup(AddArbitrageCycle(setup, cycle))
<1> DEFINE D == setup.dictionary
           T == setup.trades \cup {cycle}
           keys == {cycle[i].key : i \in DOMAIN cycle}
           E == [k \in Keys |-> IF k \in keys /\ cycle \notin Range(D[k])
                                  THEN Append(D[k], cycle) ELSE D[k]]
<1>1. /\ AddArbitrageCycle(setup, cycle).dictionary = E
      /\ AddArbitrageCycle(setup, cycle).trades = T
  BY Zenon DEF AddArbitrageCycle
<1>2. T \subseteq Seq([key : Keys, operation : Legs])
  BY Zenon DEF SoundSetup
<1>3. keys # {} => cycle # << >>
  OBVIOUS
<1>4. ASSUME NEW k \in Keys
      PROVE  /\ E[k] \in Seq(T) /\ IsInjective(E[k])
             /\ \A n \in DOMAIN E[k] : E[k][n] # << >>
  <2> DEFINE s == D[k]
  <2>1. /\ s \in Seq(setup.trades) /\ IsInjective(s) /\ \A n \in DOMAIN s : s[n] # << >>
    BY Zenon DEF SoundSetup, Range
  <2>2. s \in Seq(T)
    BY <2>1
  <2>3. CASE k \in keys /\ cycle \notin Range(s)
    <3>1. E[k] = Append(s, cycle) /\ cycle # << >>
      BY <1>3, <2>3, Zenon
    <3>2. \A n \in DOMAIN s : s[n] # cycle
      <4> HIDE DEF s
      <4> QED
        BY <2>1, <2>3, Zenon DEF Range
    <3> DEFINE e == Append(s, cycle)
    <3> HIDE DEF s, keys, E
    <3>3. /\ e \in Seq(T) /\ DOMAIN e = 1 .. Len(s) + 1 /\ e[Len(s) + 1] = cycle
          /\ DOMAIN s = 1 .. Len(s) /\ Len(s) \in Nat /\ \A n \in DOMAIN s : e[n] = s[n]
      BY <2>2
    <3> HIDE DEF e
    <3>4. \A n \in DOMAIN e : n \in DOMAIN s \/ n = Len(s) + 1
      BY <3>3
    <3>5. IsInjective(e)
      BY <2>1, <3>2, <3>3, <3>4, Zenon DEF IsInjective
    <3>6. \A n \in DOMAIN e : e[n] # << >>
      BY <2>1, <3>1, <3>3, <3>4, Zenon
    <3> QED
      BY <3>1, <3>3, <3>5, <3>6, Zenon DEF e
  <2>4. CASE ~(k \in keys /\ cycle \notin Range(s))
    <3>1. E[k] = s
      BY <2>4, Zenon
    <3> QED
      BY <2>1, <2>2, <3>1, Zenon
  <2> QED
    BY <2>3, <2>4, Zenon
<1>5. E \in [Keys -> Seq(T)]
  <2>1. E = [k \in Keys |-> E[k]]
    OBVIOUS
  <2> HIDE DEF E
  <2> QED
    BY <1>4, <2>1, Zenon
<1> HIDE DEF E, T
<1> QED
  BY <1>1, <1>2, <1>4, <1>5, Zenon DEF SoundSetup, Range

(* Whatever cycles are added, and however often: AddArbitrageCycle has     *)
(* listed a cycle once under each of its keys, and none without a step, so *)
(* that a BBO is evaluated against a cycle once.                           *)
THEOREM EachCycleOnce ==
  ASSUME ArbitrageAssumption
  PROVE  SoundSetup(Setup)
<1> DEFINE N == Len(Added)
           C == Seq([key : Keys, operation : Legs])
           V == {x \in [dictionary : [Keys -> Seq(C)], trades : SUBSET C] : SoundSetup(x)}
           Call(v, n) == AddArbitrageCycle(v, Added[n])
           body == [x \in V \X (1 .. N) |-> Call(x[1], x[2])]
           Rerun(h) == [n \in 0 .. N |-> IF n = 0 THEN NoCycles ELSE Call(h[n - 1], n)]
<1>1. N \in Nat /\ \A n \in 1 .. N : Added[n] \in C
  <2>1. Added \in Seq(C)
    BY Zenon DEF ArbitrageAssumption
  <2> HIDE DEF C
  <2> QED
    BY <2>1
<1>2. \A x : SoundSetup(x) => x.dictionary \in [Keys -> Seq(C)] /\ x.trades \in SUBSET C
  <2> SUFFICES ASSUME NEW x, SoundSetup(x)
               PROVE  x.dictionary \in [Keys -> Seq(C)] /\ x.trades \in SUBSET C
    BY Zenon
  <2>1. x.trades \subseteq C /\ x.dictionary \in [Keys -> Seq(x.trades)]
    BY Zenon DEF SoundSetup
  <2> HIDE DEF C
  <2> QED
    BY <2>1
<1>3. ASSUME NEW v \in V, NEW n \in 1 .. N
      PROVE  Call(v, n) \in V
  <2>1. SoundSetup(Call(v, n))
    BY <1>1, <1>3, AddKeepsSound, Zenon
  <2>2. \E d, t : Call(v, n) = [dictionary |-> d, trades |-> t]
    BY Zenon DEF AddArbitrageCycle
  <2> QED
    BY <1>2, <2>1, <2>2, Zenon
<1>4. NoCycles \in V
  <2>1. \E d, t : NoCycles = [dictionary |-> d, trades |-> t]
    BY Zenon DEF NoCycles
  <2> QED
    BY <1>2, <2>1, NoCyclesSound, Zenon
<1>5. SetupAfter = CHOOSE h : h = Rerun(h)
  BY Zenon DEF SetupAfter
<1> DEFINE F == SetupAfter
<1>6. Setup = F[N]
  BY Zenon DEF Setup
<1>7. \A x \in V : SoundSetup(x)
  BY Zenon
<1> HIDE DEF N, C, V, Call, F
<1>8. body \in [V \X (1 .. N) -> V]
  <2>1. \A x \in V \X (1 .. N) : x[1] \in V /\ x[2] \in 1 .. N
    BY Zenon
  <2> QED
    BY <1>3, <2>1, Zenon
<1>9. ASSUME NEW v \in V, NEW n \in 1 .. N
      PROVE  body[<<v, n>>] = Call(v, n)
  <2>1. <<v, n>> \in V \X (1 .. N) /\ <<v, n>>[1] = v /\ <<v, n>>[2] = n
    OBVIOUS
  <2> QED
    BY <2>1, Zenon
<1> HIDE DEF body
<1>10. PICK f \in [0 .. N -> V] :
         f[0] = NoCycles /\ \A n \in 1 .. N : f[n] = body[<<f[n - 1], n>>]
  <2>1. HasRun(N, V, NoCycles, body)
    BY <1>1, <1>4, <1>8, LoopRuns, Zenon
  <2> QED
    BY <2>1, Zenon DEF HasRun
<1>11. f = Rerun(f)
  <2>1. \A n \in 0 .. N : n # 0 => n \in 1 .. N /\ n - 1 \in 0 .. N
    BY <1>1
  <2>2. \A n \in 0 .. N : f[n] = IF n = 0 THEN NoCycles ELSE Call(f[n - 1], n)
    BY <1>9, <1>10, <2>1, Zenon
  <2> QED
    BY <2>2, Zenon
<1>12. F = Rerun(F)
  <2> HIDE DEF Rerun
  <2> QED
    BY <1>5, <1>11, Zenon DEF F
<1>13. F[0] = NoCycles /\ \A n \in 1 .. N : F[n] = Call(F[n - 1], n)
  <2>1. 0 \in 0 .. N /\ \A n \in 1 .. N : n # 0 /\ n \in 0 .. N
    BY <1>1
  <2> QED
    BY <1>12, <2>1, Zenon
<1> DEFINE T == {n \in 0 .. N : F[n] \in V}
<1>14. 0 \in T
  <2>1. 0 \in 0 .. N
    BY <1>1
  <2> QED
    BY <1>4, <1>13, <2>1, Zenon
<1>15. ASSUME NEW k \in 0 .. N - 1, k \in T PROVE k + 1 \in T
  <2>1. k + 1 \in 1 .. N /\ (k + 1) - 1 = k /\ k + 1 \in 0 .. N
    BY <1>1
  <2> QED
    BY <1>3, <1>13, <1>15, <2>1, Zenon
<1> HIDE DEF T
<1>16. 0 .. N \subseteq T /\ N \in 0 .. N
  <2>1. 0 .. N \subseteq T
    BY <1>1, <1>14, <1>15, UpTo, Zenon
  <2> QED
    BY <1>1, <2>1
<1> QED
  BY <1>6, <1>7, <1>16, Zenon DEF T

-----------------------------------------------------------------------------
(***************************************************************************)
(* The tasks of ArbitrageStrategyComponent share the trades and the map of *)
(* BBOs without a lock.  However they overlap, for every set of keys, of   *)
(* cycles and of BBOs and any number of threads: no trade is left open,    *)
(* and a report is sent only when two tasks raced.                         *)
(*                                                                         *)
(* The second needs to know whose an entry price is.  The ghost `by' names *)
(* the task that wrote it; a task evaluates a cycle once, since            *)
(* AddArbitrageCycle enters it once under a key, so that an entry by task  *)
(* i of the cycle it is evaluating is a price of this very evaluation.     *)
(***************************************************************************)
Quotes == [bid : Int, ask : Int]

PCs == {"queued", "write", "next", "read", "check", "open", "buy", "sell", "opened",
        "entries", "sellEntry", "close", "report", "done"}

\* The program counters at which a task evaluates a cycle.
Evaluating == PCs \ {"queued", "write", "next", "done"}

Task == [key : Keys, bbo : BBOs, pc : PCs, todo : Seq(Cycles), cycle : Cycles \cup {<< >>},
         step : Nat, quote : [Legs -> Quotes], profit : Int, odd : BOOLEAN,
         foreign : BOOLEAN]

Trade == [open : BOOLEAN, entry : [Legs -> Int], by : [Legs -> Nat]]

Stored == [bid : Int, ask : Int, odd : BOOLEAN]

\* TaskTypes of everything.
TaskTypes ==
  /\ task \in Seq(Task)
  /\ DOMAIN map \subseteq Keys /\ \A k \in DOMAIN map : map[k] \in Stored
  /\ trade \in [Cycles -> Trade]
  /\ \A r \in reports : r.cycle \in Cycles
  /\ broken \in BOOLEAN

\* What a task is about, by where it is.
TaskInv(t) ==
  /\ t.cycle \in Seq([key : Keys, operation : Legs])
  /\ t.pc \in Evaluating =>
       t.cycle \in Cycles /\ t.cycle # << >> /\ \A n \in DOMAIN t.todo : t.todo[n] # t.cycle
  /\ t.pc = "read" => t.step \in DOMAIN t.cycle
  /\ t.pc # "read" => t.step = 1
  /\ IsInjective(t.todo) /\ \A n \in DOMAIN t.todo : t.todo[n] # << >>

\* A quote that is not Odd is not crossed, and the buying leg of an evaluation that
\* reads its own entry loses the spread.
QuoteInv(t) ==
  /\ ~t.odd => \A l \in Legs : t.quote[l].bid <= t.quote[l].ask
  /\ t.pc = "sellEntry" => t.profit = t.quote["kBuy"].bid - t.quote["kBuy"].ask \/ t.foreign
  /\ t.pc = "close" => t.profit <= 0 \/ t.odd \/ t.foreign
  /\ t.pc = "report" => t.odd \/ t.foreign

MapInv == \A k \in DOMAIN map : ~map[k].odd => map[k].bid <= map[k].ask

\* Entry l of the trade of c, the price e, is task t's.
EntryInv(t, c, l, e) ==
  /\ t.pc \notin {"queued", "write"}
  /\ \A n \in DOMAIN t.todo : t.todo[n] # c
  /\ t.pc \in Evaluating /\ t.cycle = c =>
       /\ t.pc \in {"sell", "opened", "entries", "sellEntry", "close", "report"}
       /\ e = EntryPrice(t.quote, l)

\* An entry is the price of the evaluation its writer is in.
OwnInv ==
  \A c \in Cycles, l \in Legs : trade[c].by[l] # 0 =>
    /\ trade[c].by[l] \in DOMAIN task
    /\ EntryInv(task[trade[c].by[l]], c, l, trade[c].entry[l])

\* Where a task will still look at is_open of the trade it may have opened.
Holding == {"buy", "sell", "opened", "entries", "sellEntry", "close"}

Inv ==
  /\ TaskTypes /\ MapInv /\ OwnInv /\ NothingLeftOpen /\ ReportNeedsRace
  /\ \A i \in DOMAIN task : TaskInv(task[i]) /\ QuoteInv(task[i])

-----------------------------------------------------------------------------
(* What is known of a task.                                                *)
LEMMA TaskFacts ==
  ASSUME Inv, NEW j \in DOMAIN task
  PROVE  /\ task[j] \in Task /\ TaskInv(task[j]) /\ QuoteInv(task[j])
         /\ task[j].key \in Keys /\ task[j].bbo \in BBOs
<1>1. task \in Seq(Task) /\ TaskInv(task[j]) /\ QuoteInv(task[j])
  BY Zenon DEF Inv, TaskTypes
<1>2. task[j] \in Task
  BY <1>1
<1>3. \A t \in Task : t.key \in Keys /\ t.bbo \in BBOs
  BY Zenon DEF Task
<1> QED
  BY <1>1, <1>2, <1>3, Zenon

(* One task has become r.                                                  *)
LEMMA TaskChange ==
  ASSUME task \in Seq(Task), NEW i \in DOMAIN task, NEW r \in Task,
         task' = [task EXCEPT ![i] = r]
  PROVE  /\ task' \in Seq(Task) /\ DOMAIN task' = DOMAIN task /\ task'[i] = r
         /\ \A j \in DOMAIN task : j # i => task'[j] = task[j]
<1>1. Len(task') = Len(task) /\ DOMAIN task' = DOMAIN task
  OBVIOUS
<1>2. task'[i] = r /\ \A j \in DOMAIN task : j # i => task'[j] = task[j]
  OBVIOUS
<1>3. \A j \in DOMAIN task : task'[j] \in Task
  BY <1>2
<1> QED
  BY <1>1, <1>2, <1>3

(* What a step of task i has to keep.                                      *)
LEMMA TaskStep ==
  ASSUME Inv, ~broken, NEW i \in DOMAIN task, NEW r \in Task,
         task' = [task EXCEPT ![i] = r], TaskInv(r), QuoteInv(r),
         DOMAIN map' \subseteq Keys, \A k \in DOMAIN map' : map'[k] \in Stored, MapInv',
         \A x \in reports' : x.cycle \in Cycles /\ x.raced,
         broken' \in BOOLEAN, trade' \in [Cycles -> Trade],
         \A c \in Cycles : trade'[c].open =>
           \/ r.pc \in Holding /\ r.cycle = c
           \/ trade[c].open /\ ~(task[i].pc \in Holding /\ task[i].cycle = c),
         \A c \in Cycles, l \in Legs :
           \/ trade'[c].by[l] = i /\ EntryInv(r, c, l, trade'[c].entry[l])
           \/ /\ trade'[c].by[l] # i
              /\ trade'[c].by[l] = trade[c].by[l] /\ trade'[c].entry[l] = trade[c].entry[l]
  PROVE  Inv'
<1>1. /\ task' \in Seq(Task) /\ DOMAIN task' = DOMAIN task /\ task'[i] = r
      /\ \A j \in DOMAIN task : j # i => task'[j] = task[j]
  BY TaskChange, Zenon DEF Inv, TaskTypes
<1>2. TaskTypes' /\ ReportNeedsRace'
  BY <1>1, Zenon DEF TaskTypes, ReportNeedsRace
<1>3. \A j \in DOMAIN task' : TaskInv(task'[j]) /\ QuoteInv(task'[j])
  BY <1>1, Zenon DEF Inv
<1>4. NothingLeftOpen'
  <2> SUFFICES ASSUME NEW c \in Cycles, trade'[c].open
               PROVE  \E j \in CyclicRunning' : task'[j].cycle = c /\ task'[j].pc \in Holding
    BY Zenon DEF NothingLeftOpen, Holding
  <2>1. CASE r.pc \in Holding /\ r.cycle = c
    <3>1. i \in CyclicRunning'
      BY <1>1, <2>1, Zenon DEF CyclicRunning, Holding
    <3> QED
      BY <1>1, <2>1, <3>1, Zenon
  <2>2. CASE trade[c].open /\ ~(task[i].pc \in Holding /\ task[i].cycle = c)
    <3>1. PICK j \in CyclicRunning : task[j].cycle = c /\ task[j].pc \in Holding
      BY <2>2, Zenon DEF Inv, NothingLeftOpen, Holding
    <3>2. j # i /\ j \in DOMAIN task
      BY <2>2, <3>1, Zenon DEF CyclicRunning
    <3>3. j \in CyclicRunning'
      BY <1>1, <3>1, <3>2, Zenon DEF CyclicRunning
    <3> QED
      BY <1>1, <3>1, <3>2, <3>3, Zenon
  <2> QED
    BY <2>1, <2>2, Zenon
<1>5. OwnInv'
  <2> SUFFICES ASSUME NEW c \in Cycles, NEW l \in Legs, trade'[c].by[l] # 0
               PROVE  /\ trade'[c].by[l] \in DOMAIN task'
                      /\ EntryInv(task'[trade'[c].by[l]], c, l, trade'[c].entry[l])
    BY Zenon DEF OwnInv
  <2>1. CASE trade'[c].by[l] = i /\ EntryInv(r, c, l, trade'[c].entry[l])
    BY <1>1, <2>1, Zenon
  <2>2. CASE /\ trade'[c].by[l] # i
             /\ trade'[c].by[l] = trade[c].by[l] /\ trade'[c].entry[l] = trade[c].entry[l]
    BY <1>1, <2>2, Zenon DEF Inv, OwnInv
  <2> QED
    BY <2>1, <2>2, Zenon
<1> QED
  BY <1>2, <1>3, <1>4, <1>5, Zenon DEF Inv

(* The same when the step leaves map, trades and reports alone.            *)
LEMMA QuietStep ==
  ASSUME Inv, ~broken, NEW i \in DOMAIN task, NEW r \in Task,
         task' = [task EXCEPT ![i] = r], TaskInv(r), QuoteInv(r),
         UNCHANGED <<map, trade, reports, broken>>,
         task[i].pc \in Holding =>
           \/ r.pc \in Holding /\ r.cycle = task[i].cycle
           \/ task[i].cycle \in Cycles /\ ~trade[task[i].cycle].open,
         \A c \in Cycles, l \in Legs :
           trade[c].by[l] = i /\ EntryInv(task[i], c, l, trade[c].entry[l]) =>
             EntryInv(r, c, l, trade[c].entry[l])
  PROVE  Inv'
<1>1. /\ DOMAIN map' \subseteq Keys /\ (\A k \in DOMAIN map' : map'[k] \in Stored) /\ MapInv'
      /\ (\A x \in reports' : x.cycle \in Cycles /\ x.raced)
      /\ broken' \in BOOLEAN /\ trade' \in [Cycles -> Trade]
  BY Zenon DEF Inv, TaskTypes, MapInv, ReportNeedsRace
<1>2. \A c \in Cycles : trade'[c].open =>
        \/ r.pc \in Holding /\ r.cycle = c
        \/ trade[c].open /\ ~(task[i].pc \in Holding /\ task[i].cycle = c)
  OBVIOUS
<1>3. i # 0
  BY DEF Inv, TaskTypes
<1>4. \A c \in Cycles, l \in Legs :
        \/ trade'[c].by[l] = i /\ EntryInv(r, c, l, trade'[c].entry[l])
        \/ /\ trade'[c].by[l] # i
           /\ trade'[c].by[l] = trade[c].by[l] /\ trade'[c].entry[l] = trade[c].entry[l]
  <2> SUFFICES ASSUME NEW c \in Cycles, NEW l \in Legs, trade[c].by[l] = i
               PROVE  EntryInv(r, c, l, trade[c].entry[l])
    OBVIOUS
  <2>1. EntryInv(task[i], c, l, trade[c].entry[l])
    BY <1>3, Zenon DEF Inv, OwnInv
  <2> QED
    BY <2>1, Zenon
<1> QED
  BY <1>1, <1>2, <1>4, TaskStep, Zenon

-----------------------------------------------------------------------------
(* A task that returns from the evaluation of a cycle.                     *)
LEMMA ReturnedTask ==
  ASSUME ArbitrageAssumption, NEW t \in Task, TaskInv(t)
  PROVE  Returned(t) \in Task /\ TaskInv(Returned(t)) /\ QuoteInv(Returned(t))
<1> DEFINE r == Returned(t)
<1>1. CyclicNoBBO \in Quotes /\ CyclicNoBBO.bid <= CyclicNoBBO.ask
  BY DEF CyclicNoBBO, Quotes, ArbitrageAssumption
<1>2. /\ r.key = t.key /\ r.bbo = t.bbo /\ r.pc = "next" /\ r.todo = t.todo /\ r.cycle = << >>
      /\ r.step = 1 /\ r.quote = [l \in Legs |-> CyclicNoBBO] /\ r.profit = 0 /\ r.odd = FALSE
      /\ r.foreign = FALSE /\ r \in Task
  <2> DEFINE n == NewTask(t.key, t.bbo)
             d == t.todo
  <2>1. t.key \in Keys /\ t.bbo \in BBOs /\ d \in Seq(Cycles)
    BY Zenon DEF Task
  <2>2. << >> \in Seq(Cycles)
    OBVIOUS
  <2>3. /\ n.key = t.key /\ n.bbo = t.bbo /\ n.cycle = << >> /\ n.step = 1
        /\ n.quote = [l \in Legs |-> CyclicNoBBO] /\ n.profit = 0
    BY Zenon DEF NewTask
  <2>4. n.odd = FALSE /\ n.foreign = FALSE
    BY Zenon DEF NewTask
  <2>5. n \in Task
    <3> DEFINE q == [l \in Legs |-> CyclicNoBBO]
    <3>1. q \in [Legs -> Quotes]
      BY <1>1, Zenon
    <3>2. n = [key |-> t.key, bbo |-> t.bbo, pc |-> "queued", todo |-> << >>, cycle |-> << >>,
               step |-> 1, quote |-> q, profit |-> 0, odd |-> FALSE, foreign |-> FALSE]
      BY Zenon DEF NewTask
    <3>3. << >> \in Seq(Cycles) /\ 1 \in Nat /\ 0 \in Int /\ "queued" \in PCs
      BY DEF PCs
    <3> HIDE DEF n, q
    <3> QED
      BY <2>1, <2>2, <3>1, <3>2, <3>3, Zenon DEF Task
  <2>6. r = [n EXCEPT !.pc = "next", !.todo = d]
    BY Zenon DEF Returned
  <2> HIDE DEF n, d, r
  <2>7. r \in Task /\ r.pc = "next" /\ r.todo = d
    BY <2>1, <2>5, <2>6, Zenon DEF Task, PCs
  <2>8. /\ r.key = n.key /\ r.bbo = n.bbo /\ r.cycle = n.cycle /\ r.step = n.step
        /\ r.quote = n.quote /\ r.profit = n.profit /\ r.odd = n.odd /\ r.foreign = n.foreign
    BY <2>5, <2>6, Zenon DEF Task
  <2> QED
    BY <2>3, <2>4, <2>7, <2>8, Zenon DEF d
<1>3. << >> \in Seq([key : Keys, operation : Legs])
  OBVIOUS
<1> HIDE DEF r
<1>4. TaskInv(r)
  BY <1>2, <1>3, Zenon DEF TaskInv, Evaluating, PCs
<1>5. QuoteInv(r)
  BY <1>1, <1>2, Zenon DEF QuoteInv
<1> QED
  BY <1>2, <1>4, <1>5, Zenon DEF r

(* It is then nobody's cycle.                                              *)
LEMMA ReturnedEntry ==
  ASSUME NEW t \in Task, NEW c, NEW l, NEW e, EntryInv(t, c, l, e)
  PROVE  EntryInv(Returned(t), c, l, e)
<1>1. Returned(t).pc = "next" /\ Returned(t).todo = t.todo
  BY Zenon DEF Returned, NewTask
<1> QED
  BY <1>1, Zenon DEF EntryInv, Evaluating

(* A free thread takes a task.                                             *)
LEMMA StepHandleNewBBO ==
  ASSUME ArbitrageAssumption, Inv, NEW i \in DOMAIN task, HandleNewBBO(i)
  PROVE  Inv'
<1> DEFINE t == task[i]
           r == [t EXCEPT !.pc = "write"]
<1>1. t \in Task /\ TaskInv(t) /\ QuoteInv(t) /\ ~broken /\ t.pc = "queued"
  BY DEF Inv, TaskTypes, HandleNewBBO, At
<1>2. task' = [task EXCEPT ![i] = r] /\ UNCHANGED <<map, trade, reports, broken>>
  BY Zenon DEF HandleNewBBO
<1> HIDE DEF t
<1>3. r \in Task /\ TaskInv(r) /\ QuoteInv(r)
  BY <1>1, Zenon DEF Task, PCs, TaskInv, QuoteInv, Evaluating
<1>4. \A c \in Cycles, l \in Legs : ~EntryInv(t, c, l, trade[c].entry[l])
  BY <1>1, Zenon DEF EntryInv
<1>5. t.pc \notin Holding
  BY <1>1, Zenon DEF Holding
<1> HIDE DEF r
<1> QED
  BY <1>1, <1>2, <1>3, <1>4, <1>5, QuietStep, Zenon DEF t

(* The loop over equal_range: a task returns, or evaluates a cycle it has  *)
(* not evaluated before.                                                   *)
LEMMA StepNextCycle ==
  ASSUME ArbitrageAssumption, Inv, NEW i \in DOMAIN task, NextCycle(i)
  PROVE  Inv'
<1> DEFINE t == task[i]
<1>1. t \in Task /\ TaskInv(t) /\ QuoteInv(t) /\ ~broken /\ t.pc = "next"
  BY DEF Inv, TaskTypes, NextCycle, At
<1>2. UNCHANGED <<map, trade, reports, broken>>
  BY Zenon DEF NextCycle
<1>3. t.pc \notin Holding
  BY <1>1, Zenon DEF Holding
<1>4. CASE t.todo = << >> /\ task' = [task EXCEPT ![i] = [t EXCEPT !.pc = "done"]]
  <2> DEFINE r == [t EXCEPT !.pc = "done"]
  <2>1. task' = [task EXCEPT ![i] = r]
    BY <1>4, Zenon
  <2> HIDE DEF t
  <2>2. r \in Task /\ TaskInv(r) /\ QuoteInv(r)
    BY <1>1, Zenon DEF Task, PCs, TaskInv, QuoteInv, Evaluating
  <2>3. \A c \in Cycles, l \in Legs :
          EntryInv(t, c, l, trade[c].entry[l]) => EntryInv(r, c, l, trade[c].entry[l])
    BY <1>1, Zenon DEF EntryInv, Evaluating, Task
  <2> HIDE DEF r
  <2> QED
    BY <1>1, <1>2, <1>3, <2>1, <2>2, <2>3, QuietStep, Zenon DEF t
<1>5. CASE /\ t.todo # << >>
           /\ task' = [task EXCEPT ![i] = [t EXCEPT !.pc = "read", !.cycle = Head(t.todo),
                                                    !.todo = Tail(t.todo)]]
  <2> DEFINE d == t.todo
             r == [t EXCEPT !.pc = "read", !.cycle = Head(d), !.todo = Tail(d)]
  <2>1. task' = [task EXCEPT ![i] = r]
    BY <1>5, Zenon
  <2>2. d \in Seq(Cycles) /\ d # << >> /\ IsInjective(d) /\ \A n \in DOMAIN d : d[n] # << >>
    BY <1>1, <1>5, Zenon DEF Task, TaskInv
  <2> HIDE DEF t
  <2>3. /\ Head(d) \in Cycles /\ Head(d) = d[1] /\ 1 \in DOMAIN d /\ Tail(d) \in Seq(Cycles)
        /\ \A n \in DOMAIN Tail(d) : Tail(d)[n] = d[n + 1] /\ n + 1 \in DOMAIN d /\ n \in Nat \ {0}
    <3> HIDE DEF d
    <3> QED
      BY <2>2
  <2>4. IsInjective(Tail(d)) /\ (\A n \in DOMAIN Tail(d) : Tail(d)[n] # << >> /\ Tail(d)[n] # Head(d))
    <3> HIDE DEF d
    <3> QED
      BY <2>2, <2>3 DEF IsInjective
  <2>5. Head(d) # << >> /\ Head(d) \in Seq([key : Keys, operation : Legs]) /\ 1 \in DOMAIN Head(d)
    <3>1. Head(d) # << >> /\ Head(d) \in Seq([key : Keys, operation : Legs])
      BY <2>2, <2>3, EachCycleOnce, Zenon DEF SoundSetup, Cycles
    <3> HIDE DEF d
    <3> QED
      BY <3>1
  <2>6. /\ r \in Task /\ r.pc = "read" /\ r.cycle = Head(d) /\ r.todo = Tail(d) /\ r.step = 1
        /\ r.quote = t.quote /\ r.odd = t.odd /\ r.step = t.step
    <3>1. t.step = 1
      BY <1>1, Zenon DEF TaskInv
    <3> HIDE DEF d
    <3> QED
      BY <1>1, <2>3, <3>1, Zenon DEF Task, PCs
  <2> HIDE DEF r
  <2>7. TaskInv(r) /\ QuoteInv(r)
    BY <1>1, <2>3, <2>4, <2>5, <2>6 DEF TaskInv, QuoteInv, Evaluating, PCs
  <2>8. \A c \in Cycles, l \in Legs :
          EntryInv(t, c, l, trade[c].entry[l]) => EntryInv(r, c, l, trade[c].entry[l])
    <3> SUFFICES ASSUME NEW c \in Cycles, NEW l \in Legs, NEW e, EntryInv(t, c, l, e)
                 PROVE  EntryInv(r, c, l, e)
      OBVIOUS
    <3>1. \A n \in DOMAIN d : d[n] # c
      BY Zenon DEF EntryInv
    <3> HIDE DEF d
    <3>2. Head(d) # c /\ \A n \in DOMAIN Tail(d) : Tail(d)[n] # c
      BY <2>3, <3>1, Zenon
    <3> QED
      BY <2>6, <3>2, Zenon DEF EntryInv
  <2> QED
    BY <1>1, <1>2, <1>3, <2>1, <2>6, <2>7, <2>8, QuietStep, Zenon DEF t
<1> QED
  BY <1>4, <1>5, Zenon DEF NextCycle

(* A quote that is not Odd has its bid at or below its ask.                *)
LEMMA OddQuotes ==
  ASSUME NEW x, NEW y, x.bid \in Int, y.ask \in Int
  PROVE  Odd(x, y) \in BOOLEAN /\ (~Odd(x, y) => x.bid <= y.ask)
  BY DEF Odd

(* A BBO is in the map: one copied alone is a BBO of the book's.           *)
LEMMA StepAddOrUpdateBBO ==
  ASSUME ArbitrageAssumption, Inv, NEW i \in DOMAIN task, AddOrUpdateBBO(i)
  PROVE  Inv'
<1> DEFINE t == task[i]
           k == t.key
           d == Setup.dictionary[k]
           r == [t EXCEPT !.pc = "next", !.todo = d]
<1>1. t \in Task /\ TaskInv(t) /\ QuoteInv(t) /\ ~broken /\ t.pc = "write"
  BY DEF Inv, TaskTypes, AddOrUpdateBBO, At
<1>2. task' = [task EXCEPT ![i] = r] /\ UNCHANGED <<trade, reports>> /\ broken' \in BOOLEAN
  BY Zenon DEF AddOrUpdateBBO
<1>3. {task[j].bbo : j \in Writers(i, k) \cup {i}} \subseteq BBOs
  BY TaskFacts, Zenon DEF Writers, CyclicRunning
<1>4. PICK x \in BBOs, y \in BBOs :
        map' = [l \in DOMAIN map \cup {k} |->
                  IF l = k THEN [bid |-> x.bid, ask |-> y.ask, odd |-> Odd(x, y)] ELSE map[l]]
  <2>1. \E x, y \in IF k \notin DOMAIN map THEN {t.bbo}
                    ELSE {task[j].bbo : j \in Writers(i, k) \cup {i}} :
          map' = [l \in DOMAIN map \cup {k} |->
                    IF l = k THEN [bid |-> x.bid, ask |-> y.ask, odd |-> Odd(x, y)] ELSE map[l]]
    BY Zenon DEF AddOrUpdateBBO
  <2>2. t.bbo \in BBOs
    BY TaskFacts, Zenon
  <2> DEFINE M(x, y) == map' = [l \in DOMAIN map \cup {k} |->
                    IF l = k THEN [bid |-> x.bid, ask |-> y.ask, odd |-> Odd(x, y)] ELSE map[l]]
             B == {task[j].bbo : j \in Writers(i, k) \cup {i}}
  <2> HIDE DEF M, t, k, B
  <2>3. \E x, y \in IF k \notin DOMAIN map THEN {t.bbo} ELSE B : M(x, y)
    BY <2>1, Zenon DEF M, B
  <2>4. B \subseteq BBOs
    BY <1>3, Zenon DEF B
  <2>5. \E x \in BBOs, y \in BBOs : M(x, y)
    BY <2>2, <2>3, <2>4, Zenon
  <2> QED
    BY <2>5, Zenon DEF M
<1>5. k \in Keys /\ d \in Seq(Cycles) /\ IsInjective(d) /\ (\A n \in DOMAIN d : d[n] # << >>)
  <2>1. k \in Keys
    BY <1>1, Zenon DEF Task
  <2> QED
    BY <2>1, EachCycleOnce, Zenon DEF SoundSetup, Cycles, Range
<1> HIDE DEF t, k, d
<1>6. /\ DOMAIN map' = DOMAIN map \cup {k} /\ \A l \in DOMAIN map : l # k => map'[l] = map[l]
      /\ map'[k] = [bid |-> x.bid, ask |-> y.ask, odd |-> Odd(x, y)]
  BY <1>4, Zenon
<1>7. map'[k] \in Stored /\ (~map'[k].odd => map'[k].bid <= map'[k].ask)
  <2>1. x \in [bid : Int, ask : Int] /\ y \in [bid : Int, ask : Int]
    BY Zenon DEF ArbitrageAssumption
  <2>2. x.bid \in Int /\ y.ask \in Int
    BY <2>1, Zenon
  <2>3. map'[k].bid = x.bid /\ map'[k].ask = y.ask /\ map'[k].odd = Odd(x, y)
    BY <1>6
  <2>4. Odd(x, y) \in BOOLEAN /\ (~Odd(x, y) => x.bid <= y.ask)
    BY <2>2, OddQuotes, Zenon
  <2>5. map'[k] \in Stored
    BY <1>6, <2>2, <2>4 DEF Stored
  <2> QED
    BY <2>3, <2>4, <2>5, Zenon
<1>8. DOMAIN map' \subseteq Keys /\ (\A l \in DOMAIN map' : map'[l] \in Stored) /\ MapInv'
  <2>1. /\ DOMAIN map \subseteq Keys
        /\ \A l \in DOMAIN map : map[l] \in Stored /\ (~map[l].odd => map[l].bid <= map[l].ask)
    BY Zenon DEF Inv, TaskTypes, MapInv
  <2>2. ASSUME NEW l \in DOMAIN map'
        PROVE  map'[l] \in Stored /\ (~map'[l].odd => map'[l].bid <= map'[l].ask)
    <3>1. CASE l = k
      BY <1>7, <3>1, Zenon
    <3>2. CASE l # k
      BY <1>6, <2>1, <3>2, Zenon
    <3> QED
      BY <3>1, <3>2, Zenon
  <2> QED
    BY <1>5, <1>6, <2>1, <2>2, Zenon DEF MapInv
<1>9. r \in Task /\ TaskInv(r) /\ QuoteInv(r)
  <2>1. /\ r \in Task /\ r.pc = "next" /\ r.todo = d /\ r.cycle = t.cycle /\ r.step = t.step
        /\ r.quote = t.quote /\ r.odd = t.odd
    BY <1>1, <1>5, Zenon DEF Task, PCs
  <2> HIDE DEF r
  <2> QED
    BY <1>1, <1>5, <2>1, Zenon DEF TaskInv, QuoteInv, Evaluating
<1>10. \A c \in Cycles, l \in Legs : trade[c].by[l] # i
  <2>1. \A c \in Cycles, l \in Legs : ~EntryInv(t, c, l, trade[c].entry[l])
    BY <1>1, Zenon DEF EntryInv
  <2>2. i # 0
    BY DEF Inv, TaskTypes
  <2> QED
    BY <2>1, <2>2, Zenon DEF Inv, OwnInv, t
<1>11. /\ \A z \in reports' : z.cycle \in Cycles /\ z.raced
       /\ trade' \in [Cycles -> Trade]
  BY <1>2, Zenon DEF Inv, TaskTypes, ReportNeedsRace
<1>12. task[i].pc \notin Holding
  BY <1>1, Zenon DEF Holding, t
<1> HIDE DEF r
<1> QED
  BY <1>1, <1>2, <1>8, <1>9, <1>10, <1>11, <1>12, TaskStep, ZenonT(60)

(* A step of the cycle is read, or the cycle is skipped.                   *)
LEMMA StepReadLeg ==
  ASSUME ArbitrageAssumption, Inv, NEW i \in DOMAIN task, ReadLeg(i)
  PROVE  Inv'
<1> DEFINE t == task[i]
           step == t.cycle[t.step]
           atEnd == t.step = Len(t.cycle)
<1>1. t \in Task /\ TaskInv(t) /\ QuoteInv(t) /\ ~broken /\ t.pc = "read"
  BY TaskFacts, Zenon DEF ReadLeg, At
<1>2. UNCHANGED <<map, trade, reports, broken>>
  BY Zenon DEF ReadLeg
<1>3. t.pc \notin Holding
  BY <1>1, Zenon DEF Holding
<1>4. CASE task' = [task EXCEPT ![i] = Returned(t)]
  <2>1. Returned(t) \in Task /\ TaskInv(Returned(t)) /\ QuoteInv(Returned(t))
    BY <1>1, ReturnedTask, Zenon
  <2>2. \A c \in Cycles, l \in Legs :
          EntryInv(t, c, l, trade[c].entry[l]) => EntryInv(Returned(t), c, l, trade[c].entry[l])
    BY <1>1, ReturnedEntry, Zenon
  <2> QED
    BY <1>1, <1>2, <1>3, <1>4, <2>1, <2>2, QuietStep, Zenon
<1>5. ASSUME NEW x, NEW y, step.key \in DOMAIN map,
             x \in {[bid |-> map[step.key].bid, ask |-> map[step.key].ask]}
                     \cup {task[j].bbo : j \in Writers(i, step.key)},
             y \in {[bid |-> map[step.key].bid, ask |-> map[step.key].ask]}
                     \cup {task[j].bbo : j \in Writers(i, step.key)},
             task' = [task EXCEPT ![i] =
                       [t EXCEPT !.quote = [t.quote EXCEPT ![step.operation] =
                                              [bid |-> x.bid, ask |-> y.ask]],
                                 !.odd = @ \/ Odd(x, y) \/ map[step.key].odd,
                                 !.step = IF atEnd THEN 1 ELSE @ + 1,
                                 !.pc = IF atEnd THEN "check" ELSE "read"]]
      PROVE  Inv'
  <2> DEFINE m == map[step.key]
             q == [t.quote EXCEPT ![step.operation] = [bid |-> x.bid, ask |-> y.ask]]
             n == IF atEnd THEN 1 ELSE t.step + 1
             pc == IF atEnd THEN "check" ELSE "read"
             mixed == t.odd \/ Odd(x, y) \/ m.odd
             r == [t EXCEPT !.quote = q, !.odd = mixed, !.step = n, !.pc = pc]
  <2>1. task' = [task EXCEPT ![i] = r]
    BY <1>5, Zenon
  <2>2. m \in Stored
    BY <1>5, Zenon DEF Inv, TaskTypes
  <2>3. \A z \in BBOs : z \in [bid : Int, ask : Int]
    BY Zenon DEF ArbitrageAssumption
  <2>4. \A j \in Writers(i, step.key) : task[j].bbo \in BBOs
    BY TaskFacts, Zenon DEF Writers, CyclicRunning
  <2>5. x.bid \in Int /\ x.ask \in Int /\ y.bid \in Int /\ y.ask \in Int
    <3>1. [bid |-> m.bid, ask |-> m.ask].bid = m.bid /\ [bid |-> m.bid, ask |-> m.ask].ask = m.ask
      OBVIOUS
    <3>2. m.bid \in Int /\ m.ask \in Int
      BY <2>2, Zenon DEF Stored
    <3> DEFINE z == [bid |-> m.bid, ask |-> m.ask]
    <3>3. (x = z \/ x \in BBOs) /\ (y = z \/ y \in BBOs)
      BY <1>5, <2>4, Zenon
    <3> HIDE DEF m
    <3> QED
      BY <2>2, <2>3, <3>1, <3>2, <3>3, Zenon
  <2>6. /\ q \in [Legs -> Quotes]
        /\ ~mixed => \A l \in Legs : q[l].bid <= q[l].ask
    <3>1. t.quote \in [Legs -> Quotes] /\ (~t.odd => \A l \in Legs : t.quote[l].bid <= t.quote[l].ask)
      BY <1>1, Zenon DEF Task, QuoteInv
    <3> DEFINE z == [bid |-> x.bid, ask |-> y.ask]
    <3>2. z \in Quotes /\ z.bid = x.bid /\ z.ask = y.ask
      BY <2>5, Zenon DEF Quotes
    <3> DEFINE o == step.operation
    <3>3. \A l \in Legs : q[l] = IF l = o THEN z ELSE t.quote[l]
      BY <3>1, Zenon
    <3>4. q \in [Legs -> Quotes]
      <4> DEFINE u == t.quote
      <4>1. q = [u EXCEPT ![o] = z] /\ u \in [Legs -> Quotes]
        BY <3>1
      <4> HIDE DEF z, o, q, u
      <4> QED
        BY <3>2, <4>1, Zenon
    <3>5. ~mixed => x.bid <= y.ask /\ ~t.odd
      BY <2>5, OddQuotes, Zenon
    <3> HIDE DEF q, z, mixed, o, m, t
    <3>6. ASSUME ~mixed, NEW l \in Legs PROVE q[l].bid <= q[l].ask
      <4>1. CASE l = o
        BY <3>2, <3>3, <3>5, <3>6, <4>1, Zenon
      <4>2. CASE l # o
        BY <3>1, <3>3, <3>5, <3>6, <4>2, Zenon
      <4> QED
        BY <4>1, <4>2, Zenon
    <3> QED
      BY <3>4, <3>6, Zenon
  <2>7. n \in Nat /\ (pc = "read" => n \in DOMAIN t.cycle) /\ (pc # "read" => n = 1)
    <3>1. t.step \in DOMAIN t.cycle /\ t.cycle \in Seq([key : Keys, operation : Legs])
      BY <1>1, Zenon DEF TaskInv
    <3> DEFINE c == t.cycle
               st == t.step
    <3> HIDE DEF c, st
    <3>2. st \in 1 .. Len(c) /\ Len(c) \in Nat /\ DOMAIN c = 1 .. Len(c)
      BY <3>1 DEF c, st
    <3>3. st # Len(c) => st + 1 \in DOMAIN c
      <4> DEFINE z == Len(c)
      <4> HIDE DEF z
      <4>1. st \in 1 .. z /\ z \in Nat /\ DOMAIN c = 1 .. z
        BY <3>2, Zenon DEF z
      <4>2. st # z => st + 1 \in DOMAIN c
        BY <4>1
      <4> QED
        BY <4>2, Zenon DEF z
    <3> QED
      BY <3>2, <3>3 DEF c, st
  <2>8. mixed \in BOOLEAN
    BY Zenon
  <2>9. pc \in {"read", "check"}
    OBVIOUS
  <2> HIDE DEF q, n, pc, mixed, m, t
  <2>10. /\ r \in Task /\ r.pc = pc /\ r.todo = t.todo /\ r.cycle = t.cycle /\ r.step = n
         /\ r.quote = q
    BY <1>1, <2>6, <2>7, <2>8, <2>9, Zenon DEF Task, PCs
  <2>11. r.odd = mixed
    BY <1>1, Zenon DEF Task
  <2> HIDE DEF r
  <2>12. TaskInv(r)
    BY <1>1, <2>7, <2>9, <2>10, Zenon DEF TaskInv, Evaluating, PCs
  <2>13. QuoteInv(r)
    BY <2>6, <2>9, <2>10, <2>11, Zenon DEF QuoteInv
  <2>14. \A c \in Cycles, l \in Legs :
          EntryInv(t, c, l, trade[c].entry[l]) => EntryInv(r, c, l, trade[c].entry[l])
    BY <1>1, <2>9, <2>10, Zenon DEF EntryInv, Evaluating, PCs
  <2> QED
    BY <1>1, <1>2, <1>3, <2>1, <2>10, <2>12, <2>13, <2>14, QuietStep, ZenonT(60) DEF t
<1>6. CASE step.key \notin DOMAIN map
  BY <1>4, <1>6, Zenon DEF ReadLeg
<1>7. CASE step.key \in DOMAIN map
  <2> DEFINE S == {[bid |-> map[step.key].bid, ask |-> map[step.key].ask]}
                     \cup {task[j].bbo : j \in Writers(i, step.key)}
             Q(x, y) == [t.quote EXCEPT ![step.operation] = [bid |-> x.bid, ask |-> y.ask]]
             R(x, y) == [t EXCEPT !.quote = Q(x, y), !.odd = @ \/ Odd(x, y) \/ map[step.key].odd,
                                  !.step = IF atEnd THEN 1 ELSE @ + 1,
                                  !.pc = IF atEnd THEN "check" ELSE "read"]
  <2>1. PICK x, y \in S :
          task' = [task EXCEPT ![i] = IF atEnd /\ ~Valid(Q(x, y)) THEN Returned(t) ELSE R(x, y)]
    BY <1>7, ZenonT(60) DEF ReadLeg
  <2>2. CASE atEnd /\ ~Valid(Q(x, y))
    BY <1>4, <2>1, <2>2, Zenon
  <2>3. CASE ~(atEnd /\ ~Valid(Q(x, y)))
    <3>1. task' = [task EXCEPT ![i] = R(x, y)]
      BY <2>1, <2>3, Zenon
    <3> QED
      BY <1>5, <1>7, <2>1, <3>1, Zenon
  <2> QED
    BY <2>2, <2>3, Zenon
<1> QED
  BY <1>6, <1>7, Zenon

(* if (!trade_state.IsOpened()).                                           *)
LEMMA StepCheckOpen ==
  ASSUME ArbitrageAssumption, Inv, NEW i \in DOMAIN task, CheckOpen(i)
  PROVE  Inv'
<1> DEFINE t == task[i]
<1>1. t \in Task /\ TaskInv(t) /\ QuoteInv(t) /\ ~broken /\ t.pc = "check"
  BY TaskFacts, Zenon DEF CheckOpen, At
<1>2. UNCHANGED <<map, trade, reports, broken>>
  BY Zenon DEF CheckOpen
<1>3. \E pc \in {"open", "opened"} : task' = [task EXCEPT ![i] = [t EXCEPT !.pc = pc]]
  BY Zenon DEF CheckOpen
<1>4. PICK pc \in {"open", "opened"} : task' = [task EXCEPT ![i] = [t EXCEPT !.pc = pc]]
  BY <1>3, Zenon
<1> DEFINE r == [t EXCEPT !.pc = pc]
<1>5. task' = [task EXCEPT ![i] = r] /\ t.pc \notin Holding
  BY <1>1, <1>4, Zenon DEF Holding
<1> HIDE DEF t
<1>6. r \in Task /\ TaskInv(r) /\ QuoteInv(r)
  BY <1>1, Zenon DEF Task, PCs, TaskInv, QuoteInv, Evaluating
<1>7. \A c \in Cycles, l \in Legs :
        EntryInv(t, c, l, trade[c].entry[l]) => EntryInv(r, c, l, trade[c].entry[l])
  BY <1>1, Zenon DEF EntryInv, Evaluating, Task, PCs
<1> HIDE DEF r
<1> QED
  BY <1>1, <1>2, <1>5, <1>6, <1>7, QuietStep, Zenon DEF t

(* is_open = true.                                                         *)
LEMMA StepOpen ==
  ASSUME ArbitrageAssumption, Inv, NEW i \in DOMAIN task, Open(i)
  PROVE  Inv'
<1> DEFINE t == task[i]
           r == [t EXCEPT !.pc = "buy"]
           c0 == t.cycle
<1>1. t \in Task /\ TaskInv(t) /\ QuoteInv(t) /\ ~broken /\ t.pc = "open"
  BY TaskFacts, Zenon DEF Open, At
<1>2. /\ task' = [task EXCEPT ![i] = r] /\ UNCHANGED <<map, reports, broken>>
      /\ trade' = [trade EXCEPT ![c0].open = TRUE]
  BY Zenon DEF Open
<1>3. c0 \in Cycles
  BY <1>1, Zenon DEF TaskInv, Evaluating, PCs
<1> HIDE DEF t
<1>4. r \in Task /\ TaskInv(r) /\ QuoteInv(r) /\ r.pc = "buy" /\ r.cycle = c0
  BY <1>1, Zenon DEF Task, PCs, TaskInv, QuoteInv, Evaluating
<1> HIDE DEF r, c0
<1>5. trade \in [Cycles -> Trade]
  BY Zenon DEF Inv, TaskTypes
<1>6. /\ trade' \in [Cycles -> Trade]
      /\ \A c \in Cycles : /\ trade'[c].by = trade[c].by /\ trade'[c].entry = trade[c].entry
                           /\ c # c0 => trade'[c] = trade[c]
  BY <1>2, <1>3, <1>5, Zenon DEF Trade
<1>7. \A c \in Cycles, l \in Legs : trade[c].by[l] = i =>
        EntryInv(t, c, l, trade[c].entry[l])
  <2>1. i # 0
    BY DEF Inv, TaskTypes
  <2> QED
    BY <2>1, Zenon DEF Inv, OwnInv, t
<1>8. \A c \in Cycles, l \in Legs :
        EntryInv(t, c, l, trade[c].entry[l]) => EntryInv(r, c, l, trade[c].entry[l])
  BY <1>1, Zenon DEF EntryInv, Evaluating, Task, PCs, r
<1>9. \A c \in Cycles, l \in Legs :
        \/ trade'[c].by[l] = i /\ EntryInv(r, c, l, trade'[c].entry[l])
        \/ /\ trade'[c].by[l] # i
           /\ trade'[c].by[l] = trade[c].by[l] /\ trade'[c].entry[l] = trade[c].entry[l]
  BY <1>6, <1>7, <1>8, Zenon
<1>10. \A c \in Cycles : trade'[c].open =>
        \/ r.pc \in Holding /\ r.cycle = c
        \/ trade[c].open /\ ~(task[i].pc \in Holding /\ task[i].cycle = c)
  BY <1>1, <1>4, <1>6, Zenon DEF Holding, t
<1>11. /\ DOMAIN map' \subseteq Keys /\ (\A k \in DOMAIN map' : map'[k] \in Stored) /\ MapInv'
       /\ (\A x \in reports' : x.cycle \in Cycles /\ x.raced) /\ broken' \in BOOLEAN
  BY <1>2, Zenon DEF Inv, TaskTypes, MapInv, ReportNeedsRace
<1> QED
  BY <1>1, <1>2, <1>4, <1>6, <1>9, <1>10, <1>11, TaskStep, Zenon

(* An entry is written, and its writer noted.                              *)
LEMMA StepEnter ==
  ASSUME ArbitrageAssumption, Inv, NEW i \in DOMAIN task, NEW o \in Legs, Enter(i, o)
  PROVE  Inv'
<1> DEFINE t == task[i]
           pc == IF o = "kBuy" THEN "sell" ELSE "opened"
           r == [t EXCEPT !.pc = pc]
           c0 == t.cycle
           price == EntryPrice(t.quote, o)
<1>1. t \in Task /\ TaskInv(t) /\ QuoteInv(t) /\ ~broken
  BY TaskFacts, Zenon DEF Enter, At
<1>2. (t.pc = "buy" /\ pc = "sell") \/ (t.pc = "sell" /\ pc = "opened")
  <2>1. CASE o = "kBuy"
    BY <2>1, Zenon DEF Enter, At
  <2>2. CASE o = "kSell"
    BY <2>2, Zenon DEF Enter, At
  <2> QED
    BY <2>1, <2>2, Zenon DEF Legs
<1>3. /\ task' = [task EXCEPT ![i] = r] /\ UNCHANGED <<map, reports, broken>>
      /\ trade' = [trade EXCEPT ![c0].entry[o] = price, ![c0].by[o] = i]
  BY Zenon DEF Enter
<1>4. c0 \in Cycles
  BY <1>1, <1>2, Zenon DEF TaskInv, Evaluating, PCs
<1>5. i \in Nat /\ i # 0
  BY DEF Inv, TaskTypes
<1>6. price \in Int
  <2>1. t.quote \in [Legs -> Quotes]
    BY <1>1, Zenon DEF Task
  <2>2. t.quote[o] \in Quotes
    BY <2>1, Zenon
  <2> QED
    BY <2>2, Zenon DEF EntryPrice, Quotes
<1> HIDE DEF t, pc
<1>7. /\ r \in Task /\ r.pc = pc /\ r.cycle = c0 /\ r.todo = t.todo /\ r.quote = t.quote
      /\ TaskInv(r) /\ QuoteInv(r)
  BY <1>1, <1>2, Zenon DEF Task, PCs, TaskInv, QuoteInv, Evaluating
<1> HIDE DEF r, c0
<1>8. trade \in [Cycles -> Trade]
  BY Zenon DEF Inv, TaskTypes
<1> DEFINE T == trade[c0]
           en == T.entry
           b == T.by
<1>9. T \in Trade /\ en \in [Legs -> Int] /\ b \in [Legs -> Nat] /\ T.open \in BOOLEAN
  BY <1>4, <1>8, Zenon DEF Trade
<1>10. /\ trade'[c0] = [T EXCEPT !.entry[o] = price, !.by[o] = i]
       /\ \A c \in Cycles : c # c0 => trade'[c] = trade[c]
       /\ trade' = [trade EXCEPT ![c0] = [T EXCEPT !.entry[o] = price, !.by[o] = i]]
  BY <1>3, <1>4, <1>8, Zenon
<1>11. /\ trade'[c0].open = T.open
       /\ trade'[c0].entry = [en EXCEPT ![o] = price] /\ trade'[c0].by = [b EXCEPT ![o] = i]
       /\ trade'[c0] \in Trade
  <2> HIDE DEF T, price
  <2>1. /\ T.open \in BOOLEAN /\ T.entry \in [Legs -> Int] /\ T.by \in [Legs -> Nat]
    BY <1>9, Zenon
  <2>2. [T.entry EXCEPT ![o] = price] \in [Legs -> Int] /\ [T.by EXCEPT ![o] = i] \in [Legs -> Nat]
    BY <1>5, <1>6, <2>1, Zenon
  <2> DEFINE e1 == [T.entry EXCEPT ![o] = price]
             b1 == [T.by EXCEPT ![o] = i]
  <2>3. trade'[c0] = [T EXCEPT !.entry = e1, !.by = b1]
    BY <1>9, <1>10, Zenon DEF Trade
  <2> HIDE DEF e1, b1
  <2>4. trade'[c0].open = T.open /\ trade'[c0].entry = e1 /\ trade'[c0].by = b1 /\ trade'[c0] \in Trade
    <3>1. e1 \in [Legs -> Int] /\ b1 \in [Legs -> Nat]
      BY <2>2, Zenon DEF e1, b1
    <3> QED
      BY <1>9, <2>3, <3>1, Zenon DEF Trade
  <2> QED
    BY <2>4, Zenon DEF e1, b1
<1> HIDE DEF T, en, b, price
<1>12. /\ trade'[c0].entry[o] = price /\ trade'[c0].by[o] = i
       /\ \A l \in Legs : l # o => trade'[c0].entry[l] = trade[c0].entry[l] /\ trade'[c0].by[l] = trade[c0].by[l]
  BY <1>9, <1>11, Zenon DEF en, b, T
<1>13. trade' \in [Cycles -> Trade]
  BY <1>4, <1>8, <1>10, <1>11, Zenon
<1>14. \A c \in Cycles, l \in Legs : trade[c].by[l] = i =>
        EntryInv(t, c, l, trade[c].entry[l])
  BY <1>5, Zenon DEF Inv, OwnInv, t
<1>15. \A c \in Cycles, l \in Legs :
        EntryInv(t, c, l, trade[c].entry[l]) => EntryInv(r, c, l, trade[c].entry[l])
  BY <1>2, <1>7, Zenon DEF EntryInv, Evaluating, PCs, c0
<1>16. EntryInv(r, c0, o, price)
  <2>1. \A n \in DOMAIN t.todo : t.todo[n] # c0
    BY <1>1, <1>2, Zenon DEF TaskInv, Evaluating, PCs, c0
  <2> QED
    BY <1>2, <1>7, <2>1, Zenon DEF EntryInv, price
<1>17. \A c \in Cycles, l \in Legs :
        \/ trade'[c].by[l] = i /\ EntryInv(r, c, l, trade'[c].entry[l])
        \/ /\ trade'[c].by[l] # i
           /\ trade'[c].by[l] = trade[c].by[l] /\ trade'[c].entry[l] = trade[c].entry[l]
  BY <1>10, <1>12, <1>14, <1>15, <1>16
<1>18. \A c \in Cycles : trade'[c].open =>
        \/ r.pc \in Holding /\ r.cycle = c
        \/ trade[c].open /\ ~(task[i].pc \in Holding /\ task[i].cycle = c)
  BY <1>2, <1>7, <1>10, <1>11, Zenon DEF Holding, t, c0
<1>19. /\ DOMAIN map' \subseteq Keys /\ (\A k \in DOMAIN map' : map'[k] \in Stored) /\ MapInv'
       /\ (\A x \in reports' : x.cycle \in Cycles /\ x.raced) /\ broken' \in BOOLEAN
  BY <1>3, Zenon DEF Inv, TaskTypes, MapInv, ReportNeedsRace
<1> QED
  BY <1>1, <1>3, <1>7, <1>13, <1>17, <1>18, <1>19, TaskStep, Zenon

(* if (trade_state.IsOpened()).                                            *)
LEMMA StepCheckOpened ==
  ASSUME ArbitrageAssumption, Inv, NEW i \in DOMAIN task, CheckOpened(i)
  PROVE  Inv'
<1> DEFINE t == task[i]
           c0 == t.cycle
<1>1. t \in Task /\ TaskInv(t) /\ QuoteInv(t) /\ ~broken /\ t.pc = "opened"
  BY TaskFacts, Zenon DEF CheckOpened, At
<1>2. UNCHANGED <<map, trade, reports, broken>>
  BY Zenon DEF CheckOpened
<1>3. c0 \in Cycles
  BY <1>1, Zenon DEF TaskInv, Evaluating, PCs
<1>4. CASE trade[c0].open
  <2> DEFINE r == [t EXCEPT !.pc = "entries"]
  <2>1. task' = [task EXCEPT ![i] = r]
    BY <1>4, Zenon DEF CheckOpened
  <2> HIDE DEF t
  <2>2. r \in Task /\ TaskInv(r) /\ QuoteInv(r) /\ r.pc \in Holding /\ r.cycle = c0
    BY <1>1, Zenon DEF Task, PCs, TaskInv, QuoteInv, Evaluating, Holding
  <2>3. \A c \in Cycles, l \in Legs :
          EntryInv(t, c, l, trade[c].entry[l]) => EntryInv(r, c, l, trade[c].entry[l])
    BY <1>1, Zenon DEF EntryInv, Evaluating, Task, PCs
  <2> HIDE DEF r
  <2> QED
    BY <1>1, <1>2, <2>1, <2>2, <2>3, QuietStep, Zenon DEF t
<1>5. CASE ~trade[c0].open
  <2>1. task' = [task EXCEPT ![i] = Returned(t)]
    BY <1>5, Zenon DEF CheckOpened
  <2>2. Returned(t) \in Task /\ TaskInv(Returned(t)) /\ QuoteInv(Returned(t))
    BY <1>1, ReturnedTask, Zenon
  <2>3. \A c \in Cycles, l \in Legs :
          EntryInv(t, c, l, trade[c].entry[l]) => EntryInv(Returned(t), c, l, trade[c].entry[l])
    BY <1>1, ReturnedEntry, Zenon
  <2> QED
    BY <1>1, <1>2, <1>3, <1>5, <2>1, <2>2, <2>3, QuietStep, Zenon
<1> QED
  BY <1>4, <1>5, Zenon

(* The buying leg loses the spread when the entry is the task's own.       *)
LEMMA StepReadBuyEntry ==
  ASSUME ArbitrageAssumption, Inv, NEW i \in DOMAIN task, ReadBuyEntry(i)
  PROVE  Inv'
<1> DEFINE t == task[i]
           c0 == t.cycle
           T == trade[c0]
           a == t.quote["kBuy"]
           profit == a.bid - T.entry["kBuy"]
           foreign == T.by["kBuy"] # i
           r == [t EXCEPT !.profit = profit, !.foreign = foreign, !.pc = "sellEntry"]
<1>0. i # 0
  BY DEF Inv, TaskTypes
<1>1. t \in Task /\ TaskInv(t) /\ QuoteInv(t) /\ ~broken /\ t.pc = "entries"
  BY TaskFacts, Zenon DEF ReadBuyEntry, At
<1>2. task' = [task EXCEPT ![i] = r] /\ UNCHANGED <<map, trade, reports, broken>>
  BY Zenon DEF ReadBuyEntry
<1>3. c0 \in Cycles
  BY <1>1, Zenon DEF TaskInv, Evaluating, PCs
<1>4. T.entry \in [Legs -> Int]
  BY <1>3, Zenon DEF Inv, TaskTypes, Trade
<1>5. t.quote \in [Legs -> Quotes]
  BY <1>1, Zenon DEF Task
<1>6. a.bid \in Int /\ T.entry["kBuy"] \in Int
  <2>1. a \in Quotes
    BY <1>5, Zenon DEF Legs
  <2> QED
    BY <1>4, <2>1, Zenon DEF Quotes, Legs
<1>7. profit \in Int
  BY <1>6
<1>8. profit = a.bid - a.ask \/ foreign
  <2> SUFFICES ASSUME T.by["kBuy"] = i PROVE T.entry["kBuy"] = a.ask
    BY Zenon
  <2>1. EntryInv(t, c0, "kBuy", T.entry["kBuy"])
    BY <1>0, <1>3, Zenon DEF Inv, OwnInv, Legs
  <2>2. T.entry["kBuy"] = EntryPrice(t.quote, "kBuy")
    BY <1>1, <2>1, Zenon DEF EntryInv, Evaluating, PCs
  <2> QED
    BY <2>2, Zenon DEF EntryPrice
<1>9. foreign \in BOOLEAN
  BY Zenon
<1> HIDE DEF t, profit, foreign, T
<1>10. /\ r \in Task /\ r.pc = "sellEntry" /\ r.profit = profit /\ r.cycle = c0 /\ r.todo = t.todo
       /\ r.quote = t.quote /\ r.step = t.step
  BY <1>1, <1>7, <1>9, Zenon DEF Task, PCs
<1>11. r.odd = t.odd /\ r.foreign = foreign
  BY <1>1, Zenon DEF Task
<1> HIDE DEF r
<1>12. TaskInv(r)
  BY <1>1, <1>10, Zenon DEF TaskInv, Evaluating, PCs
<1>13. QuoteInv(r)
  BY <1>1, <1>8, <1>10, <1>11, Zenon DEF QuoteInv
<1>14. \A c \in Cycles, l \in Legs :
        EntryInv(t, c, l, trade[c].entry[l]) => EntryInv(r, c, l, trade[c].entry[l])
  BY <1>1, <1>10, Zenon DEF EntryInv, Evaluating, PCs
<1>15. r.pc \in Holding
  BY <1>10, Zenon DEF Holding
<1> QED
  BY <1>1, <1>2, <1>10, <1>12, <1>13, <1>14, <1>15, QuietStep, Zenon DEF t, c0

(* The profit of an evaluation that opened with its own quotes is none.    *)
LEMMA StepReadSellEntry ==
  ASSUME ArbitrageAssumption, Inv, NEW i \in DOMAIN task, ReadSellEntry(i)
  PROVE  Inv'
<1> DEFINE t == task[i]
           c0 == t.cycle
           T == trade[c0]
           a == t.quote["kBuy"]
           b == t.quote["kSell"]
           profit == t.profit + SellProfit(t.quote, T.entry["kSell"])
           foreign == t.foreign \/ T.by["kSell"] # i
           r == [t EXCEPT !.profit = profit, !.foreign = foreign, !.pc = "close"]
<1>0. i # 0
  BY DEF Inv, TaskTypes
<1>1. t \in Task /\ TaskInv(t) /\ QuoteInv(t) /\ ~broken /\ t.pc = "sellEntry"
  BY TaskFacts, Zenon DEF ReadSellEntry, At
<1>2. task' = [task EXCEPT ![i] = r] /\ UNCHANGED <<map, trade, reports, broken>>
  BY Zenon DEF ReadSellEntry
<1>3. c0 \in Cycles
  BY <1>1, Zenon DEF TaskInv, Evaluating, PCs
<1>4. T.entry \in [Legs -> Int]
  BY <1>3, Zenon DEF Inv, TaskTypes, Trade
<1>5. t.quote \in [Legs -> Quotes] /\ t.profit \in Int /\ t.foreign \in BOOLEAN
  BY <1>1, Zenon DEF Task
<1>6. /\ a.bid \in Int /\ a.ask \in Int /\ b.bid \in Int /\ b.ask \in Int
      /\ T.entry["kSell"] \in Int
  <2>1. a \in Quotes /\ b \in Quotes
    BY <1>5, Zenon DEF Legs
  <2> QED
    BY <1>4, <2>1, Zenon DEF Quotes, Legs
<1>7. profit = t.profit + (T.entry["kSell"] - b.ask)
  BY Zenon DEF SellProfit
<1>8. profit \in Int
  BY <1>5, <1>6, <1>7
<1>9. profit <= 0 \/ t.odd \/ foreign
  <2> SUFFICES ASSUME ~t.odd, ~t.foreign, T.by["kSell"] = i
               PROVE  profit <= 0
    BY Zenon
  <2>1. a.bid <= a.ask /\ b.bid <= b.ask /\ t.profit = a.bid - a.ask
    BY <1>1, Zenon DEF QuoteInv, Legs
  <2>2. EntryInv(t, c0, "kSell", T.entry["kSell"])
    BY <1>0, <1>3, Zenon DEF Inv, OwnInv, Legs
  <2>3. T.entry["kSell"] = EntryPrice(t.quote, "kSell")
    BY <1>1, <2>2, Zenon DEF EntryInv, Evaluating, PCs
  <2>4. T.entry["kSell"] = b.bid
    BY <2>3, Zenon DEF EntryPrice
  <2> HIDE DEF a, b, T, profit, t
  <2> QED
    BY <1>6, <1>7, <2>1, <2>4
<1>10. foreign \in BOOLEAN
  BY <1>5, Zenon
<1> HIDE DEF t, profit, foreign, T
<1>11. /\ r \in Task /\ r.pc = "close" /\ r.profit = profit /\ r.cycle = c0 /\ r.todo = t.todo
       /\ r.quote = t.quote /\ r.step = t.step
  BY <1>1, <1>8, <1>10, Zenon DEF Task, PCs
<1>12. r.odd = t.odd /\ r.foreign = foreign
  BY <1>1, Zenon DEF Task
<1> HIDE DEF r
<1>13. TaskInv(r)
  BY <1>1, <1>11, Zenon DEF TaskInv, Evaluating, PCs
<1>14. QuoteInv(r)
  BY <1>1, <1>9, <1>11, <1>12, Zenon DEF QuoteInv
<1>15. \A c \in Cycles, l \in Legs :
        EntryInv(t, c, l, trade[c].entry[l]) => EntryInv(r, c, l, trade[c].entry[l])
  BY <1>1, <1>11, Zenon DEF EntryInv, Evaluating, PCs
<1>16. r.pc \in Holding
  BY <1>11, Zenon DEF Holding
<1> QED
  BY <1>1, <1>2, <1>11, <1>13, <1>14, <1>15, <1>16, QuietStep, Zenon DEF t, c0

(* is_open = false.                                                        *)
LEMMA StepClose ==
  ASSUME ArbitrageAssumption, Inv, NEW i \in DOMAIN task, Close(i)
  PROVE  Inv'
<1> DEFINE t == task[i]
           c0 == t.cycle
<1>1. t \in Task /\ TaskInv(t) /\ QuoteInv(t) /\ ~broken /\ t.pc = "close"
  BY TaskFacts, Zenon DEF Close, At
<1>2. UNCHANGED <<map, reports, broken>> /\ trade' = [trade EXCEPT ![c0].open = FALSE]
  BY Zenon DEF Close
<1>3. c0 \in Cycles
  BY <1>1, Zenon DEF TaskInv, Evaluating, PCs
<1>4. PICK r : /\ r = IF t.profit <= 0 THEN Returned(t) ELSE [t EXCEPT !.pc = "report"]
               /\ task' = [task EXCEPT ![i] = r]
  BY Zenon DEF Close
<1>5. /\ r \in Task /\ TaskInv(r) /\ QuoteInv(r)
      /\ \A c \in Cycles, l \in Legs :
           EntryInv(t, c, l, trade[c].entry[l]) => EntryInv(r, c, l, trade[c].entry[l])
  <2>1. CASE r = Returned(t)
    BY <1>1, <2>1, ReturnedTask, ReturnedEntry, Zenon
  <2>2. CASE ~(t.profit <= 0) /\ r = [t EXCEPT !.pc = "report"]
    <3> HIDE DEF t
    <3> QED
      BY <1>1, <2>2, Zenon DEF Task, PCs, TaskInv, QuoteInv, Evaluating, EntryInv
  <2> QED
    BY <1>4, <2>1, <2>2, Zenon
<1> HIDE DEF t, c0
<1>6. trade \in [Cycles -> Trade]
  BY DEF Inv, TaskTypes
<1>7. /\ trade' \in [Cycles -> Trade] /\ trade'[c0].open = FALSE
      /\ \A c \in Cycles : /\ trade'[c].by = trade[c].by /\ trade'[c].entry = trade[c].entry
                           /\ c # c0 => trade'[c] = trade[c]
  BY <1>2, <1>3, <1>6, Zenon DEF Trade
<1>8. \A c \in Cycles, l \in Legs : trade[c].by[l] = i =>
        EntryInv(t, c, l, trade[c].entry[l])
  <2>1. i # 0
    BY DEF Inv, TaskTypes
  <2> QED
    BY <2>1 DEF Inv, OwnInv, t
<1>9. \A c \in Cycles, l \in Legs :
        \/ trade'[c].by[l] = i /\ EntryInv(r, c, l, trade'[c].entry[l])
        \/ /\ trade'[c].by[l] # i
           /\ trade'[c].by[l] = trade[c].by[l] /\ trade'[c].entry[l] = trade[c].entry[l]
  BY <1>5, <1>7, <1>8, Zenon
<1>10. \A c \in Cycles : trade'[c].open =>
        \/ r.pc \in Holding /\ r.cycle = c
        \/ trade[c].open /\ ~(task[i].pc \in Holding /\ task[i].cycle = c)
  BY <1>7, Zenon DEF t, c0
<1>11. /\ DOMAIN map' \subseteq Keys /\ (\A k \in DOMAIN map' : map'[k] \in Stored) /\ MapInv'
       /\ (\A x \in reports' : x.cycle \in Cycles /\ x.raced) /\ broken' \in BOOLEAN
  BY <1>2, Zenon DEF Inv, TaskTypes, MapInv, ReportNeedsRace
<1>12. task' = [task EXCEPT ![i] = r]
  BY <1>4, Zenon
<1> QED
  BY <1>1, <1>5, <1>7, <1>9, <1>10, <1>11, <1>12, TaskStep, Zenon

(* The report: what made a profit was raced.                               *)
LEMMA StepReport ==
  ASSUME ArbitrageAssumption, Inv, NEW i \in DOMAIN task, SendArbitrageReportToBus(i)
  PROVE  Inv'
<1> DEFINE t == task[i]
           r == Returned(t)
<1>1. t \in Task /\ TaskInv(t) /\ QuoteInv(t) /\ ~broken /\ t.pc = "report"
  BY TaskFacts, Zenon DEF SendArbitrageReportToBus, At
<1>2. task' = [task EXCEPT ![i] = r] /\ UNCHANGED <<map, trade, broken>>
  BY Zenon DEF SendArbitrageReportToBus
<1>3. t.cycle \in Cycles /\ (t.odd \/ t.foreign)
  BY <1>1, Zenon DEF TaskInv, QuoteInv, Evaluating, PCs
<1>4. \A x \in reports' : x.cycle \in Cycles /\ x.raced
  <2> DEFINE z == [cycle |-> t.cycle, task |-> i, raced |-> t.odd \/ t.foreign]
  <2>1. z.cycle \in Cycles /\ z.raced
    BY <1>3, Zenon
  <2>2. reports' \subseteq reports \cup {z}
    BY Zenon DEF SendArbitrageReportToBus
  <2> HIDE DEF z
  <2> QED
    BY <2>1, <2>2, Zenon DEF Inv, TaskTypes, ReportNeedsRace
<1>5. r \in Task /\ TaskInv(r) /\ QuoteInv(r)
  BY <1>1, ReturnedTask, Zenon
<1>6. \A c \in Cycles, l \in Legs :
        EntryInv(t, c, l, trade[c].entry[l]) => EntryInv(r, c, l, trade[c].entry[l])
  BY <1>1, ReturnedEntry, Zenon
<1>7. \A c \in Cycles, l \in Legs : trade[c].by[l] = i =>
        EntryInv(t, c, l, trade[c].entry[l])
  <2>1. i # 0
    BY DEF Inv, TaskTypes
  <2> QED
    BY <2>1 DEF Inv, OwnInv
<1>8. /\ DOMAIN map' \subseteq Keys /\ (\A k \in DOMAIN map' : map'[k] \in Stored) /\ MapInv'
      /\ broken' \in BOOLEAN /\ trade' \in [Cycles -> Trade] /\ trade' = trade
  BY <1>2, Zenon DEF Inv, TaskTypes, MapInv
<1>9. t.pc \notin Holding
  BY <1>1, Zenon DEF Holding
<1> HIDE DEF r
<1>10. \A c \in Cycles, l \in Legs :
        \/ trade'[c].by[l] = i /\ EntryInv(r, c, l, trade'[c].entry[l])
        \/ /\ trade'[c].by[l] # i
           /\ trade'[c].by[l] = trade[c].by[l] /\ trade'[c].entry[l] = trade[c].entry[l]
  BY <1>6, <1>7, <1>8, Zenon
<1>11. \A c \in Cycles : trade'[c].open =>
        \/ r.pc \in Holding /\ r.cycle = c
        \/ trade[c].open /\ ~(task[i].pc \in Holding /\ task[i].cycle = c)
  BY <1>8, <1>9, Zenon
<1> QED
  BY <1>1, <1>2, <1>4, <1>5, <1>8, <1>10, <1>11, TaskStep, Zenon

(* A BBO arrives: the new task shares nothing yet.                         *)
LEMMA StepAsyncHandleEvent ==
  ASSUME ArbitrageAssumption, Inv, NEW k \in Keys, NEW b \in BBOs, AsyncHandleEvent(k, b)
  PROVE  Inv'
<1> DEFINE r == NewTask(k, b)
<1>1. ~broken /\ task' = Append(task, r) /\ UNCHANGED <<map, trade, reports, broken>>
  BY Zenon DEF AsyncHandleEvent
<1>2. CyclicNoBBO \in Quotes /\ CyclicNoBBO.bid <= CyclicNoBBO.ask
  BY DEF CyclicNoBBO, Quotes, ArbitrageAssumption
<1>3. << >> \in Seq(Cycles) /\ << >> \in Seq([key : Keys, operation : Legs])
  OBVIOUS
<1>4. r \in Task
  <2> DEFINE q == [l \in Legs |-> CyclicNoBBO]
  <2>1. q \in [Legs -> Quotes]
    BY <1>2, Zenon
  <2>2. r = [key |-> k, bbo |-> b, pc |-> "queued", todo |-> << >>, cycle |-> << >>,
             step |-> 1, quote |-> q, profit |-> 0, odd |-> FALSE, foreign |-> FALSE]
    BY Zenon DEF NewTask
  <2> HIDE DEF r, q
  <2> QED
    BY <1>3, <2>1, <2>2 DEF Task, PCs
<1>5. /\ r.pc = "queued" /\ r.todo = << >> /\ r.cycle = << >> /\ r.step = 1
      /\ r.quote = [l \in Legs |-> CyclicNoBBO]
  BY Zenon DEF NewTask
<1> HIDE DEF r
<1>6. TaskInv(r)
  BY <1>3, <1>5 DEF TaskInv, Evaluating, PCs, IsInjective
<1>7. QuoteInv(r)
  BY <1>2, <1>5, Zenon DEF QuoteInv
<1>8. task \in Seq(Task)
  BY Zenon DEF Inv, TaskTypes
<1>9. /\ task' \in Seq(Task) /\ DOMAIN task \subseteq DOMAIN task'
      /\ \A j \in DOMAIN task : task'[j] = task[j]
      /\ \A j \in DOMAIN task' : j \in DOMAIN task \/ task'[j] = r
  BY <1>1, <1>4, <1>8
<1>10. TaskTypes' /\ MapInv' /\ ReportNeedsRace'
  BY <1>1, <1>9, Zenon DEF Inv, TaskTypes, MapInv, ReportNeedsRace
<1>11. \A j \in DOMAIN task' : TaskInv(task'[j]) /\ QuoteInv(task'[j])
  BY <1>6, <1>7, <1>9, Zenon DEF Inv
<1>12. OwnInv'
  BY <1>1, <1>9, Zenon DEF Inv, OwnInv
<1>13. NothingLeftOpen'
  <2>1. CyclicRunning \subseteq CyclicRunning'
    BY <1>9, Zenon DEF CyclicRunning
  <2>2. \A j \in CyclicRunning : task'[j] = task[j]
    BY <1>9, Zenon DEF CyclicRunning
  <2> QED
    BY <1>1, <2>1, <2>2, ZenonT(60) DEF Inv, NothingLeftOpen
<1> QED
  BY <1>10, <1>11, <1>12, <1>13, Zenon DEF Inv

-----------------------------------------------------------------------------
(* ArbitrageStrategyComponent on a pool: a trade is open only while a task *)
(* that will look at is_open again evaluates its cycle, and every report   *)
(* comes from a race of two tasks or from an Odd quote: one evaluation     *)
(* alone, of books that are not crossed, closes what it opened without     *)
(* profit.                                                                 *)
THEOREM TradesAreClosed ==
  ASSUME ArbitrageAssumption
  PROVE  CyclicSpec => []CyclicNothingLeftOpen
<1>1. CyclicInit => Inv
  <2> SUFFICES ASSUME CyclicInit PROVE Inv
    OBVIOUS
  <2>1. task = << >> /\ task \in Seq(Task) /\ DOMAIN task = {}
    BY DEF CyclicInit
  <2>2. DOMAIN map = {} /\ reports = {} /\ broken = FALSE
    BY Zenon DEF CyclicInit
  <2> DEFINE e == [l \in Legs |-> Invalid]
             b == [l \in Legs |-> 0]
             z == [open |-> FALSE, entry |-> e, by |-> b]
  <2>3. e \in [Legs -> Int] /\ b \in [Legs -> Nat]
    BY Zenon DEF ArbitrageAssumption
  <2>4. trade = [c \in Cycles |-> z]
    BY Zenon DEF CyclicInit
  <2>5. \A l \in Legs : b[l] = 0
    OBVIOUS
  <2> HIDE DEF e, b
  <2>6. z \in Trade /\ z.open = FALSE /\ z.by = b
    BY <2>3, Zenon DEF Trade
  <2> HIDE DEF z
  <2>7. /\ trade \in [Cycles -> Trade]
        /\ \A c \in Cycles : trade[c].open = FALSE /\ \A l \in Legs : trade[c].by[l] = 0
    BY <2>4, <2>5, <2>6, Zenon
  <2>8. TaskTypes
    BY <2>1, <2>2, <2>7, Zenon DEF TaskTypes
  <2>9. MapInv /\ OwnInv /\ NothingLeftOpen /\ ReportNeedsRace
    BY <2>2, <2>7, Zenon DEF MapInv, OwnInv, NothingLeftOpen, ReportNeedsRace
  <2> QED
    BY <2>1, <2>8, <2>9, Zenon DEF Inv
<1>2. Inv /\ [CyclicNext]_cyclicVars => Inv'
  <2> SUFFICES ASSUME Inv, [CyclicNext]_cyclicVars PROVE Inv'
    OBVIOUS
  <2>1. CASE UNCHANGED cyclicVars
    BY <2>1 DEF cyclicVars, Inv, TaskTypes, MapInv, OwnInv, NothingLeftOpen, ReportNeedsRace,
                CyclicRunning
  <2>2. CASE \E k \in Keys, b \in BBOs : AsyncHandleEvent(k, b)
    BY <2>2, StepAsyncHandleEvent, Zenon
  <2>3. CASE \E i \in DOMAIN task : Run(i)
    BY Zenon, <2>3, StepHandleNewBBO, StepAddOrUpdateBBO, StepNextCycle, StepReadLeg, StepCheckOpen,
       StepOpen, StepEnter, StepCheckOpened, StepReadBuyEntry, StepReadSellEntry, StepClose,
       StepReport DEF Run
  <2> QED
    BY <2>1, <2>2, <2>3, Zenon DEF CyclicNext
<1>3. Inv => CyclicNothingLeftOpen
  <2> SUFFICES ASSUME Inv PROVE CyclicTypeOK
    BY Zenon DEF Inv, CyclicNothingLeftOpen
  <2>1. ASSUME NEW i \in DOMAIN task
        PROVE  /\ task[i].key \in Keys /\ task[i].bbo \in BBOs /\ task[i].profit \in Int
               /\ task[i].cycle \in Cycles \cup {<< >>}
               /\ task[i].step \in DOMAIN task[i].cycle \cup {1}
    BY TaskFacts, Zenon DEF Task, TaskInv
  <2> QED
    BY <2>1, Zenon DEF CyclicTypeOK, Inv, TaskTypes
<1> QED
  BY <1>1, <1>2, <1>3, PTL DEF CyclicSpec

=============================================================================
