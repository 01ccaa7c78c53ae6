--------------------------- MODULE Strategy_proofs -----------------------------
(***************************************************************************)
(* Theorems about what a strategy may ask for and what it is said to have  *)
(* earned. TicketDesk: a size that was computed from the cost of a probe   *)
(* never takes its ticket over a cap, and a ticket is what its fills come  *)
(* to. SetArbitrage: a set earns its edge however its event resolves.      *)
(* Backtest: what the replay books is what the money did, what is settled  *)
(* is final, and data that was accepted is dense. ReportCard: every cent   *)
(* has one owner. They share no state.                                     *)
(***************************************************************************)
EXTENDS TicketDesk, SetArbitrage, Backtest, ReportCard, Sums_proofs

-------------------------------------------------------------------------------
(* Fees                                                                        *)

\* A quotient rounded up is the least number that, times the divisor, covers.
LEMMA RoundedUpCovers ==
    ASSUME NEW a \in Nat, NEW b \in Nat, b > 0
    PROVE  /\ RoundedUp(a, b) \in Nat
           /\ b * RoundedUp(a, b) >= a
           /\ b * (RoundedUp(a, b) - 1) < a
<1> DEFINE n == a + b - 1
           q == n \div b
<1>1. n \in Nat /\ q \in Int /\ n = b * q + (n % b) /\ n % b \in 0 .. (b - 1)
  OBVIOUS
<1>2. RoundedUp(a, b) = q
  BY DEF RoundedUp
<1>3. n = a + b - 1
  OBVIOUS
<1> HIDE DEF n, q
<1>4. b * q \in Int /\ b * (q - 1) = b * q - b
  BY <1>1
<1>5. b * q >= a /\ b * (q - 1) < a
  BY <1>1, <1>3, <1>4
<1>6. q >= 0
  <2> SUFFICES ASSUME q + 1 <= 0 PROVE FALSE
    BY <1>1
  <2>1. b * (q + 1) <= 0 /\ b * (q + 1) = b * q + b
    BY <1>1
  <2> QED BY <1>4, <1>5, <2>1
<1> QED
  BY <1>1, <1>2, <1>5, <1>6

TakerMultiplier(series) == Multiplier(series, TRUE)
TakerFee(series, price, n) == Fee(series, TRUE, price, n)

\* What a taker is charged for one contract before rounding, in units of a fee's divisor.
Charge(series, price) == 700 * TakerMultiplier(series) * price * (100 - price)

FeeUnit == 20000

\* No multiplier is negative.
LEMMA MultiplierNat ==
    ASSUME NEW series
    PROVE  TakerMultiplier(series) \in Nat
BY PricingAssumption DEF Multiplier, TakerMultiplier

\* A fee is what its contracts are charged, rounded up once.
LEMMA FeeCovers ==
    ASSUME NEW series, NEW price \in 1 .. 99, NEW n \in Nat
    PROVE  /\ Charge(series, price) \in Nat
           /\ TakerFee(series, price, n) \in Nat
           /\ FeeUnit * TakerFee(series, price, n) >= Charge(series, price) * n
           /\ FeeUnit * (TakerFee(series, price, n) - 1) < Charge(series, price) * n
<1> DEFINE m == 700 * TakerMultiplier(series)
           k == Charge(series, price)
<1>1. m \in Nat
  BY MultiplierNat
<1>2. k = m * price * (100 - price)
  BY DEF Charge
<1>3. TakerFee(series, price, n) = RoundedUp(m * n * price * (100 - price), FeeUnit)
  BY DEF Fee, FeeUnit, TakerFee, TakerMultiplier
<1> HIDE DEF m, k
<1>4. price \in Nat /\ 100 - price \in Nat
  OBVIOUS
<1>5. k \in Nat
  <2>1. m * price \in Nat
    BY <1>1, <1>4
  <2> QED BY <1>2, <1>4, <2>1
<1>6. m * n * price * (100 - price) = k * n
  BY <1>1, <1>2, <1>4
<1>7. k * n \in Nat
  BY <1>5
<1>8. TakerFee(series, price, n) = RoundedUp(k * n, FeeUnit)
  BY <1>3, <1>6
<1>9. FeeUnit \in Nat /\ FeeUnit > 0
  BY DEF FeeUnit
<1> QED
  BY <1>5, <1>7, <1>8, <1>9, RoundedUpCovers DEF k

-------------------------------------------------------------------------------
(* Sizes                                                                       *)

\* The fee of n contracts, rounded up, fits where n times the rounded fee of a
\* probe does: limits are whole numbers of the unit it is rounded to.
LEMMA ProbeCovers ==
    ASSUME NEW k \in Nat, NEW n \in Nat, NEW b \in Nat, b > 0, NEW d \in Nat, d > 0,
           NEW p \in Nat, NEW h \in Int, NEW fb \in Nat, NEW fn \in Nat,
           d * fb >= k * b, d * (fn - 1) < k * n,
           n * (p * b + fb) <= h * b
    PROVE  p * n + fn <= h
<1> DEFINE r == h - p * n
<1>1. p * n \in Int /\ r \in Int
  OBVIOUS
<1> SUFFICES ASSUME r <= fn - 1 PROVE FALSE
  BY <1>1
<1> HIDE DEF r
<1>2. d * r <= d * (fn - 1) /\ d * r \in Int /\ d * (fn - 1) \in Int /\ k * n \in Int
  BY <1>1
<1>3. d * r < k * n
  BY <1>2
<1>4. (d * r) * b < (k * n) * b
  BY <1>2, <1>3
<1>5. (k * n) * b <= n * (d * fb)
  <2>1. n * (k * b) <= n * (d * fb)
    <3>1. k * b \in Int /\ d * fb \in Int /\ k * b <= d * fb
      OBVIOUS
    <3> QED BY <3>1
  <2>2. n * (k * b) = (k * n) * b
    OBVIOUS
  <2> QED BY <2>1, <2>2
<1>6. (d * r) * b < n * (d * fb)
  <2>1. (d * r) * b \in Int /\ (k * n) * b \in Int /\ n * (d * fb) \in Int
    BY <1>2
  <2> QED BY <1>4, <1>5, <2>1
<1>7. d * (r * b) < d * (n * fb)
  BY <1>1, <1>6
<1>8. r * b < n * fb
  <2>1. r * b \in Int /\ n * fb \in Int
    BY <1>1
  <2> SUFFICES ASSUME n * fb <= r * b PROVE FALSE
    BY <2>1
  <2>2. d * (n * fb) <= d * (r * b) /\ d * (n * fb) \in Int /\ d * (r * b) \in Int
    BY <2>1
  <2> QED BY <1>7, <2>2
<1>9. r * b = h * b - (p * n) * b
  BY <1>1 DEF r
<1>10. n * (p * b + fb) = (p * n) * b + n * fb
  OBVIOUS
<1>11. h * b \in Int /\ (p * n) * b \in Int /\ n * fb \in Int
  OBVIOUS
<1> QED
  BY <1>8, <1>9, <1>10, <1>11

\* The constants, each by itself.
LEMMA TicketBounds ==
    /\ Probe \in Nat /\ Probe > 0 /\ Bankroll \in Nat
    /\ KellyDivisor \in Nat /\ KellyDivisor > 0 /\ MarketShare \in Nat /\ MarketShare > 0
    /\ Slips \subseteq Nat /\ Fairs \subseteq Int /\ Headrooms \subseteq Int
BY TicketAssumption

\* The cost a size is computed from: at least the price and the fee of the probe.
LEMMA CostFacts ==
    ASSUME NEW series, NEW price \in 1 .. 99, NEW slip \in Nat
    PROVE  LET cost == AllInCost(series, price, Probe, slip)
           IN  /\ cost \in Nat /\ cost > 0
               /\ (price * 100) * Probe + TakerFee(series, price, Probe) <= cost
<1> DEFINE cost == AllInCost(series, price, Probe, slip)
           fee == TakerFee(series, price, Probe)
<1>1. fee \in Nat
  BY FeeCovers, TicketBounds
<1>2. cost = (price + slip) * 100 * Probe + fee
  BY DEF AllInCost, TakerFee
<1>3. (price + slip) * 100 * Probe = (price * 100) * Probe + (slip * 100) * Probe
  BY TicketBounds
<1>4. (price * 100) * Probe \in Nat /\ (price * 100) * Probe > 0 /\ (slip * 100) * Probe \in Nat
  BY TicketBounds
<1> HIDE DEF cost, fee
<1>5. cost \in Nat /\ cost > 0 /\ (price * 100) * Probe + fee <= cost
  BY <1>1, <1>2, <1>3, <1>4
<1> QED
  BY <1>5 DEF cost, fee

\* Of three numbers, or four, one is least.
LEMMA LeastOfFew ==
    ASSUME NEW a \in Int, NEW b \in Int, NEW c \in Int, NEW D \in SUBSET Int,
           D = {} \/ \E d \in Int : D = {d}
    PROVE  \E s \in {a, b, c} \cup D : \A t \in {a, b, c} \cup D : s <= t
<1>1. PICK s \in {a, b, c} : \A t \in {a, b, c} : s <= t
  <2>1. CASE a <= b /\ a <= c
    BY <2>1
  <2>2. CASE b <= a /\ b <= c
    BY <2>2
  <2>3. CASE c <= a /\ c <= b
    BY <2>3
  <2> QED BY <2>1, <2>2, <2>3
<1>2. CASE D = {}
  BY <1>1, <1>2
<1>3. ASSUME NEW d \in Int, D = {d}
      PROVE  \E r \in {a, b, c} \cup D : \A t \in {a, b, c} \cup D : r <= t
  <2>1. CASE s <= d
    BY <1>1, <1>3, <2>1
  <2>2. CASE d <= s
    <3>1. s \in Int
      BY <1>1
    <3>2. \A t \in {a, b, c} : d <= t
      BY <1>1, <2>2, <3>1
    <3> QED BY <1>3, <3>2
  <2>3. s <= d \/ d <= s
    BY <1>1
  <2> QED BY <2>1, <2>2, <2>3
<1> QED
  BY <1>2, <1>3

\* A quotient rounded down, times the divisor, fits.
LEMMA RoundedDown ==
    ASSUME NEW a \in Int, NEW b \in Nat, b > 0
    PROVE  a \div b \in Int /\ (a \div b) * b <= a
<1>1. a \div b \in Int /\ a = b * (a \div b) + (a % b) /\ a % b \in 0 .. (b - 1)
  OBVIOUS
<1> DEFINE q == a \div b
<1>2. q * b = b * q /\ b * q \in Int
  BY <1>1
<1> HIDE DEF q
<1>3. q * b <= a
  BY <1>1, <1>2 DEF q
<1> QED
  BY <1>1, <1>3 DEF q

FitsStake(n, cost, s) == n \in Nat /\ n * cost <= (s * 100) * Probe

\* A recommended size costs no more than the market's share or the headroom.
LEMMA SizeFits ==
    ASSUME NEW fair \in Int, NEW cost \in Nat, cost > 0, NEW headroom \in Int,
           NEW depth \in Int,
           NEW n, n = RecommendSize(fair, cost, Probe, Bankroll, KellyDivisor, MarketShare,
                                    headroom, depth),
           n > 0,
           NEW s \in {Bankroll \div MarketShare, headroom}
    PROVE  FitsStake(n, cost, s)
<1> SUFFICES n \in Nat /\ n * cost <= (s * 100) * Probe
  BY DEF FitsStake
<1> DEFINE S == Stakes(fair, cost, Probe, Bankroll, KellyDivisor, MarketShare, headroom, depth)
           kelly == (Bankroll * (fair * 100 * Probe - cost))
                       \div (KellyDivisor * (10000 * Probe - cost))
           D == IF depth < 0 THEN {} ELSE {RoundedUp(depth * cost, 100 * Probe)}
           least == CHOOSE x \in S : \A t \in S : x <= t
<1>1. n = IF cost >= 10000 * Probe \/ fair * 100 * Probe <= cost THEN 0
          ELSE IF least <= 0 THEN 0 ELSE Bought(least, cost, Probe)
  BY DEF RecommendSize
<1>2. cost < 10000 * Probe
  <2>1. 10000 * Probe \in Int
    BY TicketBounds
  <2> QED BY <1>1, <2>1
<1>3. kelly \in Int /\ Bankroll \div MarketShare \in Int
  <2>1. KellyDivisor * (10000 * Probe - cost) \in Nat /\ KellyDivisor * (10000 * Probe - cost) > 0
    <3>1. 10000 * Probe - cost \in Nat /\ 10000 * Probe - cost > 0
      BY <1>2, TicketBounds
    <3> QED BY <3>1, TicketBounds
  <2>2. Bankroll * (fair * 100 * Probe - cost) \in Int
    <3>1. fair * 100 * Probe - cost \in Int
      BY TicketBounds
    <3> QED BY <3>1, TicketBounds
  <2> QED BY <2>1, <2>2, RoundedDown, TicketBounds
<1>4. D \in SUBSET Int /\ (D = {} \/ \E d \in Int : D = {d})
  <2>1. CASE depth < 0
    BY <2>1
  <2>2. CASE ~(depth < 0)
    <3>1. depth * cost \in Nat /\ 100 * Probe \in Nat /\ 100 * Probe > 0
      <4>1. depth \in Nat
        BY <2>2
      <4> QED BY <4>1, TicketBounds
    <3>2. RoundedUp(depth * cost, 100 * Probe) \in Nat
      BY <3>1, RoundedUpCovers
    <3> QED BY <2>2, <3>2
  <2> QED BY <2>1, <2>2
<1>5. S = {kelly, Bankroll \div MarketShare, headroom} \cup D
  BY DEF Stakes
<1> HIDE DEF kelly, D, S
<1>6. \E x \in S : \A t \in S : x <= t
  BY <1>3, <1>4, <1>5, LeastOfFew
<1>7. least \in S /\ \A t \in S : least <= t
  BY <1>6
<1>8. least \in Int /\ least <= s /\ s \in Int
  <2>1. s \in S /\ S \subseteq Int
    BY <1>3, <1>4, <1>5
  <2> QED BY <1>7, <2>1
<1> HIDE DEF least
<1>9. least > 0 /\ n = Bought(least, cost, Probe)
  BY <1>1, <1>8
<1>10. n = ((least * 100) * Probe) \div cost /\ (least * 100) * Probe \in Int
  BY <1>8, <1>9, TicketBounds DEF Bought
<1>11. n \in Int /\ n * cost <= (least * 100) * Probe
  BY <1>10, RoundedDown
<1>12. (least * 100) * Probe <= (s * 100) * Probe /\ (s * 100) * Probe \in Int
  BY <1>8, TicketBounds
<1>13. n * cost \in Int
  BY <1>11
<1> QED
  BY <1>10, <1>11, <1>12, <1>13

\* Nor does what it can lose at its price, the fee of the size included.
LEMMA SizedLoss ==
    ASSUME NEW series, NEW price \in 1 .. 99, NEW slip \in Nat, NEW n \in Nat, NEW s \in Int,
           n * AllInCost(series, price, Probe, slip) <= (s * 100) * Probe
    PROVE  Ticket(series, TRUE, TRUE, price, n).maxLoss <= s * 100
<1> DEFINE cost == AllInCost(series, price, Probe, slip)
           fb == TakerFee(series, price, Probe)
           fn == TakerFee(series, price, n)
           k == Charge(series, price)
           h == s * 100
           p == price * 100
<1>1. /\ cost \in Nat /\ p * Probe + fb <= cost
  BY CostFacts
<1>2. /\ k \in Nat /\ fb \in Nat /\ FeeUnit * fb >= k * Probe
      /\ fn \in Nat /\ FeeUnit * (fn - 1) < k * n
  BY FeeCovers, TicketBounds
<1>3. Ticket(series, TRUE, TRUE, price, n).maxLoss = price * n * 100 + fn
  BY DEF Ticket, TakerFee
<1>4. n * cost <= h * Probe
  OBVIOUS
<1>5. p \in Nat /\ h \in Int /\ price * n * 100 = p * n
  OBVIOUS
<1> HIDE DEF cost, fb, fn, k, h, p
<1>6. n * (p * Probe + fb) <= h * Probe
  <2>1. p * Probe + fb \in Nat
    BY <1>2, <1>5, TicketBounds
  <2>2. n * (p * Probe + fb) <= n * cost /\ n * (p * Probe + fb) \in Int /\ n * cost \in Int
    BY <1>1, <2>1
  <2>3. h * Probe \in Int
    BY <1>5, TicketBounds
  <2> QED BY <1>4, <2>2, <2>3
<1>7. p * n + fn <= h
  <2>1. FeeUnit \in Nat /\ FeeUnit > 0
    BY DEF FeeUnit
  <2> QED BY <1>2, <1>5, <1>6, <2>1, TicketBounds, ProbeCovers
<1> QED
  BY <1>3, <1>5, <1>7 DEF h

-------------------------------------------------------------------------------
(* Tickets                                                                     *)

\* A ticket that a detector prices and sizes is within both caps.
LEMMA TicketedFits ==
    ASSUME NEW series, NEW pick, pick.price \in Int, pick.fair \in Int, pick.depth \in Int,
           NEW slip \in Nat, NEW headroom \in Int, Ticketed(series, pick, slip, headroom)
    PROVE  SizedWithinCaps'
<1> DEFINE cost == AllInCost(series, pick.price, Probe, slip)
           size == RecommendSize(pick.fair, cost, Probe, Bankroll, KellyDivisor, MarketShare,
                                 headroom, pick.depth)
           worst == Ticket(series, TRUE, TRUE, pick.price, size).maxLoss
<1>1. /\ Tradeable(pick.price) /\ size > 0
      /\ ask'.series = series /\ ask'.price = pick.price
      /\ ask'.contracts = size /\ ask'.headroom = headroom
  BY DEF Ticketed
<1>2. pick.price \in 1 .. 99
  BY <1>1 DEF Tradeable
<1>3. cost \in Nat /\ cost > 0
  BY <1>2, CostFacts
<1> HIDE DEF cost
<1>8. size = RecommendSize(pick.fair, cost, Probe, Bankroll, KellyDivisor, MarketShare,
                           headroom, pick.depth)
  OBVIOUS
<1> HIDE DEF size
<1>4. ASSUME NEW s \in {Bankroll \div MarketShare, headroom}
      PROVE  s \in Int /\ worst <= s * 100
  <2>1. s \in Int
    BY RoundedDown, TicketBounds
  <2>3. FitsStake(size, cost, s)
    BY <1>1, <1>3, <1>8, SizeFits
  <2>2. size \in Nat /\ size * cost <= (s * 100) * Probe
    BY <2>3 DEF FitsStake
  <2> QED BY <1>2, <2>1, <2>2, SizedLoss DEF cost
<1>5. worst \in Int
  <2>1. size \in Nat
    BY <1>1, <1>3, <1>8, SizeFits DEF FitsStake
  <2>2. TakerFee(series, pick.price, size) \in Nat
    BY <1>2, <2>1, FeeCovers
  <2>3. worst = pick.price * size * 100 + TakerFee(series, pick.price, size)
    BY DEF Ticket, TakerFee
  <2>4. pick.price * size * 100 \in Int
    BY <1>2, <2>1
  <2> HIDE DEF worst
  <2> QED BY <2>2, <2>3, <2>4
<1> HIDE DEF worst
<1>6. worst <= headroom * 100
  BY <1>4
<1>7. worst * MarketShare <= Bankroll * 100
  <2> DEFINE b == Bankroll \div MarketShare
  <2>1. b \in Int /\ worst <= b * 100
    BY <1>4
  <2>2. b * MarketShare <= Bankroll
    BY RoundedDown, TicketBounds
  <2> HIDE DEF b
  <2>3. /\ worst * MarketShare <= (b * 100) * MarketShare
        /\ (b * 100) * MarketShare = (b * MarketShare) * 100
        /\ worst * MarketShare \in Int /\ b * MarketShare \in Int
    BY <1>5, <2>1, TicketBounds
  <2> QED BY <2>2, <2>3, TicketBounds
<1> QED
  BY <1>1, <1>6, <1>7 DEF SizedWithinCaps, worst

\* What a detector writes fits the caps the guards judge by, for all quotes, fair
\* values, fees and caps: runner.py sizes by a probe's cost, the ticket is priced at
\* the size that came out.
THEOREM TicketsFitTheirCaps == TicketSpec => []SizedWithinCaps
<1>1. TicketInit => SizedWithinCaps
  BY DEF TicketInit, NoTicket, SizedWithinCaps
<1>2. SizedWithinCaps /\ [TicketNext]_ask => SizedWithinCaps'
  <2> SUFFICES ASSUME SizedWithinCaps, [TicketNext]_ask PROVE SizedWithinCaps'
    OBVIOUS
  <2>1. CASE Quote
    BY <2>1 DEF Quote, SizedWithinCaps
  <2>2. ASSUME NEW quote \in MarketQuotes
        PROVE  quote.bid \in Int /\ quote.ask \in Int /\ quote.bidSize \in Int
               /\ quote.askSize \in Int
    BY TicketAssumption
  <2>3. CASE DetectStale
    <3>1. PICK series \in TicketSeries, yes \in BOOLEAN, fair \in Fairs,
               quote \in MarketQuotes, slip \in Slips, headroom \in Headrooms :
             Ticketed(series, StaleSide(yes, fair, quote), slip, headroom)
      BY <2>3 DEF DetectStale
    <3> DEFINE pick == StaleSide(yes, fair, quote)
    <3>2. pick.price \in Int /\ pick.fair \in Int /\ pick.depth \in Int
      BY <2>2, TicketBounds DEF StaleSide
    <3> HIDE DEF pick
    <3> QED BY <3>1, <3>2, TicketBounds, TicketedFits DEF pick
  <2>4. CASE DetectWeather
    <3>1. PICK series \in TicketSeries, fair \in Fairs, quote \in MarketQuotes,
               slip \in Slips, headroom \in Headrooms :
             Ticketed(series, WeatherSide(fair, quote), slip, headroom)
      BY <2>4 DEF DetectWeather
    <3> DEFINE pick == WeatherSide(fair, quote)
    <3>2. pick.price \in Int /\ pick.fair \in Int /\ pick.depth \in Int
      BY <2>2, TicketBounds DEF WeatherSide
    <3> HIDE DEF pick
    <3> QED BY <3>1, <3>2, TicketBounds, TicketedFits DEF pick
  <2>5. CASE UNCHANGED ask
    BY <2>5 DEF SizedWithinCaps
  <2> QED
    BY <2>1, <2>3, <2>4, <2>5 DEF TicketNext
<1> QED
  BY <1>1, <1>2, PTL DEF TicketSpec

-------------------------------------------------------------------------------
(* Walking a book                                                              *)

PricedLevels(I, price) == I \subseteq Int /\ \A i \in I : price[i] \in Int
StrictlyOrdered(I, price, buying) ==
    \A i, j, k \in I :
        /\ ~Before(price, buying, i, i)
        /\ i = j \/ Before(price, buying, i, j) \/ Before(price, buying, j, i)
        /\ Before(price, buying, i, j) /\ Before(price, buying, j, k)
              => Before(price, buying, i, k)

\* Levels are walked in a strict order.
LEMMA BeforeOrders ==
    ASSUME NEW I, NEW price, PricedLevels(I, price), NEW buying \in BOOLEAN
    PROVE  StrictlyOrdered(I, price, buying)
<1> SUFFICES ASSUME NEW i \in I, NEW j \in I, NEW k \in I
             PROVE  /\ ~Before(price, buying, i, i)
                    /\ i = j \/ Before(price, buying, i, j) \/ Before(price, buying, j, i)
                    /\ Before(price, buying, i, j) /\ Before(price, buying, j, k)
                          => Before(price, buying, i, k)
  BY DEF StrictlyOrdered
<1>1. i \in Int /\ j \in Int /\ k \in Int
      /\ price[i] \in Int /\ price[j] \in Int /\ price[k] \in Int
  BY DEF PricedLevels
<1>2. CASE buying
  <2>1. ASSUME NEW a \in {i, j, k}, NEW b \in {i, j, k}
        PROVE  Before(price, buying, a, b)
                  <=> IF price[a] = price[b] THEN a < b ELSE price[a] < price[b]
    <3>1. CASE price[a] = price[b]
      BY <3>1 DEF Before
    <3>2. CASE price[a] # price[b]
      <4>1. Before(price, buying, a, b) <=> ((price[a] < price[b]) = TRUE)
        BY <1>2, <3>2 DEF Before
      <4>2. price[a] \in Int /\ price[b] \in Int
        BY <1>1
      <4> QED BY <3>2, <4>1, <4>2
    <3> QED BY <3>1, <3>2
  <2> QED BY <1>1, <2>1
<1>3. CASE ~buying
  <2>1. buying = FALSE
    BY <1>3
  <2> QED BY <1>1, <2>1 DEF Before
<1> QED BY <1>2, <1>3

\* Of some levels one is walked last.
LEMMA LastLevel ==
    ASSUME NEW D, IsFiniteSet(D), D # {}, NEW price, PricedLevels(D, price),
           NEW buying \in BOOLEAN
    PROVE  \E m \in D : \A j \in D : j # m => Before(price, buying, j, m)
<1> DEFINE After(i) == {j \in D : Before(price, buying, i, j)}
           T == {After(i) : i \in D}
<1>1. T \in SUBSET (SUBSET D) /\ T # {}
  OBVIOUS
<1>2. \E x \in T : \A y \in T : ~(y \subseteq x /\ y # x)
  <2> HIDE DEF T
  <2> QED BY ONLY IsFiniteSet(D), <1>1, MinimalSubset
<1>3. PICK m \in D : \A y \in T : ~(y \subseteq After(m) /\ y # After(m))
  BY <1>2
<1>5. StrictlyOrdered(D, price, buying)
  BY BeforeOrders
<1>4. ASSUME NEW j \in D, j # m, ~Before(price, buying, j, m) PROVE FALSE
  <2>1. Before(price, buying, m, j)
    BY <1>4, <1>5 DEF StrictlyOrdered
  <2>2. After(j) \subseteq After(m)
    BY <2>1, <1>5 DEF StrictlyOrdered
  <2>3. j \in After(m) /\ j \notin After(j)
    BY <2>1, <1>5 DEF StrictlyOrdered
  <2>4. After(j) \in T
    OBVIOUS
  <2> HIDE DEF After, T
  <2> QED BY <1>3, <2>2, <2>3, <2>4
<1> QED BY <1>4

\* What a level is asked for, and what it gives.
Wanted(size, price, buying, n, open) ==
    [i \in open |-> n - TotalOver(size, {j \in open : Before(price, buying, j, i)})]
Given(size, price, buying, n, open) ==
    [i \in open |-> Smaller(size[i], Wanted(size, price, buying, n, open)[i])]
Reached(size, price, buying, n, open) ==
    {i \in open : Wanted(size, price, buying, n, open)[i] > 0}

\* A walk takes no more than was ordered.
LEMMA WithinOrder ==
    ASSUME NEW open, IsFiniteSet(open), NEW size, \A i \in open : size[i] \in Nat,
           NEW price, PricedLevels(open, price), NEW buying \in BOOLEAN, NEW n \in Nat
    PROVE  LET take == Given(size, price, buying, n, open)
               D == Reached(size, price, buying, n, open)
           IN /\ IsFiniteSet(D) /\ \A i \in D : take[i] \in Nat
              /\ TotalOver(take, D) <= n
<1> DEFINE left == Wanted(size, price, buying, n, open)
           take == Given(size, price, buying, n, open)
           D == Reached(size, price, buying, n, open)
           Ahead(i) == {j \in open : Before(price, buying, j, i)}
<1>1. /\ D \in SUBSET open /\ \A i \in D : left[i] > 0
      /\ \A i \in open : left[i] = n - TotalOver(size, Ahead(i))
      /\ \A i \in open : take[i] = Smaller(size[i], left[i])
  BY DEF Wanted, Given, Reached
<1>2. IsFiniteSet(D) /\ PricedLevels(D, price)
  <2> HIDE DEF left, take, D
  <2> QED BY <1>1, FS_Subset DEF PricedLevels
<1>3. ASSUME NEW i \in open
      PROVE  /\ Ahead(i) \in SUBSET open /\ IsFiniteSet(Ahead(i))
             /\ TotalOver(size, Ahead(i)) \in Nat
  <2>1. Ahead(i) \in SUBSET open
    OBVIOUS
  <2> HIDE DEF Ahead
  <2>2. IsFiniteSet(Ahead(i))
    BY <2>1, FS_Subset
  <2> QED BY <2>1, <2>2, TotalOverNat
<1> HIDE DEF left, take, D
<1>4. \A i \in D : left[i] \in Nat /\ take[i] \in Nat /\ take[i] <= size[i] /\ take[i] <= left[i]
  <2> TAKE i \in D
  <2>1. left[i] = n - TotalOver(size, Ahead(i)) /\ left[i] > 0 /\ size[i] \in Nat
        /\ take[i] = Smaller(size[i], left[i])
    BY <1>1
  <2>2. TotalOver(size, Ahead(i)) \in Nat
    BY <1>1, <1>3
  <2> HIDE DEF Ahead
  <2> QED BY <2>1, <2>2 DEF Smaller
<1>5. TotalOver(take, D) <= n
  <2>1. CASE D = {}
    BY <2>1, TotalOverEmpty
  <2>2. CASE D # {}
    <3>2. PICK m \in D : \A j \in D : j # m => Before(price, buying, j, m)
      BY <1>2, <2>2, LastLevel
    <3> DEFINE before == D \ {m}
    <3>3. m \in open /\ before \in SUBSET Ahead(m)
      BY <1>1, <3>2
    <3>4. IsFiniteSet(before) /\ \A i \in before : take[i] \in Nat /\ size[i] \in Nat
                                               /\ take[i] <= size[i]
      BY <1>1, <1>2, <1>4, FS_RemoveElement
    <3>5. TotalOver(take, D) = take[m] + TotalOver(take, before)
      <4>1. \A i \in D : take[i] \in Int
        BY <1>4
      <4> QED BY <1>2, <4>1, TotalOverRemove
    <3>6. IsFiniteSet(Ahead(m)) /\ \A i \in Ahead(m) : size[i] \in Nat
      BY <1>3, <3>3
    <3>7. TotalOver(size, Ahead(m)) \in Nat /\ left[m] = n - TotalOver(size, Ahead(m))
      BY <1>1, <1>3, <3>3
    <3> HIDE DEF before, Ahead
    <3>8. TotalOver(take, before) <= TotalOver(size, before)
      BY <3>4, TotalOverMonotone
    <3>9. TotalOver(size, before) <= TotalOver(size, Ahead(m))
      BY <3>3, <3>6, TotalOverSubset
    <3>10. TotalOver(take, before) \in Nat /\ TotalOver(size, before) \in Nat
      BY <3>4, TotalOverNat
    <3> QED BY <1>4, <3>5, <3>7, <3>8, <3>9, <3>10
  <2> QED BY <2>1, <2>2
<1> QED BY <1>2, <1>4, <1>5 DEF take, D

\* What a walk comes to: fills of one order at tradeable prices, none through its limit,
\* together no more than was ordered.
IsWalk(hits, buying, limit, series, n) ==
    /\ IsFiniteSet(DOMAIN hits)
    /\ \A i \in DOMAIN hits :
          /\ hits[i].price \in 1 .. 99 /\ ~Through(buying, hits[i].price, limit)
          /\ hits[i].contracts \in Nat /\ hits[i].fee \in Nat
          /\ hits[i].fee = TakerFee(series, hits[i].price, hits[i].contracts)
    /\ Filled(hits) \in Nat /\ Filled(hits) <= n

LEMMA FillsAreAWalk ==
    ASSUME NEW book \in [yes : Bids, no : Bids], NEW side, NEW buying \in BOOLEAN, NEW limit,
           NEW n \in Nat, NEW series, NEW slip \in Int
    PROVE  IsWalk(SimulateFills(book, side, buying, limit, n, series, slip),
                  buying, limit, series, n)
<1> DEFINE raw == Source(book, side, buying)
           size == [i \in DOMAIN raw |-> raw[i].size]
           price == [i \in DOMAIN raw |->
                       IF buying THEN 100 - raw[i].price + slip ELSE raw[i].price - slip]
           open == {i \in DOMAIN raw : /\ size[i] > 0 /\ Tradeable(price[i])
                                       /\ ~Through(buying, price[i], limit)}
           D == Reached(size, price, buying, n, open)
           take == Given(size, price, buying, n, open)
           hits == SimulateFills(book, side, buying, limit, n, series, slip)
<1>1. hits = [i \in D |-> [price |-> price[i], contracts |-> take[i],
                           fee |-> Fee(series, TRUE, price[i], take[i])]]
  BY DEF SimulateFills, Reached, Wanted, Given
<1>2. raw \in Bids
  BY DEF Source
<1>3. DOMAIN raw = 1 .. Len(raw) /\ Len(raw) \in Nat
      /\ \A i \in DOMAIN raw : raw[i].price \in Int /\ raw[i].size \in Nat
  <2> DEFINE R == [price : Int, size : Nat]
  <2>1. raw \in Seq(R)
    BY <1>2 DEF Bids
  <2>2. \A r \in R : r.price \in Int /\ r.size \in Nat
    OBVIOUS
  <2> HIDE DEF raw, R
  <2>3. DOMAIN raw = 1 .. Len(raw) /\ Len(raw) \in Nat /\ \A i \in DOMAIN raw : raw[i] \in R
    BY <2>1
  <2> QED BY <2>2, <2>3
<1> HIDE DEF raw, hits
<1>4. \A i \in DOMAIN raw : price[i] \in Int /\ size[i] \in Nat
  BY <1>3
<1> HIDE DEF price, size
<1>5. open \in SUBSET (DOMAIN raw) /\ IsFiniteSet(open)
  <2>1. IsFiniteSet(DOMAIN raw)
    BY <1>3, FS_Interval
  <2>2. open \in SUBSET (DOMAIN raw)
    OBVIOUS
  <2> HIDE DEF open
  <2> QED BY <2>1, <2>2, FS_Subset
<1>6. \A i \in open : price[i] \in 1 .. 99 /\ ~Through(buying, price[i], limit)
  BY <1>4 DEF Tradeable
<1> HIDE DEF open
<1>7. PricedLevels(open, price) /\ \A i \in open : size[i] \in Nat
  BY <1>3, <1>4, <1>5 DEF PricedLevels
<1>8. IsFiniteSet(D) /\ (\A i \in D : take[i] \in Nat) /\ TotalOver(take, D) <= n
  BY <1>5, <1>7, WithinOrder
<1>9. D \subseteq open
  BY DEF Reached
<1> HIDE DEF D, take
<1>10. Filled(hits) = TotalOver(take, D) /\ TotalOver(take, D) \in Nat
  <2> DEFINE f == [i \in D |-> hits[i].contracts]
  <2>1. \A i \in D : take[i] \in Int /\ take[i] = f[i]
    BY <1>1, <1>8
  <2>2. Filled(hits) = TotalOver(f, D)
    BY <1>1 DEF Filled, SumOf
  <2> HIDE DEF f
  <2>3. TotalOver(take, D) = TotalOver(f, D)
    BY <1>8, <2>1, TotalOverSame
  <2> QED BY <1>8, <2>2, <2>3, TotalOverNat
<1>11. DOMAIN hits = D
       /\ \A i \in D : /\ hits[i].price = price[i] /\ hits[i].contracts = take[i]
                       /\ hits[i].fee = TakerFee(series, price[i], take[i])
  BY <1>1 DEF TakerFee
<1>12. \A i \in D : TakerFee(series, price[i], take[i]) \in Nat
  BY <1>6, <1>8, <1>9, FeeCovers
<1>13. \A i \in D : price[i] \in 1 .. 99 /\ ~Through(buying, price[i], limit)
  BY <1>6, <1>9
<1>14. \A i \in DOMAIN hits :
          /\ hits[i].price \in 1 .. 99 /\ ~Through(buying, hits[i].price, limit)
          /\ hits[i].contracts \in Nat /\ hits[i].fee \in Nat
          /\ hits[i].fee = TakerFee(series, hits[i].price, hits[i].contracts)
  BY <1>8, <1>11, <1>12, <1>13
<1> QED BY <1>8, <1>10, <1>11, <1>14 DEF IsWalk, hits

\* What one fill is worth, before its fee, once the side paid or did not.
Worth(won) == IF won THEN 100 ELSE 0
GrossOf(h, buying, won) ==
    (IF buying THEN Worth(won) - h.price ELSE h.price - Worth(won)) * h.contracts * 100

LEMMA ResultParts ==
    ASSUME NEW hits, NEW buying, NEW won
    PROVE  ResultOf(hits, buying, won) =
               TotalOver([i \in DOMAIN hits |-> GrossOf(hits[i], buying, won)], DOMAIN hits)
               - TotalOver([i \in DOMAIN hits |-> hits[i].fee], DOMAIN hits)
BY DEF ResultOf, SumOf, Fees, GrossOf, Worth

-------------------------------------------------------------------------------
(* What a ticket says of itself                                                *)

\* What a contract at a price costs, its fee before rounding included, in units of a
\* centicent's 20000th.
UnitCost(k, p) == 2000000 * p + k * p * (100 - p)

\* The cheaper price is the cheaper one after fees too.
LEMMA UnitCostGrows ==
    ASSUME NEW k \in 0 .. 700 * MostTaker, NEW p \in 1 .. 99, NEW l \in 1 .. 99, p <= l
    PROVE  /\ UnitCost(k, p) \in Nat /\ UnitCost(k, l) \in Nat
           /\ UnitCost(k, p) <= UnitCost(k, l)
<1>1. k \in Nat /\ k <= 19600
  BY DEF MostTaker
<1> DEFINE d == l - p
           e == 100 - l - p
<1>2. d \in Nat /\ e \in Int /\ e >= -98 /\ l = d + p /\ 100 - l = e + p /\ 100 - p = d + e + p
  OBVIOUS
<1> HIDE DEF d, e
<1>3. k * e >= -2000000
  <2>1. k * (e + 98) >= 0
    BY <1>1, <1>2
  <2>2. k * (e + 98) = k * e + k * 98
    BY <1>1, <1>2
  <2>3. k * e \in Int
    BY <1>1, <1>2
  <2> QED BY <1>1, <2>1, <2>2, <2>3
<1>4. d * (2000000 + k * e) >= 0
  <2>1. 2000000 + k * e \in Nat
    BY <1>1, <1>2, <1>3
  <2> HIDE DEF d
  <2> QED BY <1>2, <2>1
<1>5. l * (100 - l) - p * (100 - p) = d * e
  BY <1>2
<1>6. UnitCost(k, l) - UnitCost(k, p) = d * (2000000 + k * e)
  <2> DEFINE a == l * (100 - l)
             b == p * (100 - p)
  <2>1. a \in Int /\ b \in Int /\ a - b = d * e /\ d * e \in Int
    BY <1>2, <1>5
  <2>2. UnitCost(k, l) = 2000000 * l + k * a /\ UnitCost(k, p) = 2000000 * p + k * b
    BY <1>1 DEF UnitCost
  <2> HIDE DEF a, b
  <2>3. k * a - k * b = k * (d * e)
    <3>1. k * a - k * b = k * (a - b)
      BY <1>1, <2>1
    <3> QED BY <2>1, <3>1
  <2>4. d * (2000000 + k * e) = 2000000 * d + k * (d * e)
    BY <1>1, <1>2
  <2>5. k * a \in Int /\ k * b \in Int /\ k * (d * e) \in Int
    BY <1>1, <2>1
  <2> QED BY <1>2, <2>2, <2>3, <2>4, <2>5
<1>7. UnitCost(k, p) \in Nat /\ UnitCost(k, l) \in Nat
  <2> SUFFICES ASSUME NEW q \in 1 .. 99 PROVE UnitCost(k, q) \in Nat
    OBVIOUS
  <2>1. k * q \in Nat /\ 100 - q \in Nat
    BY <1>1
  <2>2. k * q * (100 - q) \in Nat
    BY <2>1
  <2> QED BY <2>2 DEF UnitCost
<1>8. d * (2000000 + k * e) \in Int
  BY <1>1, <1>2
<1> QED BY <1>4, <1>6, <1>7, <1>8

\* The most that a fill can lose.
Lost(h, buying) == (IF buying THEN h.price ELSE 100 - h.price) * h.contracts * 100 + h.fee

\* A fill within a limit loses no more than its contracts cost at the limit, up to the
\* rounding of its fee. Buying at p and selling at 100 - p lose alike.
LEMMA FillLoses ==
    ASSUME NEW k \in 0 .. 700 * MostTaker, NEW p \in 1 .. 99, NEW l \in 1 .. 99, p <= l,
           NEW c \in Nat, NEW fee \in Nat, FeeUnit * (fee - 1) < k * p * (100 - p) * c
    PROVE  FeeUnit * (p * c * 100 + fee) <= c * UnitCost(k, l) + FeeUnit
<1> DEFINE u == UnitCost(k, p)
           v == UnitCost(k, l)
           g == k * p * (100 - p)
<1>1. u \in Nat /\ v \in Nat /\ u <= v
  BY UnitCostGrows
<1>2. u = 2000000 * p + g /\ g \in Int
  BY DEF UnitCost
<1>3. FeeUnit * (fee - 1) < g * c
  OBVIOUS
<1> HIDE DEF u, v, g
<1>4. c * u <= c * v /\ c * u \in Nat /\ c * v \in Nat
  BY <1>1
<1>5. c * u = 2000000 * (p * c) + g * c /\ g * c \in Int /\ p * c \in Int
  BY <1>2
<1> QED BY <1>3, <1>4, <1>5 DEF FeeUnit, v

\* The fee of a price is the fee of its opposite.
LEMMA FeeMirrors ==
    ASSUME NEW series, NEW taker \in BOOLEAN, NEW price \in Int, NEW n \in Int
    PROVE  /\ Fee(series, taker, price, n) \in Int
           /\ Fee(series, taker, 100 - price, n) = Fee(series, taker, price, n)
<1> DEFINE r == (IF taker THEN 700 ELSE 175) * Multiplier(series, taker)
<1>1. r \in Int
  <2>1. Multiplier(series, taker) \in Int
    BY PricingAssumption DEF Multiplier
  <2> QED BY <2>1
<1>2. \A q \in Int : Fee(series, taker, q, n) = (r * n * q * (100 - q) + 20000 - 1) \div 20000
  BY DEF Fee, RoundedUp
<1> HIDE DEF r
<1>3. r * n * (100 - price) * (100 - (100 - price)) = r * n * price * (100 - price)
  <2>1. r * n \in Int
    BY <1>1
  <2> DEFINE m == r * n
  <2>2. m * (100 - price) * (100 - (100 - price)) = m * price * (100 - price)
    <3>1. m \in Int /\ 100 - (100 - price) = price
      BY <2>1
    <3> HIDE DEF m
    <3> QED BY <3>1
  <2> QED BY <2>2
<1>4. r * n * price * (100 - price) \in Int
  BY <1>1
<1> QED BY <1>2, <1>3, <1>4

\* The side of the price that the traded contracts cost: bought, or sold as the opposite.
CostOfSide(price, buying) == IF buying THEN price ELSE 100 - price
LossBound(series, limit, buying) ==
    UnitCost(700 * TakerMultiplier(series), CostOfSide(limit, buying))

LEMMA TakerMultiplierBounded ==
    ASSUME NEW series
    PROVE  700 * TakerMultiplier(series) \in 0 .. 700 * MostTaker
<1>1. TakerMultiplier(series) \in 0 .. MostTaker
  BY PricingAssumption DEF TakerMultiplier, Multiplier
<1> QED BY <1>1 DEF MostTaker

\* Each fill of a walk loses no more than its contracts cost at the limit, but for its
\* rounding.
LEMMA EachFillLoses ==
    ASSUME NEW hits, NEW buying \in BOOLEAN, NEW limit \in 1 .. 99, NEW n, NEW series,
           IsWalk(hits, buying, limit, series, n)
    PROVE  \A i \in DOMAIN hits :
              /\ Lost(hits[i], buying) \in Int
              /\ FeeUnit * Lost(hits[i], buying)
                    <= hits[i].contracts * LossBound(series, limit, buying) + FeeUnit
<1> TAKE i \in DOMAIN hits
<1> DEFINE k == 700 * TakerMultiplier(series)
           q == hits[i].price
           p == CostOfSide(q, buying)
           l == CostOfSide(limit, buying)
           c == hits[i].contracts
           fee == hits[i].fee
<1>1. q \in 1 .. 99 /\ c \in Nat /\ fee \in Nat /\ fee = TakerFee(series, q, c)
      /\ ~Through(buying, q, limit)
  BY DEF IsWalk
<1>2. k \in 0 .. 700 * MostTaker
  BY TakerMultiplierBounded
<1>3. FeeUnit * (fee - 1) < Charge(series, q) * c
  BY <1>1, FeeCovers
<1>4. Charge(series, q) = k * q * (100 - q)
  BY DEF Charge
<1>5. Lost(hits[i], buying) = p * c * 100 + fee
  BY DEF Lost, CostOfSide
<1> HIDE DEF k, q, c, fee
<1>6. p \in 1 .. 99 /\ l \in 1 .. 99 /\ p <= l /\ q \in Int /\ k \in Int
      /\ (p = q \/ p = 100 - q)
  BY <1>1, <1>2 DEF Through, CostOfSide, MostTaker
<1> HIDE DEF p, l
<1>7. k * q * (100 - q) = k * p * (100 - p)
  <2>1. CASE p = q
    BY <2>1
  <2>2. CASE p = 100 - q
    BY <1>6, <2>2
  <2> QED BY <1>6, <2>1, <2>2
<1>8. FeeUnit * (fee - 1) < k * p * (100 - p) * c
  BY <1>3, <1>4, <1>7
<1>9. FeeUnit * (p * c * 100 + fee) <= c * UnitCost(k, l) + FeeUnit
  BY <1>1, <1>2, <1>6, <1>8, FillLoses
<1>10. p * c * 100 + fee \in Int
  BY <1>1, <1>6
<1> QED BY <1>5, <1>9, <1>10 DEF LossBound, k, l, c

\* What is not a loss covers one.
LEMMA GrossCovers ==
    ASSUME NEW h, h.price \in 1 .. 99, h.contracts \in Nat, h.fee \in Nat,
           NEW buying \in BOOLEAN, NEW won \in BOOLEAN
    PROVE  /\ GrossOf(h, buying, won) \in Int /\ Lost(h, buying) \in Int
           /\ GrossOf(h, buying, won) - h.fee >= -Lost(h, buying)
<1> DEFINE a == IF buying THEN Worth(won) - h.price ELSE h.price - Worth(won)
           b == IF buying THEN h.price ELSE 100 - h.price
           c == h.contracts
<1>1. a \in Int /\ b \in Int /\ a + b >= 0 /\ c \in Nat /\ h.fee \in Int
  BY DEF Worth
<1>2. GrossOf(h, buying, won) = a * c * 100 /\ Lost(h, buying) = b * c * 100 + h.fee
  BY DEF GrossOf, Lost
<1> HIDE DEF a, b, c
<1>3. (a + b) * c >= 0 /\ (a + b) * c = a * c + b * c /\ a * c \in Int /\ b * c \in Int
  BY <1>1
<1> QED BY <1>1, <1>2, <1>3

\* No walk of a ticket's order loses more than its worst case and the rounding of each
\* fill.
LEMMA WalkLoses ==
    ASSUME NEW hits, NEW buying \in BOOLEAN, NEW limit \in 1 .. 99, NEW n \in Nat,
           NEW series, IsWalk(hits, buying, limit, series, n), NEW won \in BOOLEAN
    PROVE  ResultOf(hits, buying, won)
               >= -Ticket(series, TRUE, buying, limit, n).maxLoss - Cardinality(DOMAIN hits)
<1> DEFINE D == DOMAIN hits
           v == LossBound(series, limit, buying)
           worst == Ticket(series, TRUE, buying, limit, n).maxLoss
           lost == [i \in D |-> Lost(hits[i], buying)]
           scaled == [i \in D |-> FeeUnit * lost[i]]
           cs == [i \in D |-> hits[i].contracts]
           cost == [i \in D |-> v * cs[i]]
           ones == [i \in D |-> 1]
           units == [i \in D |-> FeeUnit * ones[i]]
           bound == [i \in D |-> cost[i] + units[i]]
           gross == [i \in D |-> GrossOf(hits[i], buying, won)]
           dues == [i \in D |-> hits[i].fee]
           less == [i \in D |-> (-1) * lost[i]]
           net == [i \in D |-> gross[i] + ((-1) * dues[i])]
           paid == [i \in D |-> (-1) * dues[i]]
<1>1. /\ IsFiniteSet(D)
      /\ \A i \in D : /\ hits[i].price \in 1 .. 99 /\ hits[i].contracts \in Nat
                      /\ hits[i].fee \in Nat
      /\ Filled(hits) = TotalOver(cs, D) /\ Filled(hits) \in Nat /\ Filled(hits) <= n
  BY DEF IsWalk, Filled, SumOf
<1>2. ResultOf(hits, buying, won) = TotalOver(gross, D) - TotalOver(dues, D)
  BY ResultParts
<1>3. v \in Nat /\ FeeUnit \in Nat /\ FeeUnit > 0
  <2> DEFINE k == 700 * TakerMultiplier(series)
             l == CostOfSide(limit, buying)
  <2>1. l \in 1 .. 99 /\ k \in 0 .. 700 * MostTaker /\ v = UnitCost(k, l)
    BY TakerMultiplierBounded DEF CostOfSide, LossBound
  <2> HIDE DEF k, l, v
  <2>2. l <= l
    BY <2>1
  <2>3. v \in Nat
    BY <2>1, <2>2, UnitCostGrows
  <2> QED BY <2>3 DEF FeeUnit
<1>4. FeeUnit * worst >= v * n /\ worst \in Int
  <2> DEFINE k == 700 * TakerMultiplier(series)
             l == CostOfSide(limit, buying)
             fee == TakerFee(series, limit, n)
  <2>1. k \in Nat
    <3>1. k \in 0 .. 700 * MostTaker
      BY TakerMultiplierBounded
    <3> HIDE DEF k
    <3> QED BY <3>1 DEF MostTaker
  <2>2. fee \in Nat /\ FeeUnit * fee >= Charge(series, limit) * n
    BY FeeCovers
  <2>3. Charge(series, limit) = k * limit * (100 - limit)
    BY DEF Charge
  <2>4. worst = l * n * 100 + fee
    BY DEF Ticket, TakerFee, CostOfSide
  <2>5. v = UnitCost(k, l)
    BY DEF LossBound
  <2>6. l \in Nat /\ (l = limit \/ l = 100 - limit)
    BY DEF CostOfSide
  <2> HIDE DEF k, l, fee, worst, v
  <2>7. k * limit * (100 - limit) = k * l * (100 - l) /\ k * l * (100 - l) \in Int
    BY <2>1, <2>6
  <2> DEFINE g == k * l * (100 - l)
  <2>8. FeeUnit * fee >= g * n /\ g \in Int /\ v = 2000000 * l + g
    BY <2>2, <2>3, <2>5, <2>7 DEF UnitCost
  <2> HIDE DEF g
  <2>9. v * n = 2000000 * (l * n) + g * n /\ l * n \in Int /\ g * n \in Int
    BY <2>6, <2>8
  <2> QED BY <2>2, <2>4, <2>8, <2>9 DEF FeeUnit
<1>5. \A i \in D : /\ lost[i] \in Int
                   /\ FeeUnit * lost[i] <= cs[i] * v + FeeUnit
  BY EachFillLoses
<1>6. \A i \in D : /\ gross[i] \in Int /\ dues[i] \in Int /\ gross[i] - dues[i] >= -lost[i]
  BY <1>1, GrossCovers
<1>7. \A i \in D : cs[i] \in Int /\ ones[i] = 1
  BY <1>1
<1> HIDE DEF D, v, worst, lost, cs, ones, gross, dues
<1>8. TotalOver(scaled, D) = FeeUnit * TotalOver(lost, D)
  BY <1>1, <1>3, <1>5, TotalOverScale
<1>9. TotalOver(cost, D) = v * TotalOver(cs, D)
  BY <1>1, <1>3, <1>7, TotalOverScale
<1>10. TotalOver(units, D) = FeeUnit * TotalOver(ones, D)
  BY <1>1, <1>3, <1>7, TotalOverScale
<1>11. TotalOver(ones, D) = Cardinality(D)
  BY <1>1, <1>7, TotalOverOnes
<1>12. TotalOver(bound, D) = TotalOver(cost, D) + TotalOver(units, D)
  <2>1. \A i \in D : cost[i] \in Int /\ units[i] \in Int /\ bound[i] = cost[i] + units[i]
    BY <1>3, <1>7
  <2> HIDE DEF cost, units, bound
  <2> QED BY <1>1, <2>1, TotalOverPlus
<1>13. TotalOver(scaled, D) <= TotalOver(bound, D)
  <2>1. \A i \in D : scaled[i] \in Int /\ bound[i] \in Int /\ scaled[i] <= bound[i]
    BY <1>3, <1>5, <1>7
  <2> HIDE DEF scaled, bound
  <2> QED BY <1>1, <2>1, TotalOverMonotone
<1>14. TotalOver(less, D) = (-1) * TotalOver(lost, D)
  BY <1>1, <1>5, TotalOverScale
<1>15. TotalOver(paid, D) = (-1) * TotalOver(dues, D)
  BY <1>1, <1>6, TotalOverScale
<1>16. TotalOver(net, D) = TotalOver(gross, D) + TotalOver(paid, D)
  <2>1. \A i \in D : gross[i] \in Int /\ paid[i] \in Int /\ net[i] = gross[i] + paid[i]
    BY <1>6
  <2> HIDE DEF paid, net
  <2> QED BY <1>1, <2>1, TotalOverPlus
<1>17. TotalOver(less, D) <= TotalOver(net, D)
  <2>1. \A i \in D : less[i] \in Int /\ net[i] \in Int /\ less[i] <= net[i]
    BY <1>5, <1>6
  <2> HIDE DEF less, net
  <2> QED BY <1>1, <2>1, TotalOverMonotone
<1>18. TotalOver(lost, D) \in Int /\ TotalOver(gross, D) \in Int /\ TotalOver(dues, D) \in Int
       /\ Cardinality(D) \in Nat
  BY <1>1, <1>5, <1>6, TotalOverInt, FS_CardinalityType
<1> HIDE DEF scaled, cost, units, bound, less, paid, net
<1> DEFINE x == TotalOver(lost, D)
           m == Cardinality(D)
<1>19. FeeUnit * x <= v * Filled(hits) + FeeUnit * m
  BY <1>1, <1>8, <1>9, <1>10, <1>11, <1>12, <1>13
<1>20. ResultOf(hits, buying, won) >= -x /\ ResultOf(hits, buying, won) \in Int
  BY <1>2, <1>14, <1>15, <1>16, <1>17, <1>18
<1>21. v * Filled(hits) <= v * n /\ v * Filled(hits) \in Int /\ v * n \in Int
  BY <1>1, <1>3
<1>22. x \in Int /\ m \in Int
  BY <1>18
<1> HIDE DEF x, m
<1>23. FeeUnit * x <= FeeUnit * worst + FeeUnit * m
  <2>1. FeeUnit * x \in Int /\ FeeUnit * worst \in Int /\ FeeUnit * m \in Int
    BY <1>3, <1>4, <1>22
  <2> QED BY <1>4, <1>19, <1>21, <2>1
<1>24. x <= worst + m
  BY <1>4, <1>22, <1>23 DEF FeeUnit
<1>25. ResultOf(hits, buying, won) >= -worst - m
  BY <1>4, <1>20, <1>22, <1>24
<1> QED BY <1>25 DEF worst, m, D

\* One fill is worth what it grosses, less its fee.
LEMMA OneFill ==
    ASSUME NEW h, h.fee \in Int, NEW buying, NEW won, GrossOf(h, buying, won) \in Int
    PROVE  ResultOf(<<h>>, buying, won) = GrossOf(h, buying, won) - h.fee
<1> DEFINE s == <<h>>
           gross == [i \in {1} |-> GrossOf(h, buying, won)]
           dues == [i \in {1} |-> h.fee]
<1>1. DOMAIN s = {1} /\ s[1] = h
  OBVIOUS
<1>2. /\ [i \in DOMAIN s |-> GrossOf(s[i], buying, won)] = gross
      /\ [i \in DOMAIN s |-> s[i].fee] = dues
  <2> HIDE DEF s
  <2> QED BY <1>1
<1>3. TotalOver(gross, {1}) = GrossOf(h, buying, won)
  <2>1. gross[1] = GrossOf(h, buying, won)
    OBVIOUS
  <2> HIDE DEF gross
  <2> QED BY <2>1, TotalOverOne
<1>4. TotalOver(dues, {1}) = h.fee
  <2>1. dues[1] = h.fee
    OBVIOUS
  <2> HIDE DEF dues
  <2> QED BY <2>1, TotalOverOne
<1>5. ResultOf(s, buying, won) =
          TotalOver([i \in DOMAIN s |-> GrossOf(s[i], buying, won)], DOMAIN s)
          - TotalOver([i \in DOMAIN s |-> s[i].fee], DOMAIN s)
  BY ResultParts
<1> HIDE DEF s, gross, dues
<1>6. ResultOf(s, buying, won) = TotalOver(gross, {1}) - TotalOver(dues, {1})
  BY <1>1, <1>2, <1>5
<1> QED BY <1>3, <1>4, <1>6 DEF s

\* The expectation of one fill, weighted with a fair value.
LEMMA FairAverage ==
    ASSUME NEW p \in Int, NEW n \in Int, NEW f \in Int, NEW fee \in Int
    PROVE  f * ((100 - p) * n * 100 - fee) + (100 - f) * ((0 - p) * n * 100 - fee)
               = 100 * ((f - p) * n * 100 - fee)
<1> DEFINE c == n * 100
<1>1. c \in Int /\ (100 - p) * n * 100 = (100 - p) * c /\ (0 - p) * n * 100 = (0 - p) * c
      /\ (f - p) * n * 100 = (f - p) * c
  OBVIOUS
<1> HIDE DEF c
<1>2. f * ((100 - p) * c - fee) + (100 - f) * ((0 - p) * c - fee) = 100 * ((f - p) * c - fee)
  BY <1>1
<1> QED BY <1>1, <1>2

\* What is known of a ticket that was written.
AskOK ==
    Written =>
        /\ ask.taker \in BOOLEAN /\ ask.buying \in BOOLEAN
        /\ ask.price \in 1 .. 99 /\ ask.contracts \in Nat
        /\ ask.fair \in Int /\ ask.slip \in Nat
        /\ ask.book \in [yes : Bids, no : Bids]

\* In one fill at its limit a ticket earns its best case or loses its worst, and its edge
\* before slippage in the average.
LEMMA HonestAtLimit ==
    ASSUME AskOK, Written
    PROVE  LET ticket == Ticket(ask.series, ask.taker, ask.buying, ask.price, ask.contracts)
               edge == EdgeOf(ask.series, ask.taker, ask.buying, ask.price, ask.contracts,
                              ask.fair, ask.slip)
               results == {AtLimit(won) : won \in BOOLEAN}
           IN /\ -ticket.maxLoss \in results /\ ticket.maxWin \in results
              /\ \A r \in results : -ticket.maxLoss <= r /\ r <= ticket.maxWin
              /\ ask.fair * AtLimit(TRUE) + (100 - ask.fair) * AtLimit(FALSE)
                   = 100 * (edge + ask.slip * ask.contracts * 100)
<1> DEFINE p == ask.price
           n == ask.contracts
           f == ask.fair
           slip == ask.slip
           buying == ask.buying
           fee == Fee(ask.series, ask.taker, p, n)
           ticket == Ticket(ask.series, ask.taker, buying, p, n)
           edge == EdgeOf(ask.series, ask.taker, buying, p, n, f, slip)
           h == [price |-> p, contracts |-> n, fee |-> fee]
<1>1. p \in 1 .. 99 /\ n \in Nat /\ f \in Int /\ slip \in Nat /\ buying \in BOOLEAN
      /\ ask.taker \in BOOLEAN
  BY DEF AskOK
<1>2. fee \in Int /\ Fee(ask.series, ask.taker, 100 - p, n) = fee
  BY <1>1, FeeMirrors
<1>3. \A won \in BOOLEAN : GrossOf(h, buying, won)
          = (IF buying THEN Worth(won) - p ELSE p - Worth(won)) * n * 100
  BY DEF GrossOf
<1>4. \A won \in BOOLEAN : GrossOf(h, buying, won) \in Int
  BY <1>1, <1>3 DEF Worth
<1>5. \A won \in BOOLEAN : AtLimit(won) = GrossOf(h, buying, won) - fee
  BY <1>2, <1>4, OneFill DEF AtLimit
<1>6. /\ buying => /\ ticket.maxLoss = p * n * 100 + fee
                   /\ ticket.maxWin = (100 - p) * n * 100 - fee
                   /\ edge = (f - p - slip) * n * 100 - fee
                   /\ AtLimit(TRUE) = (100 - p) * n * 100 - fee
                   /\ AtLimit(FALSE) = (0 - p) * n * 100 - fee
      /\ ~buying => /\ ticket.maxLoss = (100 - p) * n * 100 + fee
                    /\ ticket.maxWin = p * n * 100 - fee
                    /\ edge = ((100 - f) - (100 - p) - slip) * n * 100 - fee
                    /\ AtLimit(TRUE) = (p - 100) * n * 100 - fee
                    /\ AtLimit(FALSE) = (p - 0) * n * 100 - fee
  BY <1>2, <1>3, <1>5 DEF Ticket, EdgeOf, NetEdge, Worth
<1> HIDE DEF p, n, f, slip, buying, fee, ticket, edge, h
<1> DEFINE a == p * n * 100
           b == (100 - p) * n * 100
           t == AtLimit(TRUE)
           u == AtLimit(FALSE)
           m == ticket.maxLoss
           w == ticket.maxWin
           results == {AtLimit(won) : won \in BOOLEAN}
<1>7. results = {t, u}
  OBVIOUS
<1>8. a \in Int /\ b \in Int /\ a + b >= 0 /\ (0 - p) * n * 100 = -a
      /\ (p - 100) * n * 100 = -b /\ (p - 0) * n * 100 = a
  <2>1. a + b = 10000 * n /\ a \in Int /\ b \in Int
    BY <1>1
  <2>2. (0 - p) * n * 100 = -a /\ (p - 100) * n * 100 = -b /\ (p - 0) * n * 100 = a
    BY <1>1
  <2> HIDE DEF a, b
  <2> QED BY <1>1, <2>1, <2>2
<1>11. /\ buying => m = a + fee /\ w = b - fee /\ t = b - fee /\ u = -a - fee
       /\ ~buying => m = b + fee /\ w = a - fee /\ t = -b - fee /\ u = a - fee
  <2>1. /\ buying => m = a + fee /\ w = b - fee /\ t = b - fee /\ u = (0 - p) * n * 100 - fee
        /\ ~buying => m = b + fee /\ w = a - fee /\ t = (p - 100) * n * 100 - fee
                      /\ u = (p - 0) * n * 100 - fee
    BY <1>6
  <2> HIDE DEF a, b, t, u, m, w
  <2> QED BY <1>8, <2>1
<1>12. f * t + (100 - f) * u = 100 * (edge + slip * n * 100)
  <2>1. CASE buying
    <3> DEFINE x == (100 - p) * n * 100 - fee
               y == (0 - p) * n * 100 - fee
               z == (f - p) * n * 100
    <3>1. f * x + (100 - f) * y = 100 * (z - fee)
      BY <1>1, <1>2, FairAverage
    <3>2. t = x /\ u = y
      BY <1>6, <2>1
    <3>3. (f - p - slip) * n * 100 + slip * n * 100 = z
          /\ (f - p - slip) * n * 100 \in Int /\ slip * n * 100 \in Int /\ z \in Int
      BY <1>1
    <3>4. edge = (f - p - slip) * n * 100 - fee
      BY <1>6, <2>1
    <3> HIDE DEF x, y, z, t, u
    <3>5. edge + slip * n * 100 = z - fee
      BY <1>2, <3>3, <3>4
    <3> QED BY <3>1, <3>2, <3>5
  <2>2. CASE ~buying
    <3> DEFINE q == 100 - p
               g == 100 - f
               x == (100 - q) * n * 100 - fee
               y == (0 - q) * n * 100 - fee
               z == (g - q) * n * 100
    <3>1. q \in Int /\ g \in Int /\ p - 0 = 100 - q /\ p - 100 = 0 - q /\ f = 100 - g
      BY <1>1
    <3>2. g * x + (100 - g) * y = 100 * (z - fee)
      <4> HIDE DEF q, g
      <4> QED BY <1>1, <1>2, <3>1, FairAverage
    <3>3. t = y /\ u = x
      BY <1>6, <2>2, <3>1
    <3>4. (g - q - slip) * n * 100 + slip * n * 100 = z
          /\ (g - q - slip) * n * 100 \in Int /\ slip * n * 100 \in Int /\ z \in Int
      <4> HIDE DEF q, g
      <4> QED BY <1>1, <3>1
    <3>5. edge = (g - q - slip) * n * 100 - fee
      BY <1>6, <2>2
    <3>6. x \in Int /\ y \in Int
      <4> HIDE DEF q
      <4> QED BY <1>1, <1>2, <3>1
    <3> HIDE DEF x, y, z, t, u, q
    <3>7. edge + slip * n * 100 = z - fee
      BY <1>2, <3>4, <3>5
    <3>8. f * y + g * x = 100 * (z - fee)
      <4>1. 100 - g = f
        BY <1>1, <3>1
      <4>2. g * x \in Int /\ f * y \in Int /\ g * x + f * y = 100 * (z - fee)
        <5> HIDE DEF g
        <5> QED BY <1>1, <3>1, <3>2, <3>6, <4>1
      <4> HIDE DEF g
      <4> QED BY <4>2
    <3> QED BY <3>3, <3>7, <3>8
  <2> QED BY <2>1, <2>2
<1> HIDE DEF a, b, t, u, m, w, results
<1>9. -m \in results /\ w \in results /\ \A r \in results : -m <= r /\ r <= w
  <2>1. CASE buying
    <3>1. -m = u /\ w = t /\ u <= t /\ u \in Int /\ t \in Int
      BY <1>2, <1>8, <1>11, <2>1
    <3> QED BY <1>7, <3>1
  <2>2. CASE ~buying
    <3>1. -m = t /\ w = u /\ t <= u /\ u \in Int /\ t \in Int
      BY <1>2, <1>8, <1>11, <2>2
    <3> QED BY <1>7, <3>1
  <2> QED BY <2>1, <2>2
<1> QED BY <1>9, <1>12 DEF p, n, f, slip, buying, ticket, edge, t, u, m, w, results

LEMMA TicketedOK ==
    ASSUME NEW series, NEW pick, pick.price \in Int, pick.fair \in Int, pick.depth \in Int,
           NEW slip \in Slips, NEW headroom \in Headrooms,
           Ticketed(series, pick, slip, headroom)
    PROVE  AskOK'
<1> DEFINE cost == AllInCost(series, pick.price, Probe, slip)
           size == RecommendSize(pick.fair, cost, Probe, Bankroll, KellyDivisor, MarketShare,
                                 headroom, pick.depth)
<1>1. /\ Tradeable(pick.price) /\ size > 0
      /\ ask'.taker = TRUE /\ ask'.buying = TRUE /\ ask'.price = pick.price
      /\ ask'.contracts = size /\ ask'.fair = pick.fair /\ ask'.slip = slip
      /\ ask'.book \in TicketBooks
  BY DEF Ticketed
<1>2. pick.price \in 1 .. 99 /\ slip \in Nat /\ headroom \in Int
  BY <1>1, TicketBounds DEF Tradeable
<1>3. cost \in Nat /\ cost > 0
  BY <1>2, CostFacts
<1> HIDE DEF cost
<1>4. size = RecommendSize(pick.fair, cost, Probe, Bankroll, KellyDivisor, MarketShare,
                           headroom, pick.depth)
  OBVIOUS
<1> HIDE DEF size
<1>5. size \in Nat
  <2>1. FitsStake(size, cost, headroom)
    BY <1>1, <1>2, <1>3, <1>4, SizeFits
  <2> QED BY <2>1 DEF FitsStake
<1>6. ask'.book \in [yes : Bids, no : Bids]
  BY <1>1, TicketAssumption
<1> QED BY <1>1, <1>2, <1>5, <1>6 DEF AskOK

LEMMA AskKept ==
    ASSUME AskOK, [TicketNext]_ask
    PROVE  AskOK'
<1>1. CASE Quote
  <2>1. PICK series \in TicketSeries, side \in {"yes", "no"}, taker \in BOOLEAN,
             buying \in BOOLEAN, price \in TicketPrices, fair \in Fairs,
             contracts \in TicketSizes, slip \in Slips, book \in TicketBooks :
           ask' = [by |-> "operator", series |-> series, side |-> side, taker |-> taker,
                   buying |-> buying, price |-> price, fair |-> fair,
                   contracts |-> contracts, slip |-> slip, book |-> book]
    BY <1>1 DEF Quote
  <2>2. price \in 1 .. 99 /\ fair \in Int /\ contracts \in Nat /\ slip \in Nat
        /\ book \in [yes : Bids, no : Bids]
    BY TicketAssumption
  <2>3. /\ ask'.taker = taker /\ ask'.buying = buying /\ ask'.price = price
        /\ ask'.contracts = contracts /\ ask'.fair = fair /\ ask'.slip = slip
        /\ ask'.book = book
    BY <2>1
  <2> QED BY <2>2, <2>3 DEF AskOK
<1>2. ASSUME NEW quote \in MarketQuotes
      PROVE  quote.bid \in Int /\ quote.ask \in Int /\ quote.bidSize \in Int
             /\ quote.askSize \in Int
  BY TicketAssumption
<1>3. CASE DetectStale
  <2>1. PICK series \in TicketSeries, yes \in BOOLEAN, fair \in Fairs,
             quote \in MarketQuotes, slip \in Slips, headroom \in Headrooms :
           Ticketed(series, StaleSide(yes, fair, quote), slip, headroom)
    BY <1>3 DEF DetectStale
  <2> DEFINE pick == StaleSide(yes, fair, quote)
  <2>2. pick.price \in Int /\ pick.fair \in Int /\ pick.depth \in Int
    BY <1>2, TicketBounds DEF StaleSide
  <2> HIDE DEF pick
  <2> QED BY <2>1, <2>2, TicketedOK DEF pick
<1>4. CASE DetectWeather
  <2>1. PICK series \in TicketSeries, fair \in Fairs, quote \in MarketQuotes,
             slip \in Slips, headroom \in Headrooms :
           Ticketed(series, WeatherSide(fair, quote), slip, headroom)
    BY <1>4 DEF DetectWeather
  <2> DEFINE pick == WeatherSide(fair, quote)
  <2>2. pick.price \in Int /\ pick.fair \in Int /\ pick.depth \in Int
    BY <1>2, TicketBounds DEF WeatherSide
  <2> HIDE DEF pick
  <2> QED BY <2>1, <2>2, TicketedOK DEF pick
<1>5. CASE UNCHANGED ask
  BY <1>5 DEF AskOK, Written
<1> QED
  BY <1>1, <1>3, <1>4, <1>5 DEF TicketNext

LEMMA HonestOnPaper ==
    ASSUME AskOK, Written, ask.taker, NEW won \in BOOLEAN
    PROVE  ResultOf(PaperFills, ask.buying, won)
               >= -Ticket(ask.series, ask.taker, ask.buying, ask.price, ask.contracts).maxLoss
                  - Cardinality(DOMAIN PaperFills)
<1>1. /\ ask.taker = TRUE /\ ask.buying \in BOOLEAN /\ ask.price \in 1 .. 99
      /\ ask.contracts \in Nat /\ ask.slip \in Int /\ ask.book \in [yes : Bids, no : Bids]
  BY DEF AskOK
<1>2. IsWalk(PaperFills, ask.buying, ask.price, ask.series, ask.contracts)
  BY <1>1, FillsAreAWalk DEF PaperFills
<1>3. ResultOf(PaperFills, ask.buying, won)
          >= -Ticket(ask.series, TRUE, ask.buying, ask.price, ask.contracts).maxLoss
             - Cardinality(DOMAIN PaperFills)
  BY <1>1, <1>2, WalkLoses
<1> QED BY <1>1, <1>3

\* What a ticket says of itself is what the ledger will say of it, for all fees, prices and
\* books: its cases are the two ways it settles, its edge is their average, and no walk of
\* a book loses more than the worst case and the rounding of each fill (pricing.py
\* price_ticket against paper.py simulate_fills).
THEOREM TicketsAreHonest == TicketSpec => []TicketIsHonest
<1>1. TicketInit => AskOK
  BY DEF TicketInit, NoTicket, AskOK, Written
<1>2. AskOK /\ [TicketNext]_ask => AskOK'
  BY AskKept
<1>3. AskOK => TicketIsHonest
  <2> SUFFICES ASSUME AskOK, Written PROVE TicketIsHonest
    BY DEF TicketIsHonest
  <2>1. ask.taker => \A won \in BOOLEAN :
           ResultOf(PaperFills, ask.buying, won)
               >= -Ticket(ask.series, ask.taker, ask.buying, ask.price, ask.contracts).maxLoss
                  - Cardinality(DOMAIN PaperFills)
    BY HonestOnPaper
  <2> QED BY <2>1, HonestAtLimit DEF TicketIsHonest
<1> QED
  BY <1>1, <1>2, <1>3, PTL DEF TicketSpec

-------------------------------------------------------------------------------
(* What a set earns                                                            *)

\* What contracts are worth, or cost, once their side paid or did not.
Value(buying, won, count, notional, dues) ==
    (IF buying THEN 100 * Worth(won) * count - notional
     ELSE notional - 100 * Worth(won) * count) - dues

\* A walk earns what it filled, at what it paid.
LEMMA WalkEarns ==
    ASSUME NEW hits, NEW buying \in BOOLEAN, NEW limit, NEW n, NEW series,
           IsWalk(hits, buying, limit, series, n), NEW won \in BOOLEAN
    PROVE  /\ Notional(hits) \in Int /\ Fees(hits) \in Int
           /\ ResultOf(hits, buying, won)
                = Value(buying, won, Filled(hits), Notional(hits), Fees(hits))
<1> DEFINE D == DOMAIN hits
           k == 100 * Worth(won)
           cs == [i \in D |-> hits[i].contracts]
           notional == [i \in D |-> hits[i].price * hits[i].contracts * 100]
           worth == [i \in D |-> k * cs[i]]
           gross == [i \in D |-> GrossOf(hits[i], buying, won)]
           dues == [i \in D |-> hits[i].fee]
           cost == [i \in D |-> (-1) * notional[i]]
           owed == [i \in D |-> (-1) * worth[i]]
<1>1. /\ IsFiniteSet(D) /\ k \in Int
      /\ \A i \in D : /\ hits[i].price \in Int /\ hits[i].contracts \in Int
                      /\ hits[i].fee \in Int
  BY DEF IsWalk, Worth
<1>2. /\ Filled(hits) = TotalOver(cs, D) /\ Notional(hits) = TotalOver(notional, D)
      /\ Fees(hits) = TotalOver(dues, D)
      /\ ResultOf(hits, buying, won) = TotalOver(gross, D) - TotalOver(dues, D)
  BY ResultParts DEF Filled, Notional, Fees, SumOf
<1>3. \A i \in D : /\ cs[i] \in Int /\ notional[i] \in Int /\ dues[i] \in Int
  BY <1>1
<1>4. /\ buying => \A i \in D : gross[i] = worth[i] + cost[i]
      /\ ~buying => \A i \in D : gross[i] = notional[i] + owed[i]
  <2> SUFFICES ASSUME NEW i \in D
               PROVE  /\ buying => gross[i] = worth[i] + cost[i]
                      /\ ~buying => gross[i] = notional[i] + owed[i]
    OBVIOUS
  <2> DEFINE p == hits[i].price
             c == hits[i].contracts
             v == Worth(won)
  <2>1. p \in Int /\ c \in Int /\ v \in Int
    BY <1>1 DEF Worth
  <2>2. /\ gross[i] = (IF buying THEN v - p ELSE p - v) * c * 100
        /\ worth[i] = 100 * v * c /\ cost[i] = (-1) * (p * c * 100)
        /\ notional[i] = p * c * 100 /\ owed[i] = (-1) * (100 * v * c)
    BY DEF GrossOf
  <2> HIDE DEF p, c, v, gross, worth, cost, notional, owed
  <2>3. (v - p) * c * 100 = 100 * v * c + (-1) * (p * c * 100)
        /\ (p - v) * c * 100 = p * c * 100 + (-1) * (100 * v * c)
    BY <2>1
  <2> QED BY <2>2, <2>3
<1> HIDE DEF D, k, cs, notional, gross, dues
<1>5. TotalOver(worth, D) = k * TotalOver(cs, D)
  BY <1>1, <1>3, TotalOverScale
<1>6. TotalOver(cost, D) = (-1) * TotalOver(notional, D)
  BY <1>1, <1>3, TotalOverScale
<1>7. \A i \in D : worth[i] \in Int /\ cost[i] \in Int
  BY <1>1, <1>3
<1>8. TotalOver(owed, D) = (-1) * TotalOver(worth, D)
  <2> HIDE DEF worth
  <2> QED BY <1>1, <1>7, TotalOverScale
<1>9. \A i \in D : owed[i] \in Int
  BY <1>7
<1>10. /\ TotalOver(cs, D) \in Int /\ TotalOver(notional, D) \in Int
       /\ TotalOver(dues, D) \in Int
  BY <1>1, <1>3, TotalOverInt
<1> HIDE DEF worth, cost, owed
<1>11. CASE buying
  <2>1. TotalOver(gross, D) = TotalOver(worth, D) + TotalOver(cost, D)
    BY <1>1, <1>4, <1>7, <1>11, TotalOverPlus
  <2>2. ResultOf(hits, buying, won)
            = k * Filled(hits) - Notional(hits) - Fees(hits)
    BY <1>1, <1>2, <1>5, <1>6, <1>10, <2>1
  <2> QED BY <1>2, <1>10, <1>11, <2>2 DEF Value, k
<1>12. CASE ~buying
  <2>1. TotalOver(gross, D) = TotalOver(notional, D) + TotalOver(owed, D)
    BY <1>1, <1>3, <1>4, <1>9, <1>12, TotalOverPlus
  <2>2. ResultOf(hits, buying, won)
            = Notional(hits) - k * Filled(hits) - Fees(hits)
    BY <1>1, <1>2, <1>5, <1>8, <1>10, <2>1
  <2> QED BY <1>2, <1>10, <1>12, <2>2 DEF Value, k
<1> QED BY <1>11, <1>12

\* A finding is the price of a set that every leg's book fills.
SetOK ==
    /\ books \in [Legs -> [yes : Bids, no : Bids]] /\ exhaustive \in BOOLEAN
    /\ scanned = "found" =>
          \E buying \in BOOLEAN, size \in CandidateSizes :
             finding = PriceSet(buying, size) /\ Fillable(buying, size) /\ (buying => exhaustive)

LEMMA SetFacts ==
    /\ IsFiniteSet(Legs) /\ Legs # {} /\ CandidateSizes \subseteq Nat /\ Slippage \in Int
    /\ \A book \in LegBooks : book \in [yes : Bids, no : Bids]
<1>1. Legs # {}
  BY SetAssumption, FS_EmptySet
<1> QED BY <1>1, SetAssumption

LEMMA SetKept ==
    ASSUME SetOK, [SetNext]_setVars
    PROVE  SetOK'
<1>1. CASE ReadBooks
  <2>1. books' \in [Legs -> LegBooks] /\ scanned' = "read" /\ exhaustive' = exhaustive
    BY <1>1 DEF ReadBooks
  <2>2. books' \in [Legs -> [yes : Bids, no : Bids]]
    <3> DEFINE B == [yes : Bids, no : Bids]
    <3>1. LegBooks \subseteq B
      BY SetFacts
    <3> HIDE DEF B
    <3>2. books' \in [Legs -> B]
      BY <2>1, <3>1
    <3> QED BY <3>2 DEF B
  <2> QED BY <2>1, <2>2 DEF SetOK
<1>2. ASSUME NEW buying \in BOOLEAN, Find(buying)
      PROVE  SetOK'
  <2>1. PICK opp \in Best(buying) : finding' = opp
    BY <1>2 DEF Find
  <2>2. PICK size \in CandidateSizes : opp = PriceSet(buying, size) /\ Fillable(buying, size)
    BY <2>1 DEF Best, Priced
  <2>3. books' = books /\ exhaustive' = exhaustive /\ (buying => exhaustive)
    BY <1>2 DEF Find
  <2>4. PriceSet(buying, size)' = PriceSet(buying, size)
    BY <2>3 DEF PriceSet
  <2>5. Fillable(buying, size)' <=> Fillable(buying, size)
    BY <2>3 DEF Fillable
  <2> QED BY <2>1, <2>2, <2>3, <2>4, <2>5 DEF SetOK
<1>3. CASE UNCHANGED setVars
  <2>1. books' = books /\ exhaustive' = exhaustive /\ scanned' = scanned /\ finding' = finding
    BY <1>3 DEF setVars
  <2>2. ASSUME NEW buying \in BOOLEAN, NEW size \in CandidateSizes
        PROVE  /\ PriceSet(buying, size)' = PriceSet(buying, size)
               /\ Fillable(buying, size)' <=> Fillable(buying, size)
    BY <2>1 DEF PriceSet, Fillable
  <2> QED BY <2>1, <2>2 DEF SetOK
<1> QED BY <1>1, <1>2, <1>3 DEF SetNext

\* What a leg of a priced set comes to.
LEMMA LegEarns ==
    ASSUME SetOK, NEW buying \in BOOLEAN, NEW size \in CandidateSizes,
           Fillable(buying, size), NEW leg \in Legs, NEW won \in BOOLEAN
    PROVE  LET f == PriceSet(buying, size)
           IN /\ Notional(f.hits[leg]) \in Int /\ Fees(f.hits[leg]) \in Int
              /\ LegResult(f, leg, won) = Value(buying, won, size, Notional(f.hits[leg]),
                                                Fees(f.hits[leg]))
<1> DEFINE f == PriceSet(buying, size)
           limit == IF buying THEN 100 ELSE 0
           walk == Walk(books[leg], buying, size)
<1>1. f.hits[leg] = walk /\ ((f.direction = "buy") = buying)
  BY DEF PriceSet
<1>2. books[leg] \in [yes : Bids, no : Bids] /\ size \in Nat /\ Slippage \in Int
  BY SetFacts DEF SetOK
<1>3. walk = SimulateFills(books[leg], "yes", buying, limit, size, LegSeries, Slippage)
  BY DEF Walk
<1> HIDE DEF limit
<1>4. IsWalk(walk, buying, limit, LegSeries, size)
  BY <1>2, <1>3, FillsAreAWalk
<1>5. Filled(walk) = size
  BY DEF Fillable
<1> HIDE DEF walk, f
<1>6. /\ Notional(walk) \in Int /\ Fees(walk) \in Int
      /\ ResultOf(walk, buying, won)
             = Value(buying, won, Filled(walk), Notional(walk), Fees(walk))
  BY <1>4, WalkEarns
<1>7. LegResult(f, leg, won) = ResultOf(walk, buying, won)
  BY <1>1 DEF LegResult
<1> QED BY <1>1, <1>5, <1>6, <1>7 DEF f

\* What a set comes to, by how many of its legs resolved YES.
SetValue(f, buying, winners) ==
    (IF buying THEN 10000 * f.size * winners - f.gross
     ELSE f.gross - 10000 * f.size * winners) - f.fees

LEMMA SetEarns ==
    ASSUME SetOK, NEW buying \in BOOLEAN, NEW size \in CandidateSizes, Fillable(buying, size)
    PROVE  LET f == PriceSet(buying, size)
           IN /\ f.gross \in Int /\ f.fees \in Int /\ f.size = size /\ size \in Nat
              /\ SetResult(f, {}) = SetValue(f, buying, 0)
              /\ \A w \in Legs : SetResult(f, {w}) = SetValue(f, buying, 1)
<1> DEFINE f == PriceSet(buying, size)
           notional == [leg \in Legs |-> Notional(f.hits[leg])]
           dues == [leg \in Legs |-> Fees(f.hits[leg])]
           owed == [leg \in Legs |-> (-1) * notional[leg]]
           charged == [leg \in Legs |-> (-1) * dues[leg]]
           base == [leg \in Legs |-> (IF buying THEN owed[leg] ELSE notional[leg])
                                     + charged[leg]]
           k == IF buying THEN 10000 * size ELSE (-1) * (10000 * size)
           result(W) == [leg \in Legs |-> LegResult(f, leg, leg \in W)]
<1>1. f.gross = TotalOver(notional, Legs) /\ f.fees = TotalOver(dues, Legs) /\ f.size = size
  BY DEF PriceSet, OverLegs
<1>2. size \in Nat /\ k \in Int /\ IsFiniteSet(Legs)
  BY SetFacts
<1>3. \A W : SetResult(f, W) = TotalOver(result(W), Legs)
  BY DEF SetResult, OverLegs
<1>4. ASSUME NEW leg \in Legs, NEW won \in BOOLEAN
      PROVE  /\ notional[leg] \in Int /\ dues[leg] \in Int
             /\ LegResult(f, leg, won) = base[leg] + (IF won THEN k ELSE 0)
  <2>1. /\ Notional(f.hits[leg]) \in Int /\ Fees(f.hits[leg]) \in Int
        /\ LegResult(f, leg, won) = Value(buying, won, size, Notional(f.hits[leg]),
                                          Fees(f.hits[leg]))
    BY LegEarns
  <2>2. notional[leg] = Notional(f.hits[leg]) /\ dues[leg] = Fees(f.hits[leg])
    OBVIOUS
  <2>3. base[leg] = (IF buying THEN (-1) * notional[leg] ELSE notional[leg]) + (-1) * dues[leg]
    OBVIOUS
  <2> HIDE DEF f, notional, dues, base
  <2>4. LegResult(f, leg, won) = Value(buying, won, size, notional[leg], dues[leg])
    BY <2>1, <2>2
  <2>5. CASE won
    BY <1>2, <2>1, <2>2, <2>3, <2>4, <2>5 DEF Value, Worth
  <2>6. CASE ~won
    BY <1>2, <2>1, <2>2, <2>3, <2>4, <2>6 DEF Value, Worth
  <2> QED BY <2>1, <2>2, <2>5, <2>6
<1>5. \A leg \in Legs : /\ notional[leg] \in Int /\ dues[leg] \in Int /\ base[leg] \in Int
  <2> TAKE leg \in Legs
  <2>1. notional[leg] \in Int /\ dues[leg] \in Int
    BY <1>4
  <2> HIDE DEF notional, dues
  <2> QED BY <2>1
<1>6. \A W : \A leg \in Legs : result(W)[leg] = base[leg] + (IF leg \in W THEN k ELSE 0)
  <2> SUFFICES ASSUME NEW W, NEW leg \in Legs
               PROVE  result(W)[leg] = base[leg] + (IF leg \in W THEN k ELSE 0)
    OBVIOUS
  <2>1. result(W)[leg] = LegResult(f, leg, leg \in W)
    OBVIOUS
  <2> HIDE DEF base, k, f, result
  <2>2. CASE leg \in W
    <3>1. (leg \in W) = TRUE
      BY <2>2
    <3> QED BY <1>4, <2>1, <3>1
  <2>3. CASE leg \notin W
    <3>1. (leg \in W) = FALSE
      BY <2>3
    <3> QED BY <1>4, <2>1, <3>1
  <2> QED BY <2>2, <2>3
<1> HIDE DEF f, notional, dues, result, k
<1>7. TotalOver(owed, Legs) = (-1) * TotalOver(notional, Legs)
  BY <1>2, <1>5, TotalOverScale
<1>8. TotalOver(charged, Legs) = (-1) * TotalOver(dues, Legs)
  BY <1>2, <1>5, TotalOverScale
<1>9. TotalOver(notional, Legs) \in Int /\ TotalOver(dues, Legs) \in Int
  BY <1>2, <1>5, TotalOverInt
<1>10. \A leg \in Legs : /\ owed[leg] \in Int /\ charged[leg] \in Int
                         /\ base[leg] = (IF buying THEN owed[leg] ELSE notional[leg])
                                        + charged[leg]
  BY <1>5
<1> HIDE DEF owed, charged, base
<1>11. TotalOver(base, Legs) =
           (IF buying THEN (-1) * TotalOver(notional, Legs) ELSE TotalOver(notional, Legs))
           - TotalOver(dues, Legs)
  <2>1. CASE buying
    <3>1. \A leg \in Legs : base[leg] = owed[leg] + charged[leg]
      BY <1>10, <2>1
    <3>2. TotalOver(base, Legs) = TotalOver(owed, Legs) + TotalOver(charged, Legs)
      BY <1>2, <1>10, <3>1, TotalOverPlus
    <3> QED BY <1>7, <1>8, <1>9, <2>1, <3>2
  <2>2. CASE ~buying
    <3>1. \A leg \in Legs : base[leg] = notional[leg] + charged[leg]
      BY <1>10, <2>2
    <3>2. TotalOver(base, Legs) = TotalOver(notional, Legs) + TotalOver(charged, Legs)
      BY <1>2, <1>5, <1>10, <3>1, TotalOverPlus
    <3> QED BY <1>8, <1>9, <2>2, <3>2
  <2> QED BY <2>1, <2>2
<1>12. SetResult(f, {}) = TotalOver(base, Legs)
  <2> DEFINE r == result({})
  <2>1. \A leg \in Legs : r[leg] = base[leg] + 0
    BY <1>6
  <2>2. SetResult(f, {}) = TotalOver(r, Legs)
    BY <1>3
  <2> HIDE DEF r
  <2>3. \A leg \in Legs : base[leg] \in Int /\ base[leg] = r[leg]
    BY <1>5, <2>1
  <2>4. TotalOver(base, Legs) = TotalOver(r, Legs)
    BY <1>2, <2>3, TotalOverSame
  <2> QED BY <2>2, <2>4
<1>13. ASSUME NEW w \in Legs
       PROVE  SetResult(f, {w}) = TotalOver(base, Legs) + k
  <2> DEFINE r == result({w})
             lone == [leg \in Legs |-> IF leg = w THEN k ELSE 0]
  <2>1. \A leg \in Legs : r[leg] = base[leg] + lone[leg] /\ lone[leg] \in Int
    BY <1>2, <1>6
  <2>2. SetResult(f, {w}) = TotalOver(r, Legs)
    BY <1>3
  <2>3. \A leg \in Legs : lone[leg] = IF leg = w THEN k ELSE 0
    OBVIOUS
  <2> HIDE DEF r, lone
  <2>4. TotalOver(lone, Legs) = k
    BY <1>2, <2>3, TotalOverLone
  <2>5. TotalOver(r, Legs) = TotalOver(base, Legs) + TotalOver(lone, Legs)
    BY <1>2, <1>5, <2>1, TotalOverPlus
  <2> QED BY <2>2, <2>4, <2>5
<1>14. SetResult(f, {}) = SetValue(f, buying, 0)
  <2>1. SetValue(f, buying, 0) = (IF buying THEN 0 - f.gross ELSE f.gross - 0) - f.fees
    BY <1>1, <1>2 DEF SetValue
  <2> QED BY <1>1, <1>9, <1>11, <1>12, <2>1
<1>15. \A w \in Legs : SetResult(f, {w}) = SetValue(f, buying, 1)
  <2> TAKE w \in Legs
  <2>1. SetValue(f, buying, 1)
            = (IF buying THEN 10000 * size - f.gross ELSE f.gross - 10000 * size) - f.fees
    BY <1>1, <1>2 DEF SetValue
  <2>2. SetResult(f, {w}) = TotalOver(base, Legs) + k
    BY <1>13
  <2> QED BY <1>1, <1>2, <1>9, <1>11, <2>1, <2>2 DEF k
<1> QED BY <1>1, <1>2, <1>9, <1>14, <1>15 DEF f

LEMMA EdgeIsWorst ==
    ASSUME SetOK
    PROVE  SetEdgeIsWorstCase
<1> SUFFICES ASSUME scanned = "found"
             PROVE  LET ways == {W \in SUBSET Legs : /\ Cardinality(W) <= 1
                                                         /\ (exhaustive => W # {})}
                    IN /\ \A W \in ways : /\ SetResult(finding, W) >= finding.edge
                                              /\ SetResult(finding, W) >= -MaxLoss(finding)
                       /\ \E W \in ways : SetResult(finding, W) = finding.edge
  BY DEF SetEdgeIsWorstCase
<1>1. PICK buying \in BOOLEAN, size \in CandidateSizes :
         finding = PriceSet(buying, size) /\ Fillable(buying, size) /\ (buying => exhaustive)
  BY DEF SetOK
<1> DEFINE f == finding
           lost == IF buying THEN f.gross ELSE 10000 * size - f.gross
           worst == (IF lost > 0 THEN lost ELSE 0) + f.fees
<1>2. /\ f.gross \in Int /\ f.fees \in Int /\ f.size = size /\ size \in Nat
      /\ SetResult(f, {}) = SetValue(f, buying, 0)
      /\ \A w \in Legs : SetResult(f, {w}) = SetValue(f, buying, 1)
  BY <1>1, SetEarns
<1>3. f.edge = SetValue(f, buying, 1)
  <2>1. f.edge = (IF buying THEN 10000 * size - f.gross ELSE f.gross - 10000 * size) - f.fees
    BY <1>1 DEF PriceSet
  <2>2. 10000 * f.size * 1 = 10000 * size
    BY <1>2
  <2> QED BY <2>1, <2>2 DEF SetValue
<1>4. MaxLoss(f) = worst
  <2>1. (f.direction = "sell") = ~buying
    BY <1>1 DEF PriceSet
  <2>2. f.size = size
    BY <1>2
  <2> HIDE DEF f
  <2> QED BY <2>1, <2>2 DEF MaxLoss
<1> HIDE DEF f
<1>5. /\ SetValue(f, buying, 1) >= -worst
      /\ ~buying => /\ SetValue(f, buying, 0) >= SetValue(f, buying, 1)
                    /\ SetValue(f, buying, 0) >= -worst
  <2>1. /\ SetValue(f, buying, 1)
             = (IF buying THEN 10000 * size - f.gross ELSE f.gross - 10000 * size) - f.fees
        /\ ~buying => SetValue(f, buying, 0) = f.gross - f.fees
    BY <1>2 DEF SetValue
  <2> QED BY <1>2, <2>1
<1> HIDE DEF worst, lost
<1>6. ASSUME NEW W \in SUBSET Legs, Cardinality(W) <= 1, exhaustive => W # {}
      PROVE  SetResult(f, W) >= f.edge /\ SetResult(f, W) >= -MaxLoss(f)
  <2>1. IsFiniteSet(W) /\ Cardinality(W) \in Nat
    BY SetFacts, FS_Subset, FS_CardinalityType
  <2>2. CASE W = {}
    BY <1>1, <1>2, <1>3, <1>4, <1>5, <1>6, <2>2
  <2>3. CASE W # {}
    <3>1. Cardinality(W) = 1
      <4>1. Cardinality(W) # 0
        BY <2>1, <2>3, FS_EmptySet
      <4> QED BY <1>6, <2>1, <4>1
    <3>2. PICK w : W = {w}
      BY <2>1, <3>1, FS_Singleton
    <3>3. SetResult(f, W) = SetValue(f, buying, 1)
      BY <1>2, <3>2
    <3>4. SetValue(f, buying, 1) \in Int
      BY <1>2 DEF SetValue
    <3> QED BY <1>3, <1>4, <1>5, <3>3, <3>4
  <2> QED BY <2>2, <2>3
<1>7. PICK w \in Legs : TRUE
  BY SetFacts
<1>8. {w} \in SUBSET Legs /\ Cardinality({w}) <= 1 /\ {w} # {}
  BY FS_Singleton
<1>9. SetResult(f, {w}) = f.edge
  BY <1>2, <1>3
<1> QED BY <1>6, <1>8, <1>9 DEF f

\* The edge of a set is what it earns in the worst of the ways its event can resolve, and
\* the loss its guard judges is never exceeded, for any legs, books, fees and sizes
\* (set_arbitrage.py price_set against what its legs settle at).
THEOREM SetsEarnTheirEdge == SetSpec => []SetEdgeIsWorstCase
<1>1. SetInit => SetOK
  <2>1. NoBook \in [yes : Bids, no : Bids]
    BY DEF NoBook, Bids
  <2> QED BY <2>1 DEF SetInit, SetOK
<1>2. SetOK /\ [SetNext]_setVars => SetOK'
  BY SetKept
<1>3. SetOK => SetEdgeIsWorstCase
  BY EdgeIsWorst
<1> QED BY <1>1, <1>2, <1>3, PTL DEF SetSpec

-------------------------------------------------------------------------------
(* The inductive invariant of the replay                                       *)

ClosedTrade ==
    [of : ({"fill"} \X Nat) \cup ({"market"} \X Markets), pnl : Int]

BtTypeOK ==
    /\ stage \in {"audit", "next", "act", "raised", "refused", "scored"}
    /\ snaps \in [Markets -> SUBSET Window]
    /\ outcomes \in [Markets -> Outcome]
    /\ rest \subseteq Snapshot /\ obs \in Snapshot
    /\ ledger \in [Markets -> [net : Int, avg : Int]]
    /\ {realized, cash} \subseteq Int
    /\ filled \in [count : Nat, last : [Markets -> Window \cup {-1}]]
    /\ trades \subseteq ClosedTrade /\ IsFiniteSet(trades)

\* The observations are read in order of time.
TimeGoesOn ==
    /\ \A o \in rest : obs.at <= o.at
    /\ stage = "audit" => obs.at = 0

\* A trade is of an earlier fill, or of a market that was paid out and is not held
\* any more, so none is booked twice.
TradesArePast ==
    \A t \in trades :
        /\ \A n \in Nat : t.of = <<"fill", n>> => n < filled.count
        /\ \A m \in Markets : t.of = <<"market", m>> => m \in Due(obs.at) /\ ledger[m].net = 0

ReplayInv ==
    /\ BtTypeOK /\ TimeGoesOn /\ TradesArePast
    /\ SettledIsFinal /\ CashExplainsEquity

-------------------------------------------------------------------------------
(* The arithmetic of one fill                                                  *)

LEMMA BacktestFacts ==
    /\ IsFiniteSet(Markets) /\ Markets # {} /\ WindowEnd \in Nat
    /\ \A p \in Quotes : p \in Int
    /\ \A d \in Deltas : d \in Int /\ d # 0
    /\ \A t \in Window : t \in Nat /\ t <= WindowEnd
    /\ \A m \in Markets : TickerOf[m] \in Nat
  BY BacktestAssumption DEF Window, Injection

\* Of two numbers one is the smaller.
LEMMA LeastOfTwo ==
    ASSUME NEW a \in Int, NEW b \in Int
    PROVE  Least({a, b}) = IF a <= b THEN a ELSE b
<1> DEFINE l == IF a <= b THEN a ELSE b
<1>1. l \in {a, b} /\ \A y \in {a, b} : l <= y
  OBVIOUS
<1>2. ASSUME NEW x \in {a, b}, \A y \in {a, b} : x <= y PROVE x = l
  BY <1>2
<1> HIDE DEF l
<1>3. Least({a, b}) \in {a, b} /\ \A y \in {a, b} : Least({a, b}) <= y
  BY <1>1 DEF Least
<1> QED BY <1>2, <1>3 DEF l

\* A quotient without a remainder.
LEMMA WholeQuotient ==
    ASSUME NEW a \in Int, NEW b \in Nat, b > 0, a % b = 0
    PROVE  a \div b \in Int /\ b * (a \div b) = a
<1> DEFINE q == a \div b
<1>1. a \div b \in Int /\ a = b * (a \div b) + (a % b) /\ a % b \in 0 .. (b - 1)
  OBVIOUS
<1>2. b * q \in Int
  BY <1>1
<1> HIDE DEF q
<1>3. b * q = a
  BY <1>1, <1>2 DEF q
<1> QED BY <1>1, <1>3 DEF q

\* The products of the three ways a fill can go.
LEMMA Distributes ==
    ASSUME NEW a \in Int, NEW n \in Int, NEW d \in Int, NEW p \in Int
    PROVE  /\ {n * a, a * n, a * d, p * d, p * n} \subseteq Int /\ n * a = a * n
           /\ (n + d) * a = n * a + a * d /\ (n + d) * p = p * n + p * d
           /\ (p - a) * (-d) = a * d - p * d /\ (p - a) * n = p * n - n * a
  OBVIOUS

LEMMA Negated ==
    ASSUME NEW a \in Int, NEW b \in Int
    PROVE  a * (-b) = -(a * b) /\ (-a) * b = -(a * b) /\ a * b \in Int
  OBVIOUS

\* What a fill does to a position: what is realized is the cash it moved and the
\* change in what the open contracts cost.
FillIsExact(pos, d, p) ==
    LET after == FromFill(pos, d, p) IN
    /\ after.net \in Int /\ after.avg \in Int /\ after.won \in Int /\ after.closed \in Int
    /\ after.closed = 0 => after.won = 0
    /\ after.won = after.net * after.avg - pos.net * pos.avg - p * d

\* More of what is held, or the first of it.
LEMMA AddingConservesCash ==
    ASSUME NEW pos \in [net : Int, avg : Int], NEW d \in Int, d # 0, NEW p \in Int,
           WholeAverage(pos, d, p), Adds(pos, d)
    PROVE  FillIsExact(pos, d, p)
<1> DEFINE after == FromFill(pos, d, p)
           n == pos.net
           a == pos.avg
           q == Paid(pos, d, p) \div Held(pos, d)
<1>1. n \in Int /\ a \in Int
  OBVIOUS
<1>2. (n >= 0 /\ d > 0) \/ (n <= 0 /\ d < 0)
  BY <1>1 DEF Adds
<1>3. n + d # 0
  BY <1>1, <1>2
<1>4. after.net = n + d /\ after.closed = 0 /\ after.won = 0 /\ after.avg = q
  BY <1>3 DEF FromFill
<1>5. /\ Held(pos, d) = AbsVal(n) + AbsVal(d)
      /\ Paid(pos, d, p) = a * AbsVal(n) + p * AbsVal(d)
  BY DEF Held, Paid
<1> HIDE DEF n, a
<1>6. a * n \in Int /\ p * d \in Int /\ n * a = a * n
  BY <1>1, Distributes
<1>7. \/ Held(pos, d) = n + d /\ Paid(pos, d, p) = a * n + p * d
      \/ Held(pos, d) = -(n + d) /\ Paid(pos, d, p) = -(a * n + p * d)
  <2>1. CASE n >= 0 /\ d > 0
    <3>1. AbsVal(n) = n /\ AbsVal(d) = d
      BY <1>1, <2>1 DEF AbsVal
    <3> QED BY <1>5, <3>1
  <2>2. CASE n <= 0 /\ d < 0
    <3>1. AbsVal(n) = -n /\ AbsVal(d) = -d
      BY <1>1, <2>2 DEF AbsVal
    <3>2. a * (-n) = -(a * n) /\ p * (-d) = -(p * d)
      BY <1>1, Negated
    <3> QED BY <1>1, <1>5, <1>6, <3>1, <3>2
  <2> QED BY <1>2, <2>1, <2>2
<1>8. Held(pos, d) \in Nat /\ Held(pos, d) > 0
  <2>1. /\ AbsVal(n) = (IF n < 0 THEN -n ELSE n) /\ AbsVal(d) = (IF d < 0 THEN -d ELSE d)
    BY DEF AbsVal
  <2> QED BY <1>1, <1>2, <1>5, <2>1
<1>9. q \in Int /\ Held(pos, d) * q = Paid(pos, d, p)
  <2>1. Paid(pos, d, p) \in Int
    BY <1>6, <1>7
  <2>2. Paid(pos, d, p) % Held(pos, d) = 0
    BY DEF WholeAverage
  <2> QED BY <1>8, <2>1, <2>2, WholeQuotient
<1> HIDE DEF q
<1>10. (n + d) * q = a * n + p * d
  <2>1. (-(n + d)) * q = -((n + d) * q) /\ (n + d) * q \in Int
    BY <1>1, <1>9, Negated
  <2> QED BY <1>6, <1>7, <1>9, <2>1
<1>11. after.net * after.avg = a * n + p * d /\ after.net \in Int /\ after.avg \in Int
  BY <1>1, <1>4, <1>9, <1>10
<1> HIDE DEF after
<1>12. 0 = after.net * after.avg - n * a - p * d
  BY <1>6, <1>11
<1>13. after.won = after.net * after.avg - n * a - p * d
  BY <1>4, <1>12
<1> QED
  BY <1>4, <1>11, <1>13 DEF FillIsExact, after, n, a

\* Less of it, none of it, or the opposite.
LEMMA ReducingConserves ==
    ASSUME NEW pos \in [net : Int, avg : Int], NEW d \in Int, d # 0, NEW p \in Int,
           ~Adds(pos, d)
    PROVE  FillIsExact(pos, d, p)
<1> DEFINE after == FromFill(pos, d, p)
           n == pos.net
           a == pos.avg
           c == Least({AbsVal(d), AbsVal(n)})
           s == IF n > 0 THEN 1 ELSE -1
<1>1. n \in Int /\ a \in Int
  OBVIOUS
<1>2. (n > 0 /\ d < 0) \/ (n < 0 /\ d > 0)
  BY <1>1 DEF Adds
<1>3. /\ after.net = n + d /\ after.closed = c
      /\ after.won = (p - a) * c * s
      /\ after.avg = IF n + d = 0 THEN 0 ELSE IF (n + d > 0) = (n > 0) THEN a ELSE p
  BY DEF FromFill
<1>4. /\ AbsVal(d) = (IF d < 0 THEN -d ELSE d) /\ AbsVal(n) = (IF n < 0 THEN -n ELSE n)
      /\ AbsVal(d) \in Int /\ AbsVal(n) \in Int
  BY <1>1 DEF AbsVal
<1>5. c = IF AbsVal(d) <= AbsVal(n) THEN AbsVal(d) ELSE AbsVal(n)
  BY <1>4, LeastOfTwo
<1> HIDE DEF c, n, a
<1>6. c \in Int /\ c # 0
  BY <1>1, <1>2, <1>4, <1>5
<1>7. (p - a) * c * s = (p - a) * (c * s)
  BY <1>1, <1>6
<1>8. /\ {n * a, a * d, p * d, p * n} \subseteq Int
      /\ (n + d) * a = n * a + a * d /\ (n + d) * p = p * n + p * d
      /\ (p - a) * (-d) = a * d - p * d /\ (p - a) * n = p * n - n * a
  BY <1>1, Distributes
<1> HIDE DEF after
<1>9. CASE AbsVal(d) <= AbsVal(n)
  <2>1. c * s = -d
    BY <1>1, <1>2, <1>4, <1>5, <1>9
  <2> HIDE DEF s
  <2>2. after.won = a * d - p * d
    BY <1>3, <1>7, <1>8, <2>1
  <2>3. after.net * after.avg = n * a + a * d /\ after.avg \in Int
    <3>1. CASE n + d = 0
      <4>1. 0 * a = 0 /\ 0 * 0 = 0
        BY <1>1
      <4> QED BY <1>3, <1>8, <3>1, <4>1
    <3>2. CASE n + d # 0
      <4>1. after.avg = a
        BY <1>1, <1>2, <1>3, <1>4, <1>9, <3>2
      <4> QED BY <1>1, <1>3, <1>8, <4>1
    <3> QED BY <3>1, <3>2
  <2>4. after.won = after.net * after.avg - n * a - p * d
    BY <1>8, <2>2, <2>3
  <2>5. after.won \in Int
    BY <1>8, <2>2
  <2>6. after.net \in Int /\ after.closed = c
    BY <1>1, <1>3
  <2> QED
    BY <1>6, <2>3, <2>4, <2>5, <2>6 DEF FillIsExact, after, n, a
<1>10. CASE AbsVal(d) > AbsVal(n)
  <2>1. c * s = n
    BY <1>1, <1>2, <1>4, <1>5, <1>10
  <2> HIDE DEF s
  <2>2. after.won = p * n - n * a
    BY <1>3, <1>7, <1>8, <2>1
  <2>3. after.avg = p
    BY <1>1, <1>2, <1>3, <1>4, <1>10
  <2>4. after.net * after.avg = p * n + p * d /\ after.avg \in Int
    BY <1>3, <1>8, <2>3
  <2>5. after.won = after.net * after.avg - n * a - p * d
    BY <1>8, <2>2, <2>4
  <2>6. after.won \in Int
    BY <1>8, <2>2
  <2>7. after.net \in Int /\ after.closed = c
    BY <1>1, <1>3
  <2> QED
    BY <1>6, <2>4, <2>5, <2>6, <2>7 DEF FillIsExact, after, n, a
<1> QED BY <1>4, <1>9, <1>10

-------------------------------------------------------------------------------
(* Every step of the replay                                                    *)

Costs(L) == [m \in Markets |-> L[m].net * L[m].avg]
PnlOf(T) == [t \in T |-> t.pnl]

LEMMA EquityIs ==
    CashExplainsEquity <=> /\ realized = cash + TotalOver(Costs(ledger), Markets)
                           /\ realized = TotalOver(PnlOf(trades), trades)
  BY DEF CashExplainsEquity, Costs, Pnl, PnlOf

LEMMA CostsAreInt ==
    ASSUME NEW L \in [Markets -> [net : Int, avg : Int]]
    PROVE  \A m \in Markets : Costs(L)[m] \in Int
<1> SUFFICES ASSUME NEW m \in Markets PROVE L[m].net * L[m].avg \in Int
  BY DEF Costs
<1>1. L[m].net \in Int /\ L[m].avg \in Int
  OBVIOUS
<1> QED BY <1>1

LEMMA OutcomeTimes ==
    ASSUME BtTypeOK, NEW m \in Markets
    PROVE  /\ outcomes[m].at \in Int
           /\ Resolved(m) => outcomes[m].at \in Nat
           /\ obs.at \in Nat /\ obs.market \in Markets
<1>1. outcomes[m] \in Outcome /\ obs.at \in Window /\ obs.market \in Markets
  BY DEF BtTypeOK, Snapshot
<1>2. outcomes[m].at \in Nat
  <2>1. CASE outcomes[m] \in [result : {"open"}, at : {0}]
    BY <2>1
  <2>2. CASE outcomes[m] \in [result : {"yes", "no"}, at : CloseTimes]
    BY <2>2, BacktestAssumption
  <2> QED BY <1>1, <2>1, <2>2 DEF Outcome
<1> QED BY <1>1, <1>2, BacktestFacts

LEMMA ReplayInit ==
    ASSUME BacktestInit
    PROVE  ReplayInv
<1> DEFINE m0 == CHOOSE m \in Markets : TRUE
<1>1. m0 \in Markets
  BY BacktestFacts
<1>2. 0 \in Window
  BY BacktestFacts DEF Window
<1>3. obs \in Snapshot
  BY <1>1, <1>2 DEF BacktestInit, Snapshot
<1>4. IsFiniteSet(trades) /\ trades = {}
  BY FS_EmptySet DEF BacktestInit
<1>5. BtTypeOK
  BY <1>3, <1>4 DEF BacktestInit, BtTypeOK, Flat
<1>6. TimeGoesOn /\ TradesArePast
  BY <1>4 DEF BacktestInit, TimeGoesOn, TradesArePast
<1>7. SettledIsFinal
  <2> SUFFICES ASSUME NEW m \in Markets, Resolved(m) PROVE filled.last[m] < outcomes[m].at
    BY DEF SettledIsFinal, BacktestInit
  <2> QED BY <1>5, OutcomeTimes DEF BacktestInit
<1>8. CashExplainsEquity
  <2>1. \A m \in Markets : Costs(ledger)[m] = 0
    BY DEF BacktestInit, Costs, Flat
  <2>2. TotalOver(Costs(ledger), Markets) = 0
    BY <2>1, BacktestFacts, TotalOverZero
  <2>3. TotalOver(PnlOf(trades), trades) = 0
    BY <1>4, TotalOverEmpty
  <2> QED BY <2>2, <2>3, EquityIs DEF BacktestInit
<1> QED BY <1>5, <1>6, <1>7, <1>8 DEF ReplayInv

\* Steps that trade nothing and settle nothing.
LEMMA NothingMoves ==
    ASSUME ReplayInv, UNCHANGED <<snaps, outcomes, obs, ledger, realized, cash, filled, trades>>,
           rest' \subseteq Snapshot, TimeGoesOn', stage' # "act",
           stage' \in {"audit", "next", "act", "raised", "refused", "scored"}
    PROVE  ReplayInv'
<1>1. BtTypeOK'
  BY DEF ReplayInv, BtTypeOK
<1>2. TradesArePast'
  BY DEF ReplayInv, TradesArePast, Due, Resolved
<1>3. SettledIsFinal'
  BY DEF ReplayInv, SettledIsFinal, Resolved
<1>4. CashExplainsEquity'
  BY DEF ReplayInv, CashExplainsEquity, Pnl
<1> QED BY <1>1, <1>2, <1>3, <1>4 DEF ReplayInv

LEMMA AuditKeeps ==
    ASSUME ReplayInv, Audit
    PROVE  ReplayInv'
<1>1. rest' \subseteq Snapshot
  <2>1. rest \subseteq Snapshot
    BY DEF ReplayInv, BtTypeOK
  <2>2. \A R \in Loaded : R \subseteq Snapshot
    BY DEF Loaded, Observations
  <2> QED BY <2>1, <2>2 DEF Audit
<1>2. TimeGoesOn'
  <2>1. obs.at = 0 /\ obs' = obs /\ stage' # "audit"
    BY DEF Audit, ReplayInv, TimeGoesOn
  <2>2. \A o \in rest' : 0 <= o.at
    BY <1>1, BacktestFacts DEF Snapshot
  <2> QED BY <2>1, <2>2 DEF TimeGoesOn
<1>3. /\ UNCHANGED <<snaps, outcomes, obs, ledger, realized, cash, filled, trades>>
      /\ stage' \in {"refused", "next"}
  BY DEF Audit
<1> QED BY <1>1, <1>2, <1>3, NothingMoves

LEMMA PausesKeep ==
    ASSUME ReplayInv, Raise \/ Point \/ Score
    PROVE  ReplayInv'
<1>1. /\ UNCHANGED <<snaps, outcomes, rest, obs, ledger, realized, cash, filled, trades>>
      /\ stage' \in {"raised", "next", "scored"}
  BY DEF Raise, Point, Score
<1>2. rest' \subseteq Snapshot /\ TimeGoesOn'
  BY <1>1 DEF ReplayInv, BtTypeOK, TimeGoesOn
<1> QED BY <1>1, <1>2, NothingMoves

\* What is due stays due.
LEMMA DueStays ==
    ASSUME BtTypeOK, NEW a \in Nat, NEW b \in Nat, a <= b
    PROVE  Due(a) \subseteq Due(b)
<1>1. \A m \in Markets : outcomes[m].at \in Int
  BY OutcomeTimes
<1> QED BY <1>1 DEF Due

Booked(f, s) == {[of |-> <<"market", m>>, pnl |-> f[m]] : m \in s}

\* A sum over the trades is one over the markets they are booked for.
LEMMA BookedTotal ==
    ASSUME NEW S, IsFiniteSet(S), NEW f, \A x \in S : f[x] \in Int
    PROVE  IsFiniteSet(Booked(f, S))
           /\ TotalOver(PnlOf(Booked(f, S)), Booked(f, S)) = TotalOver(f, S)
<1> DEFINE row(m) == [of |-> <<"market", m>>, pnl |-> f[m]]
           B(s) == {row(m) : m \in s}
           R == {s \in SUBSET S : ~(IsFiniteSet(B(s)) /\ TotalOver(PnlOf(B(S)), B(s)) = TotalOver(f, s))}
<1>1. \A m, n : row(m) = row(n) => m = n
  OBVIOUS
<1>2. \A m \in S : row(m) \in B(S) /\ PnlOf(B(S))[row(m)] = f[m]
  BY DEF PnlOf
<1>3. ASSUME R # {} PROVE FALSE
  <2>1. PICK s \in R : \A y \in R : ~(y \subseteq s /\ y # s)
    <3> HIDE DEF R
    <3>1. R \in SUBSET (SUBSET S)
      BY DEF R
    <3> QED BY <1>3, <3>1, MinimalSubset
  <2>2. s # {}
    <3>1. SUFFICES ASSUME s = {} PROVE FALSE
      OBVIOUS
    <3>2. B(s) = {}
      BY <3>1
    <3> QED BY <2>1, <3>1, <3>2, FS_EmptySet, TotalOverEmpty
  <2>3. PICK a \in s : TRUE
    BY <2>2
  <2>4. s \in SUBSET S /\ a \in S /\ IsFiniteSet(s)
    BY <2>1, <2>3, FS_Subset
  <2>5. s \ {a} \in SUBSET S /\ s \ {a} \notin R
    BY <2>1, <2>3, <2>4
  <2>6. IsFiniteSet(B(s \ {a})) /\ TotalOver(PnlOf(B(S)), B(s \ {a})) = TotalOver(f, s \ {a})
    BY <2>5
  <2>7. B(s) = B(s \ {a}) \cup {row(a)} /\ row(a) \notin B(s \ {a})
    BY <1>1, <2>3
  <2>8. \A x \in B(s) : PnlOf(B(S))[x] \in Int
    BY <1>2, <2>4
  <2> DEFINE X == B(s \ {a})
             r == row(a)
             g == PnlOf(B(S))
  <2>9. IsFiniteSet(X) /\ B(s) = X \cup {r} /\ r \notin X
    BY <2>6, <2>7
  <2>10. (\A x \in X \cup {r} : g[x] \in Int) /\ g[r] = f[a]
    BY <1>2, <2>4, <2>7, <2>8
  <2> HIDE DEF X, r, g
  <2>12. IsFiniteSet(B(s)) /\ TotalOver(g, B(s)) = f[a] + TotalOver(g, X)
    <3>1. IsFiniteSet(X \cup {r})
      BY <2>9, FS_AddElement
    <3>2. TotalOver(g, X \cup {r}) = g[r] + TotalOver(g, X)
      BY <2>9, <2>10, TotalOverAdd
    <3> QED BY <2>9, <2>10, <3>1, <3>2
  <2>11. TotalOver(f, s) = f[a] + TotalOver(f, s \ {a})
    BY <2>3, <2>4, TotalOverRemove
  <2>13. s \notin R
    BY <2>4, <2>6, <2>11, <2>12 DEF X, g
  <2> QED BY <2>1, <2>13
<1>4. B(S) = Booked(f, S)
  BY DEF Booked
<1> QED BY <1>3, <1>4

\* Every due market leaves the ledger at its payout.
LEMMA ObserveKeeps ==
    ASSUME ReplayInv, Observe
    PROVE  ReplayInv'
<1> DEFINE held == {m \in Due(obs'.at) : ledger[m].net # 0}
           gains == [m \in Markets |-> FromSettlement(m)]
           payouts == [m \in Markets |-> Payout(m) * ledger[m].net]
<1>1. PICK o \in rest : (\A p \in rest : ~Sooner(p, o)) /\ obs' = o /\ rest' = rest \ {o}
  BY DEF Observe
<1>2. held \in SUBSET Markets /\ IsFiniteSet(held) /\ IsFiniteSet(Markets)
  BY BacktestFacts, FS_Subset DEF Due
<1>3. /\ realized' = realized + TotalOver(gains, held)
      /\ cash' = cash + TotalOver(payouts, held)
      /\ trades' = trades \cup Booked(gains, held)
      /\ ledger' = [m \in Markets |-> IF m \in held THEN Flat ELSE ledger[m]]
      /\ stage' = "act" /\ UNCHANGED <<snaps, outcomes, filled>>
  <2>1. Booked(gains, held)
          = {[of |-> <<"market", m>>, pnl |-> FromSettlement(m)] : m \in held}
    BY <1>2 DEF Booked
  <2> QED BY <2>1 DEF Observe
<1>4. ASSUME NEW m \in Markets
      PROVE  /\ gains[m] \in Int /\ payouts[m] \in Int /\ Costs(ledger)[m] \in Int
             /\ payouts[m] = gains[m] + Costs(ledger)[m]
  <2>1. /\ gains[m] = (Payout(m) - ledger[m].avg) * ledger[m].net
        /\ payouts[m] = Payout(m) * ledger[m].net
        /\ Costs(ledger)[m] = ledger[m].net * ledger[m].avg
    BY DEF FromSettlement, Costs
  <2>2. Payout(m) \in Int
    BY BacktestAssumption DEF Payout
  <2>3. ledger[m].net \in Int /\ ledger[m].avg \in Int
    BY DEF ReplayInv, BtTypeOK
  <2> DEFINE p == Payout(m)
             a == ledger[m].avg
             n == ledger[m].net
  <2>4. p * n = (p - a) * n + n * a /\ p * n \in Int /\ (p - a) * n \in Int /\ n * a \in Int
    <3>1. p \in Int /\ a \in Int /\ n \in Int
      BY <2>2, <2>3
    <3> HIDE DEF p, a, n
    <3> QED BY <3>1
  <2>5. gains[m] = (p - a) * n /\ payouts[m] = p * n /\ Costs(ledger)[m] = n * a
    BY <2>1
  <2> HIDE DEF gains, payouts, p, a, n
  <2> QED BY <2>4, <2>5
<1>5. held = {m \in Due(o.at) : ledger[m].net # 0}
  BY <1>1
<1> HIDE DEF held, gains, payouts
<1>6. /\ \A p \in rest : p \in Snapshot /\ p.at \in Nat /\ p.market \in Markets
      /\ o \in Snapshot /\ o.at \in Nat /\ obs.at \in Nat /\ obs.at <= o.at
  <2>1. obs \in Snapshot /\ rest \subseteq Snapshot /\ obs.at <= o.at
    BY DEF ReplayInv, BtTypeOK, TimeGoesOn
  <2>2. \A p \in Snapshot : p.at \in Nat /\ p.market \in Markets
    BY BacktestFacts DEF Snapshot
  <2> QED BY <2>1, <2>2
<1>7. TimeGoesOn'
  <2> SUFFICES ASSUME NEW p \in rest PROVE o.at <= p.at
    BY <1>1, <1>3 DEF TimeGoesOn
  <2>1. ~Sooner(p, o)
    BY <1>1
  <2> QED BY <1>6, <2>1 DEF Sooner
<1>8. ASSUME NEW m \in Markets
      PROVE  /\ ledger'[m] \in [net : Int, avg : Int]
             /\ m \in held => ledger'[m].net = 0 /\ Costs(ledger')[m] = 0
             /\ m \notin held => ledger'[m] = ledger[m] /\ Costs(ledger')[m] = Costs(ledger)[m]
  <2>1. ledger[m] \in [net : Int, avg : Int]
    BY DEF ReplayInv, BtTypeOK
  <2> QED BY <1>3, <2>1 DEF Flat, Costs
<1>9. Booked(gains, held) \subseteq ClosedTrade /\ IsFiniteSet(Booked(gains, held))
  <2>1. ASSUME NEW m \in held
        PROVE  [of |-> <<"market", m>>, pnl |-> gains[m]] \in ClosedTrade
    BY <1>2, <1>4 DEF ClosedTrade
  <2> QED BY <1>2, <1>4, <2>1, BookedTotal DEF Booked
<1>10. BtTypeOK'
  <2>1. ledger' \in [Markets -> [net : Int, avg : Int]]
    BY <1>3, <1>8
  <2>2. {realized', cash'} \subseteq Int
    <3>1. TotalOver(gains, held) \in Int /\ TotalOver(payouts, held) \in Int
      BY <1>2, <1>4, TotalOverInt
    <3> QED BY <1>3, <3>1 DEF ReplayInv, BtTypeOK
  <2>3. trades' \subseteq ClosedTrade /\ IsFiniteSet(trades')
    BY <1>3, <1>9, FS_Union DEF ReplayInv, BtTypeOK
  <2>4. rest' \subseteq Snapshot /\ obs' \in Snapshot
    BY <1>1, <1>6
  <2> QED BY <1>3, <2>1, <2>2, <2>3, <2>4 DEF ReplayInv, BtTypeOK
<1>11. Due(obs.at) \subseteq Due(o.at)
  BY <1>6, DueStays DEF ReplayInv
<1>12. Due(o.at)' = Due(o.at)
  BY <1>3 DEF Due, Resolved
<1>13. TradesArePast'
  <2> SUFFICES ASSUME NEW t \in trades'
               PROVE /\ \A n \in Nat : t.of = <<"fill", n>> => n < filled.count
                     /\ \A m \in Markets : t.of = <<"market", m>>
                            => m \in Due(o.at) /\ ledger'[m].net = 0
    BY <1>1, <1>3, <1>12 DEF TradesArePast
  <2>1. CASE t \in trades
    BY <1>8, <1>11, <2>1 DEF ReplayInv, TradesArePast
  <2>2. CASE t \in Booked(gains, held)
    <3>1. PICK k \in held : t.of = <<"market", k>>
      BY <2>2 DEF Booked
    <3>2. \A n : t.of # <<"fill", n>>
      BY <3>1
    <3>3. \A m : t.of = <<"market", m>> => m = k
      BY <3>1
    <3>4. k \in Due(o.at) /\ ledger'[k].net = 0
      BY <1>2, <1>5, <1>8
    <3> QED BY <3>2, <3>3, <3>4
  <2> QED BY <1>3, <2>1, <2>2
<1>14. SettledIsFinal'
  <2>1. \A m \in Markets : Resolved(m)' = Resolved(m) /\ outcomes'[m].at = outcomes[m].at
    BY <1>3 DEF Resolved
  <2>2. \A m \in Markets : Resolved(m) => filled'.last[m] < outcomes'[m].at
    BY <1>3 DEF ReplayInv, SettledIsFinal
  <2>3. ASSUME NEW m \in Markets, Resolved(m), outcomes[m].at <= o.at PROVE ledger'[m].net = 0
    BY <1>5, <1>8, <2>3 DEF Due
  <2> QED BY <1>1, <2>1, <2>2, <2>3 DEF SettledIsFinal
<1>15. CashExplainsEquity'
  <2>1. TotalOver(Costs(ledger'), Markets)
            = TotalOver(Costs(ledger), Markets) - TotalOver(Costs(ledger), held)
    <3>1. \A m \in Markets : Costs(ledger)[m] \in Int
             /\ Costs(ledger')[m] = IF m \in held THEN 0 ELSE Costs(ledger)[m]
      BY <1>4, <1>8
    <3> QED BY <1>2, <3>1, TotalOverWithout
  <2>2. TotalOver(payouts, held) = TotalOver(gains, held) + TotalOver(Costs(ledger), held)
    BY <1>2, <1>4, TotalOverPlus
  <2>3. TotalOver(PnlOf(trades'), trades')
            = TotalOver(PnlOf(trades), trades) + TotalOver(gains, held)
    <3> DEFINE B == Booked(gains, held)
    <3>1. trades \cap B = {}
      BY <1>5 DEF ReplayInv, TradesArePast, Booked, Due
    <3>2. IsFiniteSet(trades) /\ \A t \in trades \cup B : t.pnl \in Int
      BY <1>9 DEF ReplayInv, BtTypeOK, ClosedTrade
    <3>3. TotalOver(PnlOf(B), B) = TotalOver(gains, held)
      BY <1>2, <1>4, BookedTotal
    <3> HIDE DEF B
    <3>4. TotalOver(PnlOf(trades'), trades')
             = TotalOver(PnlOf(trades'), trades) + TotalOver(PnlOf(trades'), B)
      <4>1. trades' = trades \cup B /\ IsFiniteSet(B)
        BY <1>3, <1>9 DEF B
      <4>2. \A t \in trades \cup B : PnlOf(trades')[t] \in Int
        BY <3>2, <4>1 DEF PnlOf
      <4> QED BY <3>1, <3>2, <4>1, <4>2, TotalOverUnion
    <3>5. TotalOver(PnlOf(trades'), trades) = TotalOver(PnlOf(trades), trades)
      <4>1. \A t \in trades : PnlOf(trades)[t] \in Int /\ PnlOf(trades)[t] = PnlOf(trades')[t]
        BY <1>3, <3>2 DEF PnlOf
      <4> QED BY <3>2, <4>1, TotalOverSame
    <3>6. TotalOver(PnlOf(trades'), B) = TotalOver(PnlOf(B), B)
      <4>1. \A t \in B : PnlOf(B)[t] \in Int /\ PnlOf(B)[t] = PnlOf(trades')[t]
        BY <1>3, <3>2 DEF PnlOf, B
      <4>2. IsFiniteSet(B)
        BY <1>9 DEF B
      <4> QED BY <4>1, <4>2, TotalOverSame
    <3> QED BY <3>3, <3>4, <3>5, <3>6
  <2>4. /\ {TotalOver(Costs(ledger), Markets), TotalOver(Costs(ledger), held),
            TotalOver(gains, held), TotalOver(payouts, held), realized, cash} \subseteq Int
    <3>1. /\ \A m \in held : gains[m] \in Int /\ payouts[m] \in Int /\ Costs(ledger)[m] \in Int
          /\ \A m \in Markets : Costs(ledger)[m] \in Int
      BY <1>2, <1>4
    <3>2. {realized, cash} \subseteq Int
      BY DEF ReplayInv, BtTypeOK
    <3> QED BY <1>2, <3>1, <3>2, TotalOverInt
  <2>5. /\ realized = cash + TotalOver(Costs(ledger), Markets)
        /\ realized = TotalOver(PnlOf(trades), trades)
    BY EquityIs DEF ReplayInv
  <2>6. /\ realized' = cash' + TotalOver(Costs(ledger'), Markets)
        /\ realized' = TotalOver(PnlOf(trades'), trades')
    BY <1>3, <2>1, <2>2, <2>3, <2>4, <2>5
  <2> QED BY <2>6 DEF CashExplainsEquity, Costs, Pnl, PnlOf
<1> QED BY <1>7, <1>10, <1>13, <1>14, <1>15 DEF ReplayInv

\* One fill of the observed market, which is not due.
LEMMA ApplyKeeps ==
    ASSUME ReplayInv, NEW delta \in Deltas, NEW price \in Quotes, Apply(delta, price)
    PROVE  ReplayInv'
<1> DEFINE k == obs.market
           after == FromFill(ledger[k], delta, price)
           pos == [net |-> after.net, avg |-> after.avg]
           trade == [of |-> <<"fill", filled.count>>, pnl |-> after.won]
<1>1. /\ stage = "act" /\ k \notin Due(obs.at)
      /\ WholeAverage(ledger[k], delta, price)
      /\ ledger' = [ledger EXCEPT ![k] = pos]
      /\ realized' = realized + after.won
      /\ trades' = IF after.closed = 0 THEN trades ELSE trades \cup {trade}
      /\ filled' = [count |-> filled.count + 1, last |-> [filled.last EXCEPT ![k] = obs.at]]
      /\ cash' = cash - price * delta
      /\ UNCHANGED <<stage, snaps, outcomes, rest, obs>>
  BY DEF Apply
<1>2. /\ k \in Markets /\ obs.at \in Window /\ obs.at \in Nat
      /\ ledger \in [Markets -> [net : Int, avg : Int]]
      /\ filled \in [count : Nat, last : [Markets -> Window \cup {-1}]]
      /\ realized \in Int /\ cash \in Int
      /\ trades \subseteq ClosedTrade /\ IsFiniteSet(trades)
      /\ delta \in Int /\ delta # 0 /\ price \in Int
  BY BacktestFacts DEF ReplayInv, BtTypeOK, Snapshot
<1>3. FillIsExact(ledger[k], delta, price)
  <2>1. ledger[k] \in [net : Int, avg : Int]
    BY <1>2
  <2> HIDE DEF k
  <2> QED BY <1>1, <1>2, <2>1, AddingConservesCash, ReducingConserves
<1>4. /\ after.net \in Int /\ after.avg \in Int /\ after.won \in Int
      /\ after.closed = 0 => after.won = 0
      /\ after.won = after.net * after.avg - ledger[k].net * ledger[k].avg - price * delta
  BY <1>3 DEF FillIsExact
<1> HIDE DEF after
<1>5. trade \in ClosedTrade
  BY <1>2, <1>4 DEF ClosedTrade
<1>6. BtTypeOK'
  <2>1. ledger' \in [Markets -> [net : Int, avg : Int]]
    BY <1>1, <1>2, <1>4
  <2>2. {realized', cash'} \subseteq Int
    <3>1. price * delta \in Int
      BY <1>2
    <3> QED BY <1>1, <1>2, <1>4, <3>1
  <2>3. filled' \in [count : Nat, last : [Markets -> Window \cup {-1}]]
    BY <1>1, <1>2
  <2>4. trades' \subseteq ClosedTrade /\ IsFiniteSet(trades')
    BY <1>1, <1>2, <1>5, FS_AddElement
  <2> QED BY <1>1, <2>1, <2>2, <2>3, <2>4 DEF ReplayInv, BtTypeOK
<1>7. TimeGoesOn'
  BY <1>1 DEF ReplayInv, TimeGoesOn
<1>8. TradesArePast'
  <2>1. Due(obs.at)' = Due(obs.at) /\ obs' = obs
    BY <1>1 DEF Due, Resolved
  <2>2. filled'.count = filled.count + 1 /\ filled.count \in Nat
    BY <1>1, <1>2
  <2> SUFFICES ASSUME NEW t \in trades'
               PROVE /\ \A n \in Nat : t.of = <<"fill", n>> => n < filled'.count
                     /\ \A m \in Markets : t.of = <<"market", m>>
                            => m \in Due(obs.at) /\ ledger'[m].net = 0
    BY <2>1 DEF TradesArePast
  <2>3. CASE t \in trades
    <3>1. \A n \in Nat : t.of = <<"fill", n>> => n < filled.count
      BY <2>3 DEF ReplayInv, TradesArePast
    <3>2. \A m \in Markets : t.of = <<"market", m>> => m \in Due(obs.at) /\ ledger[m].net = 0
      BY <2>3 DEF ReplayInv, TradesArePast
    <3>3. \A m \in Markets : m # k => ledger'[m] = ledger[m]
      BY <1>1, <1>2
    <3> QED BY <1>1, <2>2, <3>1, <3>2, <3>3
  <2>4. CASE t = trade
    <3>1. t.of = <<"fill", filled.count>>
      BY <2>4
    <3>2. \A n : t.of = <<"fill", n>> => n = filled.count
      BY <3>1
    <3>3. \A m : t.of # <<"market", m>>
      BY <3>1
    <3> QED BY <2>2, <3>2, <3>3
  <2> QED BY <1>1, <2>3, <2>4
<1>9. SettledIsFinal'
  <2>1. \A m \in Markets : /\ Resolved(m)' = Resolved(m) /\ outcomes'[m].at = outcomes[m].at
                           /\ outcomes[m].at \in Int
    BY <1>1, OutcomeTimes DEF Resolved, ReplayInv
  <2>2. ASSUME NEW m \in Markets, Resolved(m) PROVE filled'.last[m] < outcomes[m].at
    <3>1. CASE m = k
      <4>1. filled'.last[m] = obs.at
        BY <1>1, <1>2, <3>1
      <4> QED BY <1>1, <1>2, <2>1, <2>2, <3>1, <4>1 DEF Due
    <3>2. CASE m # k
      <4>1. filled'.last[m] = filled.last[m]
        BY <1>1, <1>2, <3>2
      <4> QED BY <2>2, <4>1 DEF ReplayInv, SettledIsFinal
    <3> QED BY <3>1, <3>2
  <2>3. ASSUME NEW m \in Markets, Resolved(m), outcomes[m].at <= obs.at PROVE ledger'[m].net = 0
    <3>1. m # k
      BY <1>1, <2>3 DEF Due
    <3>2. ledger'[m] = ledger[m]
      BY <1>1, <1>2, <3>1
    <3> QED BY <1>1, <2>3, <3>2 DEF ReplayInv, SettledIsFinal
  <2> QED BY <1>1, <2>1, <2>2, <2>3 DEF SettledIsFinal
<1>10. TotalOver(Costs(ledger'), Markets) - TotalOver(Costs(ledger), Markets)
           = after.net * after.avg - ledger[k].net * ledger[k].avg
  <2> DEFINE R == Markets \ {k}
  <2>1. IsFiniteSet(Markets) /\ IsFiniteSet(R)
    BY BacktestFacts, FS_Subset
  <2>2. ledger' \in [Markets -> [net : Int, avg : Int]]
    BY <1>6 DEF BtTypeOK
  <2>3. \A m \in Markets : Costs(ledger)[m] \in Int /\ Costs(ledger')[m] \in Int
    BY <1>2, <2>2, CostsAreInt
  <2>4. /\ Costs(ledger)[k] = ledger[k].net * ledger[k].avg
        /\ Costs(ledger')[k] = after.net * after.avg
        /\ \A m \in R : Costs(ledger')[m] = Costs(ledger)[m]
    BY <1>1, <1>2 DEF Costs
  <2> HIDE DEF k
  <2>5. /\ TotalOver(Costs(ledger'), Markets) = Costs(ledger')[k] + TotalOver(Costs(ledger'), R)
        /\ TotalOver(Costs(ledger), Markets) = Costs(ledger)[k] + TotalOver(Costs(ledger), R)
    BY <1>2, <2>1, <2>3, TotalOverRemove
  <2>6. TotalOver(Costs(ledger'), R) = TotalOver(Costs(ledger), R)
    BY <2>1, <2>3, <2>4, TotalOverSame
  <2>7. TotalOver(Costs(ledger), R) \in Int
    BY <2>1, <2>3, TotalOverInt
  <2>8. Costs(ledger')[k] \in Int /\ Costs(ledger)[k] \in Int
    BY <1>2, <2>3
  <2> HIDE DEF R
  <2> QED BY <2>4, <2>5, <2>6, <2>7, <2>8
<1>11. TotalOver(PnlOf(trades'), trades') = TotalOver(PnlOf(trades), trades) + after.won
  <2>1. \A t \in trades \cup {trade} : t.pnl \in Int
    BY <1>2, <1>5 DEF ClosedTrade
  <2>2. TotalOver(PnlOf(trades), trades) \in Int
    <3>1. \A t \in trades : PnlOf(trades)[t] \in Int
      BY <2>1 DEF PnlOf
    <3> QED BY <1>2, <3>1, TotalOverInt
  <2>3. CASE after.closed = 0
    BY <1>1, <1>4, <2>2, <2>3
  <2>4. CASE after.closed # 0
    <3>1. trade \notin trades
      <4>1. trade.of = <<"fill", filled.count>> /\ filled.count \in Nat
        BY <1>2
      <4> QED BY <4>1 DEF ReplayInv, TradesArePast
    <3>2. trades' = trades \cup {trade} /\ trade.pnl = after.won
      BY <1>1, <2>4
    <3> HIDE DEF trade
    <3>3. /\ \A t \in trades \cup {trade} : PnlOf(trades')[t] = t.pnl
          /\ \A t \in trades : PnlOf(trades)[t] = t.pnl
      BY <3>2 DEF PnlOf
    <3>4. TotalOver(PnlOf(trades'), trades \cup {trade})
              = PnlOf(trades')[trade] + TotalOver(PnlOf(trades'), trades)
      BY <1>2, <2>1, <3>1, <3>3, TotalOverAdd
    <3>5. TotalOver(PnlOf(trades'), trades) = TotalOver(PnlOf(trades), trades)
      BY <1>2, <2>1, <3>3, TotalOverSame
    <3>6. PnlOf(trades')[trade] = after.won
      BY <3>2, <3>3
    <3> QED BY <1>4, <2>2, <3>2, <3>4, <3>5, <3>6
  <2> QED BY <2>3, <2>4
<1>12. CashExplainsEquity'
  <2> DEFINE x == ledger[k].net * ledger[k].avg
             y == after.net * after.avg
             c == TotalOver(Costs(ledger), Markets)
             d == TotalOver(Costs(ledger'), Markets)
             z == price * delta
  <2>1. ledger' \in [Markets -> [net : Int, avg : Int]]
    BY <1>6 DEF BtTypeOK
  <2>2. c \in Int /\ d \in Int
    BY <1>2, <2>1, BacktestFacts, CostsAreInt, TotalOverInt
  <2>3. x \in Int /\ y \in Int /\ z \in Int
    <3>1. ledger[k].net \in Int /\ ledger[k].avg \in Int
      BY <1>2
    <3> HIDE DEF k
    <3> QED BY <1>2, <1>4, <3>1
  <2>4. /\ after.won = y - x - z /\ d - c = y - x
        /\ cash' = cash - z /\ realized' = realized + after.won
    BY <1>1, <1>4, <1>10
  <2>5. /\ realized = cash + c
        /\ realized = TotalOver(PnlOf(trades), trades)
    BY EquityIs DEF ReplayInv
  <2> HIDE DEF x, y, z, c, d
  <2>6. realized' = cash' + d
    BY <1>2, <2>2, <2>3, <2>4, <2>5
  <2>7. realized' = TotalOver(PnlOf(trades'), trades')
    BY <1>11, <2>4, <2>5
  <2> QED BY <2>6, <2>7 DEF CashExplainsEquity, Costs, Pnl, PnlOf, d
<1> QED BY <1>6, <1>7, <1>8, <1>9, <1>12 DEF ReplayInv

\* The replay keeps its invariant.
THEOREM ReplayKeepsItsBooks == BacktestSpec => []ReplayInv
<1>1. BacktestInit => ReplayInv
  BY ReplayInit
<1>2. ReplayInv /\ [BacktestNext]_btVars => ReplayInv'
  <2> SUFFICES ASSUME ReplayInv, [BacktestNext]_btVars PROVE ReplayInv'
    OBVIOUS
  <2>1. CASE Audit
    BY <2>1, AuditKeeps
  <2>2. CASE Observe
    BY <2>2, ObserveKeeps
  <2>3. CASE Raise \/ Point \/ Score
    BY <2>3, PausesKeep
  <2>4. ASSUME NEW delta \in Deltas, NEW price \in Quotes, Apply(delta, price)
        PROVE  ReplayInv'
    BY <2>4, ApplyKeeps
  <2>5. CASE UNCHANGED btVars
    BY <2>5 DEF btVars, ReplayInv, BtTypeOK, TimeGoesOn, TradesArePast, SettledIsFinal,
                CashExplainsEquity, Pnl, Due, Resolved
  <2> QED BY <2>1, <2>2, <2>3, <2>4, <2>5 DEF BacktestNext
<1> QED BY <1>1, <1>2, PTL DEF BacktestSpec

\* What the replay books is what the money did, across flips and settlements, and
\* the trades that are scored add up to the P&L of the curve (replay.py _Book).
THEOREM BooksAreExact == BacktestSpec => []CashExplainsEquity
<1>1. ReplayInv => CashExplainsEquity
  BY DEF ReplayInv
<1> QED BY <1>1, ReplayKeepsItsBooks, PTL

\* Nothing is traded at or after the instant its outcome was known, and nothing is
\* held past it once the strategy is asked (replay.py's settlement before the call).
THEOREM NoTradeAfterTheOutcome == BacktestSpec => []SettledIsFinal
<1>1. ReplayInv => SettledIsFinal
  BY DEF ReplayInv
<1> QED BY <1>1, ReplayKeepsItsBooks, PTL

-------------------------------------------------------------------------------
(* The data a replay was let in on                                             *)

\* A finite set of integers has a least and a greatest member.
LEMMA Extremes ==
    ASSUME NEW S, IsFiniteSet(S), S # {}, \A x \in S : x \in Int
    PROVE  /\ Least(S) \in S /\ \A x \in S : Least(S) <= x
           /\ Most(S) \in S /\ \A x \in S : Most(S) >= x
<1>1. \E a \in S : \A b \in S : a <= b
  <2> DEFINE below(x) == {y \in S : y <= x}
             T == {below(x) : x \in S}
  <2>1. T \in SUBSET (SUBSET S) /\ T # {}
    OBVIOUS
  <2>2. PICK t \in T : \A y \in T : ~(y \subseteq t /\ y # t)
    <3> HIDE DEF T, below
    <3> QED BY <2>1, MinimalSubset
  <2>3. PICK a \in S : t = below(a)
    OBVIOUS
  <2>4. ASSUME NEW b \in S, b < a PROVE FALSE
    <3>1. a \in t /\ a \notin below(b)
      BY <2>3, <2>4
    <3>2. below(b) \subseteq t
      BY <2>3, <2>4
    <3> QED BY <2>2, <3>1, <3>2
  <2> QED BY <2>4
<1>2. \E a \in S : \A b \in S : a >= b
  <2> DEFINE above(x) == {y \in S : y >= x}
             T == {above(x) : x \in S}
  <2>1. T \in SUBSET (SUBSET S) /\ T # {}
    OBVIOUS
  <2>2. PICK t \in T : \A y \in T : ~(y \subseteq t /\ y # t)
    <3> HIDE DEF T, above
    <3> QED BY <2>1, MinimalSubset
  <2>3. PICK a \in S : t = above(a)
    OBVIOUS
  <2>4. ASSUME NEW b \in S, b > a PROVE FALSE
    <3>1. a \in t /\ a \notin above(b)
      BY <2>3, <2>4
    <3>2. above(b) \subseteq t
      BY <2>3, <2>4
    <3> QED BY <2>2, <3>1, <3>2
  <2> QED BY <2>4
<1> QED BY <1>1, <1>2 DEF Least, Most

LEMMA ExtremesInWindow ==
    ASSUME NEW S \in SUBSET Window, S # {}
    PROVE  /\ IsFiniteSet(S)
           /\ Least(S) \in S /\ \A x \in S : Least(S) <= x
           /\ Most(S) \in S /\ \A x \in S : Most(S) >= x
<1>1. (\A x \in S : x \in Int) /\ IsFiniteSet(S)
  <2>1. IsFiniteSet(Window)
    BY BacktestFacts, FS_Interval DEF Window
  <2>2. IsFiniteSet(S)
    BY <2>1, FS_Subset
  <2> QED BY <2>2, BacktestFacts
<1> QED BY <1>1, Extremes

\* From a snapshot that is not the last there is a hole to the next.
LEMMA NextSnapshot ==
    ASSUME NEW T \in SUBSET Window, NEW t \in T, NEW v \in T, t < v
    PROVE  \E u \in T : t < u /\ u - t \in Holes(T)
<1> DEFINE later == {u \in T : t < u}
           u == Least(later)
<1>1. later \in SUBSET Window /\ later # {}
  OBVIOUS
<1>2. u \in later /\ \A x \in later : u <= x
  <2> HIDE DEF later
  <2> QED BY <1>1, ExtremesInWindow
<1>3. t \in Nat /\ u \in Nat /\ u <= WindowEnd /\ \A x \in T : x \in Nat
  BY <1>2, BacktestFacts
<1> HIDE DEF u
<1>4. ~ \E e \in T : t < e /\ e < u
  BY <1>2, <1>3
<1>5. u - t \in 1 .. WindowEnd
  BY <1>2, <1>3, BacktestFacts
<1> QED BY <1>2, <1>4, <1>5 DEF Holes

LEMMA GapOfMarket ==
    ASSUME snaps \in [Markets -> SUBSET Window], NEW m \in Markets
    PROVE  /\ GapOf(m) \in Window
           /\ Cardinality(snaps[m]) \in Nat
           /\ Cardinality(snaps[m]) >= 2 => \A w \in Holes(snaps[m]) : w <= GapOf(m)
           /\ Cardinality(snaps[m]) < 2 => GapOf(m) = WindowEnd
<1> DEFINE T == snaps[m]
<1>1. T \in SUBSET Window /\ IsFiniteSet(T) /\ Cardinality(T) \in Nat
  <2>1. T \in SUBSET Window
    OBVIOUS
  <2>2. IsFiniteSet(Window)
    BY BacktestFacts, FS_Interval DEF Window
  <2> HIDE DEF T
  <2> QED BY <2>1, <2>2, FS_Subset, FS_CardinalityType
<1>2. CASE Cardinality(T) < 2
  BY <1>1, <1>2, BacktestFacts DEF GapOf, Window
<1>3. CASE Cardinality(T) >= 2
  <2> HIDE DEF T
  <2>1. PICK t, v \in T : t < v
    <3>1. T # {}
      BY <1>3, FS_EmptySet
    <3>2. PICK a \in T : TRUE
      BY <3>1
    <3>3. T \ {a} # {}
      <4>1. Cardinality(T \ {a}) = Cardinality(T) - 1
        BY <1>1, FS_RemoveElement
      <4> QED BY <1>1, <1>3, <4>1, FS_EmptySet
    <3>4. PICK b \in T : b # a
      BY <3>3
    <3>5. a \in Nat /\ b \in Nat
      BY <1>1, BacktestFacts
    <3> QED BY <3>4, <3>5
  <2>2. Holes(T) # {}
    BY <1>1, <2>1, NextSnapshot
  <2>3. Holes(T) \in SUBSET Window
    BY BacktestFacts DEF Holes, Window
  <2>4. Most(Holes(T)) \in Window /\ \A w \in Holes(T) : Most(Holes(T)) >= w
    BY <2>2, <2>3, ExtremesInWindow
  <2>5. GapOf(m) = Most(Holes(T))
    BY <1>1, <1>3 DEF GapOf, T
  <2>6. \A w \in Window : w \in Nat
    BY BacktestFacts
  <2>7. \A w \in Holes(T) : w <= GapOf(m)
    BY <2>3, <2>4, <2>5, <2>6
  <2> QED BY <1>1, <1>3, <2>4, <2>5, <2>7 DEF T
<1> QED BY <1>1, <1>2, <1>3

DenseMarkets ==
    {m \in Covered : Cardinality(snaps[m]) > 1 /\ \A t \in snaps[m] :
        \/ \A u \in snaps[m] : u <= t
        \/ \E u \in snaps[m] : t < u /\ u <= t + Tolerated}

\* A market whose widest gap is tolerated is dense, given a window that is not.
LEMMA NarrowIsDense ==
    ASSUME snaps \in [Markets -> SUBSET Window], NEW m \in Covered,
           Tolerated < WindowEnd, GapOf(m) <= Tolerated
    PROVE  m \in DenseMarkets
<1>1. m \in Markets
  BY DEF Covered
<1>2. /\ Tolerated \in Nat /\ WindowEnd \in Nat
      /\ snaps[m] \in SUBSET Window /\ \A t \in snaps[m] : t \in Nat
  BY <1>1, BacktestAssumption, BacktestFacts
<1>3. Cardinality(snaps[m]) \in Nat /\ Cardinality(snaps[m]) >= 2 /\ GapOf(m) \in Nat
  BY <1>1, <1>2, GapOfMarket, BacktestFacts
<1>4. ASSUME NEW t \in snaps[m], NEW v \in snaps[m], t < v
      PROVE  \E u \in snaps[m] : t < u /\ u <= t + Tolerated
  <2>1. PICK u \in snaps[m] : t < u /\ u - t \in Holes(snaps[m])
    BY <1>2, <1>4, NextSnapshot
  <2>2. u - t <= GapOf(m)
    BY <1>1, <1>3, <2>1, GapOfMarket
  <2> QED BY <1>2, <1>3, <2>1, <2>2
<1>5. \A t \in snaps[m] : \/ \A u \in snaps[m] : u <= t
                          \/ \E u \in snaps[m] : t < u /\ u <= t + Tolerated
  BY <1>2, <1>4
<1> QED BY <1>3, <1>5 DEF DenseMarkets

\* At most so many markets as there are have a gap of a rank.
LEMMA RankedGap ==
    ASSUME snaps \in [Markets -> SUBSET Window], Covered # {},
           NEW k \in Nat, k <= Cardinality(Covered)
    PROVE  /\ GapRanked(k) \in Nat
           /\ \E m \in Covered : GapOf(m) = GapRanked(k) /\ Cardinality(NoWider(m)) >= k
<1> DEFINE all == {GapOf(m) : m \in Covered}
           enough == {n \in Covered : Cardinality(NoWider(n)) >= k}
           some == {GapOf(m) : m \in enough}
<1>1. Covered \in SUBSET Markets
  BY DEF Covered
<1>2. all \in SUBSET Window /\ all # {}
  BY <1>1, GapOfMarket
<1>3. PICK w \in Covered : \A n \in Covered : GapOf(n) <= GapOf(w)
  <2>1. PICK g \in all : \A x \in all : g >= x
    <3> HIDE DEF all
    <3> QED BY <1>2, ExtremesInWindow
  <2>2. \A x \in all : x \in Nat
    BY <1>2, BacktestFacts
  <2> QED BY <2>1, <2>2
<1>4. w \in enough
  <2>1. NoWider(w) = Covered
    BY <1>3 DEF NoWider
  <2>2. Cardinality(Covered) \in Nat
    BY <1>1, BacktestFacts, FS_Subset, FS_CardinalityType
  <2> QED BY <2>1, <2>2
<1>5. some \in SUBSET Window /\ some # {}
  BY <1>1, <1>4, GapOfMarket
<1>6. Least(some) \in some
  <2> HIDE DEF some
  <2> QED BY <1>5, ExtremesInWindow
<1>7. GapRanked(k) = Least(some)
  BY DEF GapRanked
<1>8. GapRanked(k) \in Window
  BY <1>5, <1>6, <1>7
<1>9. PICK m \in enough : GapOf(m) = GapRanked(k)
  BY <1>6, <1>7
<1> QED BY <1>8, <1>9, BacktestFacts

\* What the audit lets in is dense.
LEMMA AcceptedIsDense ==
    ASSUME snaps \in [Markets -> SUBSET Window], outcomes \in [Markets -> Outcome], Refusals = {}
    PROVE  /\ 2 * Cardinality(DenseMarkets) >= Cardinality(Covered)
           /\ \E m, n \in Covered : Resolved(m) /\ ~Resolved(n)
<1> DEFINE n == Cardinality(Covered)
           settled == {m \in Covered : Resolved(m)}
           seen == UNION {snaps[m] : m \in Covered}
<1>1. Covered # {}
  BY DEF Refusals
<1>2. /\ ~(ObservedSpan < MinSpan) /\ ~(Cardinality(settled) < MinSettled)
      /\ ~(\A m \in Covered : Resolved(m)) /\ ~(TwiceMedianGap > 2 * Tolerated)
  BY <1>1 DEF Refusals
<1>3. /\ Covered \in SUBSET Markets /\ IsFiniteSet(Covered) /\ IsFiniteSet(settled)
      /\ n \in Nat /\ Cardinality(settled) \in Nat
  <2>1. Covered \in SUBSET Markets
    BY DEF Covered
  <2> QED BY <2>1, BacktestFacts, FS_Subset, FS_CardinalityType
<1>4. \E m, o \in Covered : Resolved(m) /\ ~Resolved(o)
  <2>1. settled # {}
    BY <1>2, <1>3, BacktestAssumption, FS_EmptySet
  <2> QED BY <1>2, <2>1
<1>5. n >= 1
  BY <1>1, <1>3, FS_EmptySet
<1>6. Tolerated < WindowEnd
  <2>1. seen \in SUBSET Window
    BY <1>3
  <2>2. seen # {}
    BY <1>1 DEF Covered
  <2> HIDE DEF seen
  <2>3. Most(seen) \in Window /\ Least(seen) \in Window
    BY <2>1, <2>2, ExtremesInWindow
  <2>4. ObservedSpan = Most(seen) - Least(seen)
    BY DEF ObservedSpan, seen
  <2>5. /\ Most(seen) \in Nat /\ Least(seen) \in Nat /\ Most(seen) <= WindowEnd
        /\ Tolerated \in Nat /\ MinSpan \in Nat /\ WindowEnd \in Nat /\ Tolerated < MinSpan
    BY <2>3, BacktestFacts, BacktestAssumption
  <2> QED BY <1>2, <2>4, <2>5
<1>7. PICK k \in Nat : k <= n /\ 2 * k >= n /\ GapRanked(k) <= Tolerated
  <2> DEFINE a == (n + 1) \div 2
             b == n \div 2 + 1
  <2> HIDE DEF n
  <2>1. a \in Nat /\ a <= n /\ 2 * a >= n
    BY <1>3, <1>5
  <2>2. CASE n = 1
    <3>1. a = 1 /\ b = 1
      BY <2>2
    <3>2. GapRanked(a) + GapRanked(a) <= 2 * Tolerated
      <4>1. GapRanked(a) \in Nat
        BY <1>1, <2>1, RankedGap DEF n
      <4> QED BY <1>2, <3>1, <4>1, BacktestAssumption DEF TwiceMedianGap, n
    <3>3. GapRanked(a) \in Nat
      BY <1>1, <2>1, RankedGap DEF n
    <3>4. GapRanked(a) <= Tolerated
      BY <3>2, <3>3, BacktestAssumption
    <3> QED BY <2>1, <3>4
  <2>3. CASE n > 1
    <3>1. b \in Nat /\ b <= n /\ 2 * b >= n
      BY <1>3, <2>3
    <3> HIDE DEF a, b
    <3>2. GapRanked(a) \in Nat /\ GapRanked(b) \in Nat
      BY <1>1, <2>1, <3>1, RankedGap DEF n
    <3>3. TwiceMedianGap = GapRanked(a) + GapRanked(b)
      BY DEF TwiceMedianGap, a, b, n
    <3>4. GapRanked(a) <= Tolerated \/ GapRanked(b) <= Tolerated
      BY <1>2, <3>2, <3>3, BacktestAssumption
    <3> QED BY <2>1, <3>1, <3>4
  <2> QED BY <1>3, <1>5, <2>2, <2>3
<1>8. PICK m \in Covered : GapOf(m) = GapRanked(k) /\ Cardinality(NoWider(m)) >= k
  BY <1>1, <1>7, RankedGap
<1>9. NoWider(m) \subseteq DenseMarkets
  <2> SUFFICES ASSUME NEW o \in Covered, GapOf(o) <= GapOf(m) PROVE o \in DenseMarkets
    BY DEF NoWider
  <2>1. GapOf(o) \in Nat /\ GapOf(m) \in Nat
    BY <1>3, GapOfMarket, BacktestFacts
  <2>2. GapOf(o) <= Tolerated
    BY <1>7, <1>8, <2>1, BacktestAssumption
  <2> QED BY <1>6, <2>2, NarrowIsDense
<1>10. /\ Cardinality(NoWider(m)) <= Cardinality(DenseMarkets)
       /\ Cardinality(NoWider(m)) \in Nat /\ Cardinality(DenseMarkets) \in Nat
  <2>1. DenseMarkets \in SUBSET Covered
    BY DEF DenseMarkets
  <2> QED BY <1>3, <1>9, <2>1, FS_Subset, FS_CardinalityType
<1>11. 2 * Cardinality(DenseMarkets) >= n
  <2> HIDE DEF n
  <2> QED BY <1>3, <1>7, <1>8, <1>10
<1> QED BY <1>4, <1>11

\* Data that was accepted is dense where it counts (coverage.py audit): at least half
\* of its markets were seen twice or more, never further apart than tolerated, and it
\* holds both outcomes and open markets.
THEOREM AcceptedStaysDense == BacktestSpec => []AcceptedDataIsDense
<1> DEFINE Inv == AcceptedDataIsDense /\ snaps \in [Markets -> SUBSET Window]
                  /\ outcomes \in [Markets -> Outcome]
<1>1. BacktestInit => Inv
  BY DEF BacktestInit, AcceptedDataIsDense
<1>2. Inv /\ [BacktestNext]_btVars => Inv'
  <2> SUFFICES ASSUME Inv, [BacktestNext]_btVars PROVE Inv'
    OBVIOUS
  <2>1. UNCHANGED <<snaps, outcomes, ignoring>>
    BY DEF BacktestNext, Audit, Observe, Apply, Raise, Point, Score, btVars
  <2>2. stage' \in {"next", "act", "scored"} /\ ~ignoring
        => stage \in {"next", "act", "scored"} \/ Refusals = {}
    BY DEF BacktestNext, Audit, Observe, Apply, Raise, Point, Score, btVars
  <2>3. AcceptedDataIsDense'
    <3>1. ASSUME stage' \in {"next", "act", "scored"}, ~ignoring
          PROVE  /\ 2 * Cardinality(DenseMarkets) >= Cardinality(Covered)
                 /\ \E m, n \in Covered : Resolved(m) /\ ~Resolved(n)
      <4>1. CASE Refusals = {}
        BY <4>1, AcceptedIsDense
      <4>2. CASE stage \in {"next", "act", "scored"}
        BY <3>1, <4>2 DEF AcceptedDataIsDense, DenseMarkets
      <4> QED BY <2>2, <3>1, <4>1, <4>2
    <3>2. DenseMarkets' = DenseMarkets /\ Covered' = Covered
      BY <2>1 DEF DenseMarkets, Covered
    <3>3. \A m : Resolved(m)' <=> Resolved(m)
      BY <2>1 DEF Resolved
    <3> QED BY <2>1, <3>1, <3>2, <3>3 DEF AcceptedDataIsDense, DenseMarkets
  <2> QED BY <2>1, <2>3
<1>3. Inv => AcceptedDataIsDense
  OBVIOUS
<1> QED BY <1>1, <1>2, <1>3, PTL DEF BacktestSpec

-------------------------------------------------------------------------------
(* The report card                                                             *)

FillRow ==
    {f \in [by : Decisions \cup {Manual}, ticker : Contracts, route : Exchanges,
            realized : Int, fee : Int] : f.by \in Decisions => f.route = RouteOf[f.by]}

HistoryOK ==
    /\ fillRows \in Seq(FillRow)
    /\ settledRows \subseteq [ticker : Contracts, route : Exchanges, realized : Int]
    /\ IsFiniteSet(settledRows)

LEMMA ReportFacts ==
    (\A gain \in Amounts : gain \in Int) /\ RowFee \in Int
<1>1. Amounts \subseteq Int /\ RowFee \in Nat
  BY ReportAssumption
<1> QED BY <1>1

LEMMA HistoryKept ==
    ASSUME HistoryOK, [ReportNext]_rcVars
    PROVE  HistoryOK'
<1>1. ASSUME NEW by \in Decisions \cup {Manual}, NEW ticker \in Contracts,
             NEW route \in Exchanges, NEW gain \in Amounts,
             Traded(by, ticker, route, gain)
      PROVE  HistoryOK'
  <2> DEFINE f == [by |-> by, ticker |-> ticker, route |-> route, realized |-> gain,
                   fee |-> RowFee]
  <2>1. f \in FillRow
    <3>1. gain \in Int /\ RowFee \in Int
      BY ReportFacts
    <3>3. by \in Decisions => route = RouteOf[by]
      BY <1>1 DEF Traded
    <3>2. f \in [by : Decisions \cup {Manual}, ticker : Contracts, route : Exchanges,
                 realized : Int, fee : Int]
      BY <3>1
    <3> QED BY <3>2, <3>3 DEF FillRow
  <2>2. fillRows' = Append(fillRows, f) /\ settledRows' = settledRows
    BY <1>1 DEF Traded
  <2> HIDE DEF f
  <2> QED BY <2>1, <2>2 DEF HistoryOK
<1>2. ASSUME NEW ticker \in Contracts, NEW route \in Exchanges, NEW gain \in Amounts,
             SettledAt(ticker, route, gain)
      PROVE  HistoryOK'
  <2> DEFINE s == [ticker |-> ticker, route |-> route, realized |-> gain]
  <2>1. s \in [ticker : Contracts, route : Exchanges, realized : Int]
    BY ReportFacts
  <2>2. settledRows' = settledRows \cup {s} /\ fillRows' = fillRows
    BY <1>2 DEF SettledAt
  <2> HIDE DEF s
  <2> QED BY <2>1, <2>2, FS_AddElement DEF HistoryOK
<1>3. CASE UNCHANGED rcVars
  BY <1>3 DEF rcVars, HistoryOK
<1> QED BY <1>1, <1>2, <1>3 DEF ReportNext

LEMMA RowFacts ==
    ASSUME HistoryOK
    PROVE  /\ IsFiniteSet(DOMAIN fillRows) /\ IsFiniteSet(settledRows) /\ IsFiniteSet(Attributed)
           /\ \A i \in DOMAIN fillRows : /\ fillRows[i].by \in Decisions \cup {Manual}
                                         /\ fillRows[i].by \in Decisions
                                                => fillRows[i].route = RouteOf[fillRows[i].by]
                                         /\ FillNet[i] \in Int
           /\ \A s \in settledRows : /\ s.ticker \in Contracts /\ s.route \in Exchanges
                                     /\ SettledNet[s] \in Int
<1>1. DOMAIN fillRows = 1 .. Len(fillRows) /\ Len(fillRows) \in Nat
      /\ \A i \in DOMAIN fillRows : fillRows[i] \in FillRow
  BY DEF HistoryOK
<1>2. IsFiniteSet(DOMAIN fillRows)
  BY <1>1, FS_Interval
<1>3. IsFiniteSet(settledRows) /\ IsFiniteSet(Attributed)
  BY FS_Subset DEF HistoryOK, Attributed
<1>4. \A i \in DOMAIN fillRows : /\ fillRows[i].by \in Decisions \cup {Manual}
                                 /\ fillRows[i].by \in Decisions
                                        => fillRows[i].route = RouteOf[fillRows[i].by]
                                 /\ FillNet[i] \in Int
  BY <1>1 DEF FillRow, FillNet
<1>5. \A s \in settledRows : /\ s.ticker \in Contracts /\ s.route \in Exchanges
                             /\ SettledNet[s] \in Int
  BY DEF HistoryOK, SettledNet
<1> QED BY <1>2, <1>3, <1>4, <1>5

\* A market that one decision traded was touched by that decision's detector alone,
\* on that decision's route.
LEMMA SoleTouches ==
    ASSUME HistoryOK, NEW t, NEW r, Sole(t, r) # Manual
    PROVE  /\ Sole(t, r) \in Traders /\ Sole(t, r) \in Decisions
           /\ Touched(t, r) = {SourceOf[Sole(t, r)]}
           /\ RouteOf[Sole(t, r)] = r
<1> DEFINE by == {fillRows[i].by : i \in FillsOn(t, r)}
           p == Sole(t, r)
<1>1. Cardinality(by) = 1 /\ p = CHOOSE q \in by : TRUE
  BY DEF Sole
<1>2. IsFiniteSet(by)
  <2>1. by \in SUBSET (Decisions \cup {Manual})
    BY RowFacts DEF FillsOn
  <2>2. IsFiniteSet(Decisions \cup {Manual})
    BY ReportAssumption, FS_AddElement
  <2> HIDE DEF by
  <2> QED BY <2>1, <2>2, FS_Subset
<1>3. by = {p}
  <2> HIDE DEF by, p
  <2>1. PICK x : by = {x}
    BY <1>1, <1>2, FS_Singleton
  <2> QED BY <1>1, <2>1
<1>4. PICK j \in FillsOn(t, r) : fillRows[j].by = p
  BY <1>3
<1>5. \A i \in FillsOn(t, r) : fillRows[i].by = p
  BY <1>3
<1>6. j \in DOMAIN fillRows /\ fillRows[j].route = r /\ p # Manual
  BY DEF FillsOn
<1> HIDE DEF by, p
<1>7. p \in Decisions /\ RouteOf[p] = r /\ p \in Traders
  BY <1>4, <1>6, RowFacts DEF Traders
<1>8. Touched(t, r) = {SourceOf[p]}
  BY <1>4, <1>5, <1>6 DEF Touched
<1> QED BY <1>7, <1>8 DEF p

\* An attributed settlement's observation belongs to the one detector that touched its
\* market, on its own route.
LEMMA OwnerOfSettled ==
    ASSUME HistoryOK, NEW s \in Attributed
    PROVE  \E d : Touched(s.ticker, s.route) = {d} /\ OwnerOf(KeyOf(s)) = <<d, s.route>>
<1>1. CASE Sole(s.ticker, s.route) # Manual
  <2>1. KeyOf(s) = <<"proposal", Sole(s.ticker, s.route)>>
    BY <1>1 DEF KeyOf
  <2> QED BY <1>1, <2>1, SoleTouches DEF OwnerOf
<1>2. CASE Sole(s.ticker, s.route) = Manual
  <2> DEFINE key == <<"settlement", s.ticker, s.route>>
             u == CHOOSE r \in SettledRowsOf(key) : TRUE
  <2>1. KeyOf(s) = key
    BY <1>2 DEF KeyOf
  <2>2. s \in SettledRowsOf(key)
    BY <2>1 DEF SettledRowsOf
  <2>3. u \in SettledRowsOf(key)
    <3> HIDE DEF key
    <3> QED BY <2>2
  <2>4. u.ticker = s.ticker /\ u.route = s.route
    <3> HIDE DEF u
    <3>1. KeyOf(u) = key
      BY <2>3 DEF SettledRowsOf
    <3> QED BY <3>1 DEF KeyOf
  <2>5. OwnerOf(key) = <<CHOOSE d \in Touched(u.ticker, u.route) : TRUE, u.route>>
    BY DEF OwnerOf
  <2>6. PICK d : Touched(s.ticker, s.route) = {d}
    <3> DEFINE X == {fillRows[i].by : i \in {j \in FillsOn(s.ticker, s.route) :
                                               fillRows[j].by # Manual}}
               f == [p \in X |-> SourceOf[p]]
    <3>1. f \in Surjection(X, Touched(s.ticker, s.route))
      BY DEF Touched, Surjection
    <3>2. Cardinality(Touched(s.ticker, s.route)) = 1
      BY DEF Attributed
    <3>4. IsFiniteSet(X)
      <4>1. X \in SUBSET Decisions
        BY RowFacts DEF FillsOn
      <4> HIDE DEF X
      <4> QED BY <4>1, ReportAssumption, FS_Subset
    <3> HIDE DEF X, f
    <3>3. IsFiniteSet(Touched(s.ticker, s.route))
      BY <3>1, <3>4, FS_Surjection
    <3> QED BY <3>2, <3>3, FS_Singleton
  <2> HIDE DEF u, key
  <2> QED BY <2>1, <2>4, <2>5, <2>6
<1> QED BY <1>1, <1>2

\* The rows of a detector on a route are those merged into its events there.
LEMMA RowsOfEvents ==
    ASSUME HistoryOK, NEW d, NEW r
    PROVE  /\ \A i \in DOMAIN fillRows :
                  <<"proposal", fillRows[i].by>> \in Events(d, r)
                    <=> /\ fillRows[i].by # Manual /\ SourceOf[fillRows[i].by] = d
                        /\ fillRows[i].route = r
           /\ \A s : s \in Attributed /\ KeyOf(s) \in Events(d, r)
                    <=> /\ s \in settledRows
                        /\ s.route = r /\ Touched(s.ticker, s.route) = {d}
<1>1. ASSUME NEW i \in DOMAIN fillRows
      PROVE  <<"proposal", fillRows[i].by>> \in Events(d, r)
                <=> /\ fillRows[i].by # Manual /\ SourceOf[fillRows[i].by] = d
                    /\ fillRows[i].route = r
  <2> DEFINE p == fillRows[i].by
  <2>1. OwnerOf(<<"proposal", p>>) = <<SourceOf[p], RouteOf[p]>>
    BY DEF OwnerOf
  <2>2. <<"proposal", p>> \in EventKeys <=> p # Manual
    <3>1. ASSUME NEW s \in Attributed, KeyOf(s) = <<"proposal", p>> PROVE p # Manual
      BY <3>1 DEF KeyOf
    <3>2. p # Manual => p \in Traders
      BY DEF Traders
    <3>3. <<"proposal", p>> \in {<<"proposal", q>> : q \in Traders} => p \in Traders
      OBVIOUS
    <3>4. p \in Traders => p # Manual
      BY DEF Traders
    <3> HIDE DEF p
    <3> QED BY <3>1, <3>2, <3>3, <3>4 DEF EventKeys
  <2>3. p # Manual => fillRows[i].route = RouteOf[p]
    BY RowFacts
  <2> HIDE DEF p
  <2>4. <<"proposal", p>> \in Events(d, r) <=> p # Manual /\ SourceOf[p] = d /\ RouteOf[p] = r
    BY <2>1, <2>2 DEF Events
  <2> QED BY <2>3, <2>4 DEF p
<1>2. ASSUME NEW s \in settledRows
      PROVE  s \in Attributed /\ KeyOf(s) \in Events(d, r)
                <=> s.route = r /\ Touched(s.ticker, s.route) = {d}
  <2>1. CASE s \notin Attributed
    <3>1. Touched(s.ticker, s.route) # {d}
      BY <2>1, FS_Singleton DEF Attributed
    <3> QED BY <2>1, <3>1
  <2>2. CASE s \in Attributed
    <3>1. PICK e : Touched(s.ticker, s.route) = {e} /\ OwnerOf(KeyOf(s)) = <<e, s.route>>
      BY <2>2, OwnerOfSettled
    <3>2. KeyOf(s) \in EventKeys
      BY <2>2 DEF EventKeys
    <3>3. KeyOf(s) \in Events(d, r) <=> e = d /\ s.route = r
      BY <3>1, <3>2 DEF Events
    <3> QED BY <2>2, <3>1, <3>3
  <2> QED BY <2>1, <2>2
<1>3. Attributed \subseteq settledRows
  BY DEF Attributed
<1> QED BY <1>1, <1>2, <1>3

LEMMA EventKeysFinite ==
    ASSUME HistoryOK
    PROVE  IsFiniteSet(EventKeys)
<1> DEFINE P == {"proposal"} \X Decisions
           T == {"settlement"} \X Contracts \X Exchanges
<1>1. IsFiniteSet({"proposal"}) /\ IsFiniteSet({"settlement"})
  BY FS_Singleton
<1>2. IsFiniteSet(P)
  BY <1>1, ReportAssumption, FS_Product
<1>3. IsFiniteSet(T)
  <2> DEFINE Q == ({"settlement"} \X Contracts) \X Exchanges
             f == [q \in Q |-> <<q[1][1], q[1][2], q[2]>>]
  <2>1. IsFiniteSet({"settlement"} \X Contracts)
    BY <1>1, ReportAssumption, FS_Product
  <2>2. IsFiniteSet(Q)
    BY <2>1, ReportAssumption, FS_Product
  <2>3. f \in Surjection(Q, T)
    <3>1. f \in [Q -> T]
      OBVIOUS
    <3>2. ASSUME NEW t \in T PROVE \E q \in Q : f[q] = t
      <4>1. <<<<t[1], t[2]>>, t[3]>> \in Q /\ f[<<<<t[1], t[2]>>, t[3]>>] = t
        OBVIOUS
      <4> QED BY <4>1
    <3> QED BY <3>1, <3>2 DEF Surjection
  <2> HIDE DEF Q, f, T
  <2> QED BY <2>2, <2>3, FS_Surjection
<1>4. EventKeys \in SUBSET (P \cup T)
  <2>1. ASSUME NEW p \in Traders PROVE <<"proposal", p>> \in P
    BY RowFacts DEF Traders
  <2>2. ASSUME NEW s \in Attributed PROVE KeyOf(s) \in P \cup T
    <3>1. s.ticker \in Contracts /\ s.route \in Exchanges
      BY RowFacts DEF Attributed
    <3>2. Sole(s.ticker, s.route) # Manual => Sole(s.ticker, s.route) \in Decisions
      BY SoleTouches
    <3> QED BY <3>1, <3>2 DEF KeyOf
  <2> QED BY <2>1, <2>2 DEF EventKeys
<1>5. IsFiniteSet(P \cup T)
  BY <1>2, <1>3, FS_Union
<1> HIDE DEF P, T
<1> QED BY <1>4, <1>5, FS_Subset

LEMMA EventsSumUp ==
    ASSUME HistoryOK
    PROVE  EventsAreTheirRows
<1> SUFFICES ASSUME NEW d \in Detectors, NEW r \in Exchanges
             PROVE  TotalOver([key \in EventKeys |-> NetOf(key)], Events(d, r)) =
                        TotalOver(FillNet, {i \in DOMAIN fillRows :
                            /\ fillRows[i].by # Manual /\ SourceOf[fillRows[i].by] = d
                            /\ fillRows[i].route = r})
                        + TotalOver(SettledNet, {s \in settledRows :
                            /\ s.route = r
                            /\ {d} = {SourceOf[f.by] : f \in
                                {g \in Range(fillRows) : /\ g.ticker = s.ticker
                                                        /\ g.route = r /\ g.by # Manual}}})
  BY DEF EventsAreTheirRows
<1> DEFINE E == Events(d, r)
           net == [key \in EventKeys |-> NetOf(key)]
           ofFills == [key \in E |-> TotalOver(FillNet, FillRowsOf(key))]
           ofSettled == [key \in E |-> TotalOver(SettledNet, SettledRowsOf(key))]
           fillKey == [i \in DOMAIN fillRows |-> <<"proposal", fillRows[i].by>>]
           settledKey == [s \in Attributed |-> KeyOf(s)]
<1>1. IsFiniteSet(E) /\ E \subseteq EventKeys
  <2>1. E \in SUBSET EventKeys
    BY DEF Events
  <2> QED BY <2>1, EventKeysFinite, FS_Subset
<1>2. /\ TotalOver(ofFills, E) = TotalOver(FillNet, Class(DOMAIN fillRows, fillKey, E))
      /\ \A c \in E : ofFills[c] \in Int
  <2>1. SumsClasses(ofFills, FillNet, DOMAIN fillRows, fillKey, E)
    BY DEF FillRowsOf, Class, SumsClasses
  <2>2. IsFiniteSet(DOMAIN fillRows) /\ \A i \in DOMAIN fillRows : FillNet[i] \in Int
    BY RowFacts
  <2> HIDE DEF ofFills, fillKey, E
  <2> QED BY <1>1, <2>1, <2>2, TotalOverClasses
<1>3. /\ TotalOver(ofSettled, E) = TotalOver(SettledNet, Class(Attributed, settledKey, E))
      /\ \A c \in E : ofSettled[c] \in Int
  <2>1. SumsClasses(ofSettled, SettledNet, Attributed, settledKey, E)
    BY DEF SettledRowsOf, Class, SumsClasses
  <2>2. IsFiniteSet(Attributed) /\ \A s \in Attributed : SettledNet[s] \in Int
    BY RowFacts DEF Attributed
  <2> HIDE DEF ofSettled, settledKey, E
  <2> QED BY <1>1, <2>1, <2>2, TotalOverClasses
<1>4. TotalOver(net, E) = TotalOver(ofFills, E) + TotalOver(ofSettled, E)
  <2>1. \A c \in E : net[c] = ofFills[c] + ofSettled[c]
    BY <1>1 DEF NetOf
  <2> HIDE DEF net, ofFills, ofSettled, E
  <2> QED BY <1>1, <1>2, <1>3, <2>1, TotalOverPlus
<1>5. /\ Class(DOMAIN fillRows, fillKey, E) = {i \in DOMAIN fillRows :
            /\ fillRows[i].by # Manual /\ SourceOf[fillRows[i].by] = d
            /\ fillRows[i].route = r}
      /\ Class(Attributed, settledKey, E)
            = {s \in settledRows : s.route = r /\ Touched(s.ticker, s.route) = {d}}
  <2>1. Class(DOMAIN fillRows, fillKey, E) = {i \in DOMAIN fillRows :
            /\ fillRows[i].by # Manual /\ SourceOf[fillRows[i].by] = d
            /\ fillRows[i].route = r}
    <3>1. \A i \in DOMAIN fillRows : fillKey[i] \in E
              <=> /\ fillRows[i].by # Manual /\ SourceOf[fillRows[i].by] = d
                  /\ fillRows[i].route = r
      BY RowsOfEvents
    <3> HIDE DEF fillKey, E
    <3> QED BY <3>1 DEF Class
  <2>2. \A s : s \in Class(Attributed, settledKey, E)
                  <=> s \in Attributed /\ KeyOf(s) \in Events(d, r)
    BY DEF Class
  <2> HIDE DEF settledKey, E
  <2>3. Class(Attributed, settledKey, E)
            = {s \in settledRows : s.route = r /\ Touched(s.ticker, s.route) = {d}}
    <3> DEFINE A == Class(Attributed, settledKey, E)
    <3>1. \A s : s \in Attributed /\ KeyOf(s) \in Events(d, r)
                    <=> /\ s \in settledRows
                        /\ s.route = r /\ Touched(s.ticker, s.route) = {d}
      BY RowsOfEvents
    <3>2. \A s : s \in A <=> /\ s \in settledRows
                           /\ s.route = r /\ Touched(s.ticker, s.route) = {d}
      BY <2>2, <3>1
    <3> HIDE DEF A
    <3>3. A = {s \in settledRows : s.route = r /\ Touched(s.ticker, s.route) = {d}}
      BY <3>2
    <3> QED BY <3>3 DEF A
  <2> HIDE DEF fillKey
  <2> QED BY <2>1, <2>3
<1>6. \A s \in settledRows : s.route = r =>
         Touched(s.ticker, s.route) = {SourceOf[f.by] : f \in
             {g \in Range(fillRows) : /\ g.ticker = s.ticker /\ g.route = r /\ g.by # Manual}}
  BY DEF Touched, FillsOn, Range
<1>7. {s \in settledRows : s.route = r /\ Touched(s.ticker, s.route) = {d}}
          = {s \in settledRows :
                /\ s.route = r
                /\ {d} = {SourceOf[f.by] : f \in
                    {g \in Range(fillRows) : /\ g.ticker = s.ticker
                                            /\ g.route = r /\ g.by # Manual}}}
  BY <1>6
<1> QED BY <1>2, <1>3, <1>4, <1>5, <1>7

\* Routes are never merged and no cent is counted twice or dropped: the events of a
\* detector on a route sum to the net of its own fills there and of the settlements
\* there that it alone touched, for every history (report.py attribute_events).
THEOREM EveryCentIsAttributed == ReportSpec => []EventsAreTheirRows
<1>1. ReportInit => HistoryOK
  BY FS_EmptySet DEF ReportInit, HistoryOK
<1>2. HistoryOK /\ [ReportNext]_rcVars => HistoryOK'
  BY HistoryKept
<1>3. HistoryOK => EventsAreTheirRows
  BY EventsSumUp
<1> QED BY <1>1, <1>2, <1>3, PTL DEF ReportSpec

===============================================================================
