------------------------- MODULE PositionLedger_proofs -------------------------
(* Proofs about PositionLedger and the arithmetic it rests on: its types, that *)
(* a position is the sum of its fills and the day the sum of the positions, in *)
(* whatever order transactions read, write, commit and fail, except where an   *)
(* outdated copy was written.                                                  *)
EXTENDS PositionLedger, Sums_proofs

-------------------------------------------------------------------------------
(* The arithmetic *)

\* A quotient stored in a NUMERIC column lies between the bounds of what was
\* divided.
LEMMA StoredBounds ==
    ASSUME NEW a \in Nat, NEW b \in Nat, b > 0, NEW m \in Nat, a <= m * b
    PROVE  Stored(a, b) \in 0 .. m
<1> DEFINE q == (2 * a + b) \div (2 * b)
           d == 2 * b
           n == 2 * a + b
<1>1. d \in Nat /\ d > 0 /\ n \in Nat
  OBVIOUS
<1>2. q \in Int /\ n = d * q + (n % d) /\ n % d \in 0 .. (d - 1)
  BY <1>1
<1>3. q >= 0
  <2> SUFFICES ASSUME q <= -1 PROVE FALSE
    BY <1>2
  <2>1. d * q <= -d
    BY <1>1, <1>2
  <2> QED BY <2>1, <1>1, <1>2
<1>4. q <= m
  <2> SUFFICES ASSUME q >= m + 1 PROVE FALSE
    BY <1>2
  <2>1. d * q >= d * (m + 1)
    BY <1>1, <1>2
  <2>2. d * (m + 1) = 2 * (m * b) + 2 * b
    OBVIOUS
  <2> QED BY <2>1, <2>2, <1>1, <1>2
<1> QED BY <1>2, <1>3, <1>4 DEF Stored

\* An average of prices is a price, whatever is added to whatever is held.
LEMMA AverageIsPrice ==
    ASSUME NEW net \in Int, NEW avg \in Price, NEW delta \in Int, NEW price \in Price,
           delta # 0
    PROVE  WeightedAvg(net, avg, delta, price) \in Price
<1>0. One \in Nat
  BY OneAssumption
<1> DEFINE x == Abs(net)
           y == Abs(delta)
<1>1. x \in Nat /\ y \in Nat /\ y > 0
  BY DEF Abs
<1>2. avg \in Nat /\ avg <= One /\ price \in Nat /\ price <= One
  BY <1>0 DEF Price
<1> HIDE DEF x, y
<1>3. avg * x \in Nat /\ avg * x <= One * x
  BY <1>0, <1>1, <1>2
<1>4. price * y \in Nat /\ price * y <= One * y
  BY <1>0, <1>1, <1>2
<1>5. One * (x + y) = One * x + One * y
  BY <1>0, <1>1
<1>6. avg * x + price * y \in Nat /\ avg * x + price * y <= One * (x + y)
  BY <1>0, <1>1, <1>3, <1>4, <1>5
<1>7. Stored(avg * x + price * y, x + y) \in 0 .. One
  BY <1>0, <1>1, <1>6, StoredBounds
<1> QED BY <1>7 DEF WeightedAvg, x, y, Price

\* A position's average is a price after every fill: opened, added to, reduced,
\* closed or crossed through zero (realized_from_fill).
THEOREM AverageStaysPrice ==
    ASSUME NEW net \in Int, NEW avg \in Price, NEW delta \in Int, NEW price \in Price
    PROVE  AvgAfter(net, avg, delta, price) \in Price
<1>1. 0 \in Price
  BY OneAssumption DEF Price
<1>2. Kept(net, avg, delta, price) \in Price
  BY <1>1 DEF Kept
<1> QED BY <1>2, AverageIsPrice DEF AvgAfter

\* A fill that reduces, closes or crosses a position conserves money exactly: the
\* change of what is realized, less the change of what the open contracts cost, is
\* the cash the fill brought in (realized_from_fill).
THEOREM ReducingConservesCash ==
    ASSUME NEW net \in Int, NEW avg \in Int, NEW delta \in Int, NEW price \in Int,
           ~Adds(net, delta)
    PROVE  Realized(net, avg, delta, price)
             = (net + delta) * AvgAfter(net, avg, delta, price) - net * avg - delta * price
<1>0. CASE delta = 0
  BY <1>0 DEF Realized, AvgAfter
<1>1. CASE delta # 0 /\ Abs(delta) <= Abs(net)
  <2>1. Closed(net, delta) * Direction(net) = -delta
    BY <1>1 DEF Closed, Direction, Adds, Abs
  <2>2. Realized(net, avg, delta, price) = (price - avg) * (-delta)
    <3>1. Closed(net, delta) \in Int /\ Direction(net) \in Int
      BY DEF Closed, Direction, Abs
    <3>2. (price - avg) * Closed(net, delta) * Direction(net)
            = (price - avg) * (Closed(net, delta) * Direction(net))
      BY <3>1
    <3> QED BY <1>1, <2>1, <3>2 DEF Realized
  <2>3. (net + delta) * AvgAfter(net, avg, delta, price) = (net + delta) * avg
    <3>1. CASE net + delta = 0
      BY <1>1, <3>1 DEF AvgAfter, Kept
    <3>2. CASE net + delta # 0
      BY <1>1, <3>2 DEF AvgAfter, Kept, Adds, Abs
    <3> QED BY <3>1, <3>2
  <2>4. (price - avg) * (-delta) = (net + delta) * avg - net * avg - delta * price
    OBVIOUS
  <2> QED BY <2>2, <2>3, <2>4
<1>2. CASE delta # 0 /\ ~(Abs(delta) <= Abs(net))
  <2>1. Closed(net, delta) * Direction(net) = net
    BY <1>2 DEF Closed, Direction, Adds, Abs
  <2>2. Realized(net, avg, delta, price) = (price - avg) * net
    <3>1. Closed(net, delta) \in Int /\ Direction(net) \in Int
      BY DEF Closed, Direction, Abs
    <3>2. (price - avg) * Closed(net, delta) * Direction(net)
            = (price - avg) * (Closed(net, delta) * Direction(net))
      BY <3>1
    <3> QED BY <1>2, <2>1, <3>2 DEF Realized
  <2>3. AvgAfter(net, avg, delta, price) = price
    BY <1>2 DEF AvgAfter, Kept, Adds, Abs
  <2>4. (price - avg) * net = (net + delta) * price - net * avg - delta * price
    OBVIOUS
  <2> QED BY <2>2, <2>3, <2>4
<1> QED BY <1>0, <1>1, <1>2

-------------------------------------------------------------------------------
(* The inductive invariant *)

\* A row never vanishes: what a transaction saw is there when it writes.
ViewsStand ==
    \A s \in Sessions :
        /\ txn[s].pc = "position" =>
              /\ txn[s].op \in Op
              /\ txn[s].view # Absent => Visible(s, txn[s].op.ticker) # Absent
        /\ txn[s].pc = "day" =>
              /\ txn[s].op \in Op
              /\ txn[s].dayView # Absent => VisibleDay(s) # Absent

\* Two open transactions never have written the same row.
OneWriter ==
    \A s, x \in Sessions : s # x =>
        /\ \A t \in Tickers : txn[s].rows[t] = Absent \/ txn[x].rows[t] = Absent
        /\ txn[s].day = Absent \/ txn[x].day = Absent

\* A fill is in the database or in one transaction, never in two places.
OneBooking ==
    \A s \in Sessions :
        /\ txn[s].booked \cap booked = {}
        /\ \A x \in Sessions \ {s} : txn[s].booked \cap txn[x].booked = {}

LedgerInv == TypeOK /\ ViewsStand /\ OneWriter /\ OneBooking

-------------------------------------------------------------------------------
(* What the operators return *)

LEMMA AbsentIsNoRow ==
    /\ \A r \in Position : r # Absent
    /\ \A r \in Day : r # Absent
BY DEF Position, Day, Absent

LEMMA FlatIsPosition == Flat \in Position
BY OneAssumption DEF Flat, Position, Price

LEMMA NewDayIsDay == NewDay \in Day
BY DEF NewDay, Day

\* What a transaction computes and writes is a row again.
LEMMA WrittenPosition ==
    ASSUME NEW view \in Position \cup {Absent}, NEW new \in Position,
           NEW now \in Position \cup {Absent}, view # Absent => now # Absent
    PROVE  Written(view, new, now) \in Position
<1>1. CASE view = Absent
  BY <1>1 DEF Written
<1>2. CASE view # Absent
  <2>1. now \in Position /\ view \in Position
    BY <1>2
  <2>2. Written(view, new, now) =
          [c \in {"net", "avg", "realized"} |-> IF new[c] # view[c] THEN new[c] ELSE now[c]]
    BY <1>2 DEF Written, Position
  <2> QED BY <2>1, <2>2 DEF Position
<1> QED BY <1>1, <1>2

LEMMA WrittenDay ==
    ASSUME NEW view \in Day \cup {Absent}, NEW new \in Day,
           NEW now \in Day \cup {Absent}, view # Absent => now # Absent
    PROVE  Written(view, new, now) \in Day
<1>1. CASE view = Absent
  BY <1>1 DEF Written
<1>2. CASE view # Absent
  <2>1. now \in Day /\ view \in Day
    BY <1>2
  <2>2. Written(view, new, now) =
          [c \in {"realized", "trades", "settlements"} |->
              IF new[c] # view[c] THEN new[c] ELSE now[c]]
    BY <1>2 DEF Written, Day
  <2> QED BY <2>1, <2>2 DEF Day
<1> QED BY <1>1, <1>2

LEMMA RealizedIsInt ==
    ASSUME NEW net \in Int, NEW avg \in Int, NEW delta \in Int, NEW price \in Int
    PROVE  Realized(net, avg, delta, price) \in Int
<1>1. Closed(net, delta) \in Int /\ Direction(net) \in Int
  BY DEF Closed, Direction, Abs
<1> QED BY <1>1 DEF Realized

LEMMA FoldedPosition ==
    ASSUME NEW op \in Op, NEW row \in Position
    PROVE  Folded(op, row) \in Position
<1>1. /\ row.net \in Int /\ row.avg \in Price /\ row.avg \in Int /\ row.realized \in Int
      /\ op.delta \in Int /\ op.price \in Price /\ op.price \in Int
  BY OneAssumption DEF Op, Position, Price
<1>2. CASE op.kind = "settlement"
  BY <1>1, <1>2, OneAssumption DEF Folded, Settled, Position, Price
<1>3. CASE op.kind # "settlement"
  <2>1. AvgAfter(row.net, row.avg, op.delta, op.price) \in Price
    BY <1>1, AverageStaysPrice
  <2>2. Realized(row.net, row.avg, op.delta, op.price) \in Int
    BY <1>1, RealizedIsInt
  <2> QED BY <1>1, <1>3, <2>1, <2>2 DEF Folded, Position
<1> QED BY <1>2, <1>3

LEMMA RolledDay ==
    ASSUME NEW kind, NEW r \in Int, NEW row \in Day
    PROVE  Rolled(kind, r, row) \in Day
BY DEF Rolled, Day

LEMMA DayFolded ==
    ASSUME NEW x \in Txn, NEW row \in Day, NEW zero \in Int
    PROVE  [x EXCEPT !.pc = "ready", !.day = row, !.op = NoOp,
                     !.realized = zero, !.dayView = Absent] \in Txn
BY DEF Txn

LEMMA VisibleTyped ==
    ASSUME TypeOK, NEW s \in Sessions
    PROVE  /\ \A t \in Tickers : Visible(s, t) \in Position \cup {Absent}
           /\ VisibleDay(s) \in Day \cup {Absent}
<1>1. txn[s] \in Txn
  BY DEF TypeOK
<1>2. txn[s].rows \in [Tickers -> Position \cup {Absent}] /\ txn[s].day \in Day \cup {Absent}
  BY <1>1 DEF Txn
<1> QED BY <1>2 DEF TypeOK, Visible, VisibleDay, Over

LEMMA IdleTyped == Idle \in Txn /\ Idle.pc = "ready" /\ Idle.booked = {} /\ Idle.day = Absent
                   /\ \A t \in Tickers : Idle.rows[t] = Absent
BY DEF Idle, Txn

LEMMA FillOfTyped ==
    ASSUME NEW f \in Fills
    PROVE  /\ FillOf[f].ticker \in Tickers
           /\ SignedContracts(FillOf[f].side, FillOf[f].action, FillOf[f].contracts) \in Int
           /\ ToYesPrice(FillOf[f].side, FillOf[f].price) \in Price
<1>1. FillOf[f] \in FillRecord
  BY LedgerAssumption
<1>2. FillOf[f].contracts \in Int /\ FillOf[f].price \in Price /\ FillOf[f].ticker \in Tickers
  BY <1>1 DEF FillRecord
<1> QED BY <1>2, OneAssumption DEF SignedContracts, ToYesPrice, Price

-------------------------------------------------------------------------------
(* Every step keeps the invariant *)

LEMMA LedgerInvInit == Init => LedgerInv
<1> SUFFICES ASSUME Init PROVE LedgerInv
  OBVIOUS
<1>1. TypeOK
  BY IdleTyped, LedgerAssumption DEF Init, TypeOK
<1>2. \A s \in Sessions : txn[s] = Idle
  BY DEF Init
<1> QED BY <1>1, <1>2, IdleTyped DEF LedgerInv, ViewsStand, OneWriter, OneBooking, Init

LEMMA ResolveKeeps ==
    ASSUME LedgerInv, NEW t \in Tickers, Resolve(t)
    PROVE  LedgerInv'
BY DEF LedgerInv, TypeOK, ViewsStand, OneWriter, OneBooking, Resolve, Visible, VisibleDay

LEMMA ReadFillKeeps ==
    ASSUME LedgerInv, NEW s \in Traders, NEW f \in Fills, ReadFill(s, f)
    PROVE  LedgerInv'
<1>0. s \in Sessions
  BY DEF Sessions
<1> DEFINE o == FillOf[f]
           op == [kind |-> "fill", ticker |-> o.ticker,
                  delta |-> SignedContracts(o.side, o.action, o.contracts),
                  price |-> ToYesPrice(o.side, o.price)]
           view == Visible(s, o.ticker)
<1>1. op \in Op /\ o.ticker \in Tickers
  BY FillOfTyped DEF Op
<1>2. view \in Position \cup {Absent}
  BY <1>0, <1>1, VisibleTyped DEF LedgerInv
<1>3. txn[s] \in Txn
  BY <1>0 DEF LedgerInv, TypeOK
<1> DEFINE new == [txn[s] EXCEPT !.pc = "position", !.op = op, !.view = view,
                                 !.booked = txn[s].booked \cup {f}]
<1>4a. txn' = [txn EXCEPT ![s] = new]
  BY DEF ReadFill
<1> HIDE DEF op, view
<1>4b. /\ new \in Txn
       /\ new.pc = "position" /\ new.op = op /\ new.view = view
       /\ new.rows = txn[s].rows /\ new.day = txn[s].day
       /\ new.booked = txn[s].booked \cup {f}
  BY <1>1, <1>2, <1>3 DEF Txn
<1> HIDE DEF new
<1>4. /\ txn' \in [Sessions -> Txn]
      /\ txn'[s].pc = "position" /\ txn'[s].op = op /\ txn'[s].view = view
      /\ txn'[s].rows = txn[s].rows /\ txn'[s].day = txn[s].day
      /\ txn'[s].booked = txn[s].booked \cup {f}
      /\ \A x \in Sessions \ {s} : txn'[x] = txn[x]
  BY <1>0, <1>4a, <1>4b DEF LedgerInv, TypeOK
<1>5. UNCHANGED <<positions, daily, booked, settlements, resolved, aborts, raced>>
  BY DEF ReadFill
<1>6. TypeOK'
  BY <1>4, <1>5 DEF LedgerInv, TypeOK
<1>7. \A x \in Sessions : /\ \A t \in Tickers : Visible(x, t)' = Visible(x, t)
                          /\ VisibleDay(x)' = VisibleDay(x)
  BY <1>4, <1>5 DEF Visible, VisibleDay
<1>8. ViewsStand'
  <2>1. op.ticker = o.ticker /\ view = Visible(s, o.ticker)
    BY DEF op, view
  <2>2. \A x \in Sessions \ {s} : (txn[x].pc \in {"position", "day"}) => txn[x].op.ticker \in Tickers
    BY DEF LedgerInv, ViewsStand, Op
  <2> QED BY <1>0, <1>1, <1>4, <1>7, <2>1, <2>2 DEF LedgerInv, ViewsStand
<1>9. OneWriter'
  BY <1>0, <1>4 DEF LedgerInv, OneWriter
<1>10. OneBooking'
  <2>1. f \notin booked /\ \A x \in Sessions : f \notin txn[x].booked
    BY DEF ReadFill
  <2> QED BY <1>0, <1>4, <1>5, <2>1 DEF LedgerInv, OneBooking
<1> QED BY <1>6, <1>8, <1>9, <1>10 DEF LedgerInv

LEMMA ReadSettlementKeeps ==
    ASSUME LedgerInv, NEW t \in Tickers, ReadSettlement(t)
    PROVE  LedgerInv'
<1> DEFINE s == Settler
           row == Visible(s, t)
           op == [kind |-> "settlement", ticker |-> t, delta |-> -row.net,
                  price |-> Payout[t]]
           st == [net |-> row.net, avg |-> row.avg]
<1>0. s \in Sessions
  BY DEF Sessions
<1>1. row \in Position
  BY <1>0, VisibleTyped DEF LedgerInv, ReadSettlement, Open
<1>2. op \in Op /\ st \in Settlement
  BY <1>1, LedgerAssumption DEF Op, Settlement, Position
<1>3. txn[s] \in Txn /\ txn \in [Sessions -> Txn]
  BY <1>0 DEF LedgerInv, TypeOK
<1> DEFINE new == [txn[s] EXCEPT !.pc = "position", !.op = op, !.view = row,
                                 !.settlements = [txn[s].settlements EXCEPT ![t] = st]]
<1>4a. txn' = [txn EXCEPT ![s] = new]
  BY DEF ReadSettlement
<1>4c. op.ticker = t
  OBVIOUS
<1>4d. row = Visible(s, t)
  OBVIOUS
<1> HIDE DEF op, st, row, s
<1>4b. /\ new \in Txn
       /\ new.pc = "position" /\ new.op = op /\ new.view = row
       /\ new.rows = txn[s].rows /\ new.day = txn[s].day
       /\ new.booked = txn[s].booked
  BY <1>1, <1>2, <1>3 DEF Txn
<1> HIDE DEF new
<1>4. /\ txn' \in [Sessions -> Txn]
      /\ txn'[s].pc = "position" /\ txn'[s].op = op /\ txn'[s].view = row
      /\ txn'[s].rows = txn[s].rows /\ txn'[s].day = txn[s].day
      /\ txn'[s].booked = txn[s].booked
      /\ \A x \in Sessions \ {s} : txn'[x] = txn[x]
  BY <1>0, <1>3, <1>4a, <1>4b
<1>5. UNCHANGED <<positions, daily, booked, settlements, resolved, aborts, raced>>
  BY DEF ReadSettlement
<1>6. TypeOK'
  BY <1>4, <1>5 DEF LedgerInv, TypeOK
<1>7. \A x \in Sessions : /\ \A u \in Tickers : Visible(x, u)' = Visible(x, u)
                          /\ VisibleDay(x)' = VisibleDay(x)
  BY <1>4, <1>5 DEF Visible, VisibleDay
<1>8. ViewsStand'
  <2>2. \A x \in Sessions \ {s} : (txn[x].pc \in {"position", "day"}) => txn[x].op.ticker \in Tickers
    BY DEF LedgerInv, ViewsStand, Op
  <2> QED BY <1>0, <1>2, <1>4, <1>4c, <1>4d, <1>7, <2>2 DEF LedgerInv, ViewsStand
<1>9. OneWriter'
  BY <1>0, <1>4 DEF LedgerInv, OneWriter
<1>10. OneBooking'
  BY <1>0, <1>4, <1>5 DEF LedgerInv, OneBooking
<1> QED BY <1>6, <1>8, <1>9, <1>10 DEF LedgerInv

LEMMA FoldPositionKeeps ==
    ASSUME LedgerInv, NEW s \in Sessions, FoldPosition(s)
    PROVE  LedgerInv'
<1> DEFINE t == txn[s].op.ticker
           view == txn[s].view
           now == Visible(s, t)
           folded == Folded(txn[s].op, Over(view, Flat))
           row == Written(view, folded, now)
           gain == folded.realized - Over(view, Flat).realized
           new == [txn[s] EXCEPT !.pc = "day", !.rows = [txn[s].rows EXCEPT ![t] = row],
                                 !.realized = gain, !.dayView = VisibleDay(s),
                                 !.view = Absent]
<1>1. txn[s] \in Txn /\ txn \in [Sessions -> Txn]
  BY DEF LedgerInv, TypeOK
<1>2. txn[s].op \in Op /\ t \in Tickers /\ (view # Absent => now # Absent)
  BY DEF LedgerInv, ViewsStand, FoldPosition, Op
<1>3. view \in Position \cup {Absent} /\ now \in Position \cup {Absent}
      /\ VisibleDay(s) \in Day \cup {Absent}
  BY <1>1, <1>2, VisibleTyped DEF Txn, LedgerInv
<1>4. Over(view, Flat) \in Position
  BY <1>3, FlatIsPosition DEF Over
<1>5. folded \in Position
  BY <1>2, <1>4, FoldedPosition
<1>6. row \in Position /\ row # Absent /\ gain \in Int
  <2>1. row \in Position
    BY <1>2, <1>3, <1>5, WrittenPosition
  <2>2. folded.realized \in Int /\ Over(view, Flat).realized \in Int
    BY <1>4, <1>5 DEF Position
  <2> QED BY <2>1, <2>2, AbsentIsNoRow
<1>7. txn' = [txn EXCEPT ![s] = new]
  BY DEF FoldPosition
<1>8. \A x \in Sessions \ {s} : txn[x].rows[t] = Absent
  BY <1>2 DEF FoldPosition, PositionLocked
<1>9. /\ UNCHANGED <<positions, daily, booked, settlements, resolved, aborts>>
      /\ raced' \in {raced, raced \cup {t}}
  BY DEF FoldPosition
<1> HIDE DEF t, view, now, folded, row, gain
<1>10. /\ new \in Txn
       /\ new.pc = "day" /\ new.op = txn[s].op /\ new.view = Absent
       /\ new.dayView = VisibleDay(s)
       /\ new.rows = [txn[s].rows EXCEPT ![t] = row] /\ new.day = txn[s].day
       /\ new.booked = txn[s].booked
  BY <1>1, <1>2, <1>3, <1>6 DEF Txn
<1>11. txn[s].rows \in [Tickers -> Position \cup {Absent}]
  BY <1>1 DEF Txn
<1> HIDE DEF new
<1>12. /\ txn' \in [Sessions -> Txn]
       /\ txn'[s].pc = "day" /\ txn'[s].op = txn[s].op
       /\ txn'[s].dayView = VisibleDay(s)
       /\ txn'[s].rows[t] = row
       /\ \A u \in Tickers \ {t} : txn'[s].rows[u] = txn[s].rows[u]
       /\ txn'[s].day = txn[s].day
       /\ txn'[s].booked = txn[s].booked
       /\ \A x \in Sessions \ {s} : txn'[x] = txn[x]
  BY <1>1, <1>2, <1>7, <1>10, <1>11
<1>13. TypeOK'
  BY <1>2, <1>9, <1>12 DEF LedgerInv, TypeOK
<1>14. \A x \in Sessions : VisibleDay(x)' = VisibleDay(x)
  BY <1>9, <1>12 DEF VisibleDay
<1>15. \A x \in Sessions \ {s}, u \in Tickers : Visible(x, u)' = Visible(x, u)
  BY <1>9, <1>12 DEF Visible
<1>16. ViewsStand'
  <2>1. \A x \in Sessions \ {s} : (txn[x].pc \in {"position", "day"}) => txn[x].op.ticker \in Tickers
    BY DEF LedgerInv, ViewsStand, Op
  <2> QED BY <1>2, <1>12, <1>14, <1>15, <2>1 DEF LedgerInv, ViewsStand
<1>17. OneWriter'
  BY <1>2, <1>6, <1>8, <1>12 DEF LedgerInv, OneWriter
<1>18. OneBooking'
  BY <1>9, <1>12 DEF LedgerInv, OneBooking
<1> QED BY <1>13, <1>16, <1>17, <1>18 DEF LedgerInv

LEMMA FoldDayKeeps ==
    ASSUME LedgerInv, NEW s \in Sessions, FoldDay(s)
    PROVE  LedgerInv'
<1> DEFINE view == txn[s].dayView
           now == VisibleDay(s)
           rolled == Rolled(txn[s].op.kind, txn[s].realized, Over(view, NewDay))
           row == Written(view, rolled, now)
           new == [txn[s] EXCEPT !.pc = "ready", !.day = row,
                                 !.op = NoOp, !.realized = 0, !.dayView = Absent]
<1>1. txn[s] \in Txn /\ txn \in [Sessions -> Txn]
  BY DEF LedgerInv, TypeOK
<1>2. view # Absent => now # Absent
  BY DEF LedgerInv, ViewsStand, FoldDay
<1>3. view \in Day \cup {Absent} /\ now \in Day \cup {Absent} /\ txn[s].realized \in Int
  BY <1>1, VisibleTyped DEF Txn, LedgerInv
<1>4. Over(view, NewDay) \in Day
  BY <1>3, NewDayIsDay DEF Over
<1>5. rolled \in Day
  BY <1>3, <1>4, RolledDay
<1>6. row \in Day /\ row # Absent
  BY <1>2, <1>3, <1>5, WrittenDay, AbsentIsNoRow
<1>7. txn' = [txn EXCEPT ![s] = new]
  BY DEF FoldDay
<1>8. \A x \in Sessions \ {s} : txn[x].day = Absent
  BY DEF FoldDay, DayLocked
<1>9. /\ UNCHANGED <<positions, daily, booked, settlements, resolved, aborts>>
      /\ raced' \in {raced, raced \cup {DailyRow}}
  BY DEF FoldDay
<1> HIDE DEF view, now, rolled, row
<1>10. /\ new \in Txn
       /\ new.pc = "ready" /\ new.rows = txn[s].rows /\ new.day = row
       /\ new.booked = txn[s].booked
  <2>1. new \in Txn
    <3>1. 0 \in Int
      OBVIOUS
    <3> QED BY <1>1, <1>6, <3>1, DayFolded, Zenon
  <2>2. new.pc = "ready" /\ new.rows = txn[s].rows /\ new.day = row /\ new.booked = txn[s].booked
    BY <1>1 DEF Txn
  <2> QED BY <2>1, <2>2
<1> HIDE DEF new
<1>12. /\ txn' \in [Sessions -> Txn]
       /\ txn'[s].pc = "ready" /\ txn'[s].rows = txn[s].rows /\ txn'[s].day = row
       /\ txn'[s].booked = txn[s].booked
       /\ \A x \in Sessions \ {s} : txn'[x] = txn[x]
  BY <1>1, <1>7, <1>10
<1>13. TypeOK'
  BY <1>9, <1>12 DEF LedgerInv, TypeOK
<1>14. \A x \in Sessions \ {s} :
          VisibleDay(x)' = VisibleDay(x) /\ \A u \in Tickers : Visible(x, u)' = Visible(x, u)
  BY <1>9, <1>12 DEF VisibleDay, Visible
<1>16. ViewsStand'
  <2>1. \A x \in Sessions \ {s} : (txn[x].pc \in {"position", "day"}) => txn[x].op.ticker \in Tickers
    BY DEF LedgerInv, ViewsStand, Op
  <2> QED BY <1>12, <1>14, <2>1 DEF LedgerInv, ViewsStand
<1>17. OneWriter'
  BY <1>8, <1>12 DEF LedgerInv, OneWriter
<1>18. OneBooking'
  BY <1>9, <1>12 DEF LedgerInv, OneBooking
<1> QED BY <1>13, <1>16, <1>17, <1>18 DEF LedgerInv

LEMMA CommitKeeps ==
    ASSUME LedgerInv, NEW s \in Sessions, Commit(s)
    PROVE  LedgerInv'
<1>1. txn[s] \in Txn /\ txn \in [Sessions -> Txn]
  BY DEF LedgerInv, TypeOK
<1>2. /\ txn' \in [Sessions -> Txn]
      /\ txn'[s] = Idle
      /\ \A x \in Sessions \ {s} : txn'[x] = txn[x]
  BY <1>1, IdleTyped DEF Commit
<1>3. /\ \A t \in Tickers : positions'[t] = Visible(s, t)
      /\ daily' = VisibleDay(s)
      /\ booked' = booked \cup txn[s].booked
      /\ UNCHANGED <<resolved, aborts, raced>>
  BY DEF Commit
<1>4. TypeOK'
  <2>1. positions' \in [Tickers -> Position \cup {Absent}] /\ daily' \in Day \cup {Absent}
    BY VisibleTyped DEF Commit, LedgerInv
  <2>2. booked' \subseteq Fills
    BY <1>1, <1>3 DEF Txn, LedgerInv, TypeOK
  <2>3. settlements' \in [Tickers -> Settlement \cup {Absent}]
    <3>1. txn[s].settlements \in [Tickers -> Settlement \cup {Absent}]
      BY <1>1 DEF Txn
    <3>2. settlements' = [t \in Tickers |-> Over(txn[s].settlements[t], settlements[t])]
      BY DEF Commit
    <3> QED BY <3>1, <3>2 DEF LedgerInv, TypeOK, Over
  <2> QED BY <1>2, <1>3, <2>1, <2>2, <2>3 DEF LedgerInv, TypeOK
<1>5. \A x \in Sessions \ {s} :
          /\ VisibleDay(x) # Absent => VisibleDay(x)' # Absent
          /\ \A u \in Tickers : Visible(x, u) # Absent => Visible(x, u)' # Absent
  BY <1>2, <1>3 DEF VisibleDay, Visible, Over
<1>6. ViewsStand'
  <2>1. \A x \in Sessions \ {s} : (txn[x].pc \in {"position", "day"}) => txn[x].op.ticker \in Tickers
    BY DEF LedgerInv, ViewsStand, Op
  <2> QED BY <1>2, <1>5, <2>1, IdleTyped DEF LedgerInv, ViewsStand
<1>7. OneWriter'
  BY <1>2, IdleTyped DEF LedgerInv, OneWriter
<1>8. OneBooking'
  BY <1>2, <1>3, IdleTyped DEF LedgerInv, OneBooking
<1> QED BY <1>4, <1>6, <1>7, <1>8 DEF LedgerInv

LEMMA RollBackKeeps ==
    ASSUME LedgerInv, NEW s \in Sessions, RollBack(s), aborts' \in Nat
    PROVE  LedgerInv'
<1>1. /\ txn' \in [Sessions -> Txn]
      /\ txn'[s] = Idle
      /\ \A x \in Sessions \ {s} : txn'[x] = txn[x]
  BY IdleTyped DEF RollBack, LedgerInv, TypeOK
<1>2. UNCHANGED <<positions, daily, booked, settlements, resolved, raced>>
  BY DEF RollBack
<1>3. TypeOK'
  BY <1>1, <1>2 DEF LedgerInv, TypeOK
<1>4. \A x \in Sessions \ {s} :
          VisibleDay(x)' = VisibleDay(x) /\ \A u \in Tickers : Visible(x, u)' = Visible(x, u)
  BY <1>1, <1>2 DEF VisibleDay, Visible
<1>5. ViewsStand'
  <2>1. \A x \in Sessions \ {s} : (txn[x].pc \in {"position", "day"}) => txn[x].op.ticker \in Tickers
    BY DEF LedgerInv, ViewsStand, Op
  <2> QED BY <1>1, <1>4, <2>1, IdleTyped DEF LedgerInv, ViewsStand
<1>6. OneWriter'
  BY <1>1, IdleTyped DEF LedgerInv, OneWriter
<1>7. OneBooking'
  BY <1>1, <1>2, IdleTyped DEF LedgerInv, OneBooking
<1> QED BY <1>3, <1>5, <1>6, <1>7 DEF LedgerInv

LEMMA LedgerInvNext == LedgerInv /\ [Next]_vars => LedgerInv'
<1> SUFFICES ASSUME LedgerInv, [Next]_vars PROVE LedgerInv'
  OBVIOUS
<1>0. aborts \in Nat
  BY DEF LedgerInv, TypeOK
<1>1. ASSUME NEW t \in Tickers, Resolve(t) PROVE LedgerInv'
  BY <1>1, ResolveKeeps
<1>2. ASSUME NEW t \in Tickers, ReadSettlement(t) PROVE LedgerInv'
  BY <1>2, ReadSettlementKeeps
<1>3. ASSUME NEW s \in Traders, NEW f \in Fills, ReadFill(s, f) PROVE LedgerInv'
  BY <1>3, ReadFillKeeps
<1>4. ASSUME NEW s \in Sessions, FoldPosition(s) PROVE LedgerInv'
  BY <1>4, FoldPositionKeeps
<1>5. ASSUME NEW s \in Sessions, FoldDay(s) PROVE LedgerInv'
  BY <1>5, FoldDayKeeps
<1>6. ASSUME NEW s \in Sessions, Commit(s) PROVE LedgerInv'
  BY <1>6, CommitKeeps
<1>7. ASSUME NEW s \in Sessions, Conflict(s) \/ Victim(s) PROVE LedgerInv'
  BY <1>0, <1>7, RollBackKeeps DEF Conflict, Victim
<1>8. ASSUME NEW s \in Sessions, Abort(s) PROVE LedgerInv'
  BY <1>0, <1>8, RollBackKeeps DEF Abort
<1>9. CASE UNCHANGED vars
  BY <1>9 DEF vars, LedgerInv, TypeOK, ViewsStand, OneWriter, OneBooking, Visible, VisibleDay
<1> QED BY <1>1, <1>2, <1>3, <1>4, <1>5, <1>6, <1>7, <1>8, <1>9 DEF Next

-------------------------------------------------------------------------------
(* The theorems *)

\* The ledger's inductive invariant: types, copies of rows that still exist, one
\* writer per row, one place per fill.
THEOREM LedgerInvariant == Spec => []LedgerInv
BY LedgerInvInit, LedgerInvNext, PTL DEF Spec

\* Type correctness for every set of markets, fills and transactions; in
\* particular every average the ledger stores is a price between 0 and a dollar.
THEOREM TypeCorrect == Spec => []TypeOK
<1>1. LedgerInv => TypeOK
  BY DEF LedgerInv
<1> QED BY <1>1, LedgerInvariant, PTL

\* However transactions interleave, collide, deadlock or die, a fill is booked by
\* one of them only and a row is written by one open transaction at a time.
THEOREM BookedOnce == Spec => [](OneBooking /\ OneWriter)
<1>1. LedgerInv => OneBooking /\ OneWriter
  BY DEF LedgerInv
<1> QED BY <1>1, LedgerInvariant, PTL

-------------------------------------------------------------------------------
(* The sums: the inductive invariant                                           *)

\* Exact(t), of any row, the fills F folded into it and the contracts closed by a
\* settlement, with what the rounding bound rests on: a position is never larger
\* than the volume traded.
Balanced(t, row, F, closed) ==
    LET cash == closed * Payout[t] - TotalOver(Payments, F)
    IN  /\ row.net = TotalOver(Deltas, F) - closed
        /\ Abs(row.net) <= TotalOver(Volumes, F)
        /\ 2 * Abs(row.realized - row.net * row.avg - cash)
              <= TotalOver(Volumes, F) * Cardinality(F)

ClosedBy(row) == Over(row, [net |-> 0, avg |-> 0]).net

\* A transaction that has read a position and not written it yet.
FillWaits(x, t) == x.pc = "position" /\ x.op.kind = "fill" /\ x.op.ticker = t
SettlementWaits(x, t) == x.pc = "position" /\ x.op.kind = "settlement" /\ x.op.ticker = t

\* F are the fills of t that transaction x has folded in: those it booked, but for
\* one that waits.
Brings(op, f) == op.delta = DeltaOf(f)
                 /\ op.price = ToYesPrice(FillOf[f].side, FillOf[f].price)
FoldedOn(x, t, F) ==
    LET own == {f \in x.booked : FillOf[f].ticker = t}
    IN  IF FillWaits(x, t) THEN \E f \in own : F = own \ {f} /\ Brings(x.op, f)
        ELSE F = own
SettledOn(x, t) == IF SettlementWaits(x, t) THEN Absent ELSE x.settlements[t]

\* The row of t that transaction x has written is exact, counted with the committed
\* fills B and settlement c; without such a row it has folded nothing.
RowExact(x, t, B, c) ==
    \E F \in SUBSET x.booked :
        /\ FoldedOn(x, t, F)
        /\ x.rows[t] = Absent => F = {} /\ SettledOn(x, t) = Absent
        /\ x.rows[t] # Absent => Balanced(t, x.rows[t], B \cup F,
                                          ClosedBy(Over(SettledOn(x, t), c)))

RowsExact ==
    \A t \in Tickers \ raced :
        /\ Balanced(t, Over(positions[t], Flat), On(t), ClosedAt(t))
        /\ \A s \in Sessions : RowExact(txn[s], t, On(t), settlements[t])

\* Only the settlement loop settles, a market once, for the position it read.
SettlesOnce ==
    /\ \A s \in Traders, t \in Tickers : txn[s].settlements[t] = Absent
    /\ \A s \in Sessions, t \in Tickers : SettlementWaits(txn[s], t) =>
          /\ s = Settler /\ settlements[t] = Absent
          /\ txn[s].view # Absent
          /\ txn[s].settlements[t] = [net |-> txn[s].view.net, avg |-> txn[s].view.avg]
          /\ txn[s].op.price = Payout[t]

\* DayIsSumUnlessRaced, of any row d, realized amounts r, fills B and settled markets.
DaySums(d, r, B, settled) ==
    /\ d.realized = TotalOver(r, Tickers)
    /\ d.trades = Cardinality(B)
    /\ d.settlements = Cardinality(settled)
RealizedOf(rows) == [t \in Tickers |-> Over(rows[t], Flat).realized]
SettledIn(rows) == {t \in Tickers : rows[t] # Absent}

\* The day's row d with what transaction x has folded into a position, or is about
\* to, and not yet into the day.
With(d, x) ==
    [realized |-> d.realized + IF x.pc = "day" THEN x.realized ELSE 0,
     trades |-> d.trades + IF x.pc # "ready" /\ x.op.kind = "fill" THEN 1 ELSE 0,
     settlements |-> d.settlements
                        + IF x.pc # "ready" /\ x.op.kind = "settlement" THEN 1 ELSE 0]
\* The rows as transaction x sees them.
Through(own, committed) == [t \in Tickers |-> Over(own[t], committed[t])]
DayOf(d, x, rows, B, settled) ==
    DaySums(With(d, x), RealizedOf(Through(x.rows, rows)), B \cup x.booked,
            SettledIn(Through(x.settlements, settled)))

\* A transaction that has not reached the day yet is at its first operation.
FirstOp(x, rows, settled, exact) ==
    /\ x.pc = "ready" => x = Idle
    /\ x.pc # "ready" =>
          /\ x.op.kind = "fill" => /\ \E f \in Fills : x.booked = {f}
                                   /\ \A t \in Tickers : x.settlements[t] = Absent
          /\ x.op.kind = "settlement" =>
                /\ x.booked = {}
                /\ settled[x.op.ticker] = Absent
                /\ \A t \in Tickers : x.settlements[t] # Absent <=> t = x.op.ticker
    /\ x.pc = "position" => \A t \in Tickers : x.rows[t] = Absent
    /\ x.pc = "day" =>
          /\ \A t \in Tickers : x.rows[t] # Absent <=> t = x.op.ticker
          /\ exact => x.realized = x.rows[x.op.ticker].realized
                                     - Over(rows[x.op.ticker], Flat).realized

DaysSum ==
    /\ raced = {} => DaySums(Over(daily, NewDay), RealizedOf(positions), booked,
                             SettledIn(settlements))
    /\ \A s \in Sessions :
          /\ txn[s].day = Absent => FirstOp(txn[s], positions, settlements, raced = {})
          /\ txn[s].day # Absent /\ raced = {} =>
                DayOf(txn[s].day, txn[s], positions, booked, settlements)

BalanceInv == LedgerInv /\ SettlesOnce /\ RowsExact /\ DaysSum

-------------------------------------------------------------------------------
(* The arithmetic of one fill                                                  *)

\* A stored quotient is off by half a unit at most.
LEMMA StoredRounds ==
    ASSUME NEW a \in Nat, NEW b \in Nat, b > 0
    PROVE  /\ Stored(a, b) \in Int
           /\ 2 * Abs(b * Stored(a, b) - a) <= b
<1> DEFINE q == (2 * a + b) \div (2 * b)
           d == 2 * b
           n == 2 * a + b
           x == b * q
<1>1. d \in Nat /\ d > 0 /\ n \in Nat
  OBVIOUS
<1>2. q \in Int /\ n = d * q + (n % d) /\ n % d \in 0 .. (d - 1)
  BY <1>1
<1>3. x \in Int /\ d * q = 2 * x
  BY <1>2
<1> HIDE DEF q, x
<1>4. 2 * (x - a) <= b /\ 2 * (a - x) <= b
  BY <1>2, <1>3
<1> QED BY <1>2, <1>3, <1>4 DEF Stored, Abs, q, x

\* Opening or adding to a position conserves money up to the rounding of the
\* average: half a unit for each contract then held.
LEMMA AddingRounds ==
    ASSUME NEW net \in Int, NEW avg \in Nat, NEW delta \in Int, NEW price \in Nat,
           Adds(net, delta), delta # 0
    PROVE  LET new == WeightedAvg(net, avg, delta, price)
           IN  /\ new \in Int
               /\ 2 * Abs((net + delta) * new - net * avg - delta * price)
                     <= Abs(net + delta)
<1> DEFINE a == avg * Abs(net) + price * Abs(delta)
           b == Abs(net) + Abs(delta)
           new == Stored(a, b)
<1>1. Abs(net) \in Nat /\ Abs(delta) \in Nat /\ Abs(delta) > 0
  BY DEF Abs
<1>2. avg * Abs(net) \in Nat /\ price * Abs(delta) \in Nat
  BY <1>1
<1>3. a \in Nat /\ b \in Nat /\ b > 0
  BY <1>1, <1>2
<1>4. new \in Int /\ 2 * Abs(b * new - a) <= b
  <2> HIDE DEF a, b
  <2> QED BY <1>3, StoredRounds
<1>5. CASE net >= 0 /\ delta > 0
  <2>1. b = net + delta /\ a = avg * net + price * delta /\ Abs(net + delta) = b
    BY <1>5 DEF Abs
  <2> HIDE DEF new
  <2>2. (net + delta) * new - net * avg - delta * price = b * new - a
    BY <1>4, <2>1
  <2> QED BY <1>4, <2>1, <2>2 DEF WeightedAvg, new
<1>6. CASE net <= 0 /\ delta < 0
  <2>1. b = -(net + delta) /\ Abs(net + delta) = b
    BY <1>6 DEF Abs
  <2>2. Abs(net) = -net /\ Abs(delta) = -delta
    BY <1>6 DEF Abs
  <2>3. a = -(avg * net) - price * delta
    BY <2>2
  <2> HIDE DEF new
  <2>4. (-(net + delta)) * new = -((net + delta) * new)
    BY <1>4
  <2>5. (net + delta) * new - net * avg - delta * price = -(b * new - a)
    BY <1>4, <2>1, <2>3, <2>4
  <2>6. b * new - a \in Int
    BY <1>3, <1>4
  <2>7. Abs(-(b * new - a)) = Abs(b * new - a)
    BY <2>6 DEF Abs
  <2> QED BY <1>4, <2>1, <2>5, <2>7 DEF WeightedAvg, new
<1> QED BY <1>5, <1>6 DEF Adds

\* What one fill adds to the difference between a position's cash and its fills'.
LEMMA FillRounds ==
    ASSUME NEW net \in Int, NEW avg \in Nat, NEW delta \in Int, NEW price \in Nat, delta # 0
    PROVE  LET new == AvgAfter(net, avg, delta, price)
               r == Realized(net, avg, delta, price)
           IN  /\ new \in Int /\ r \in Int
               /\ 2 * Abs(r - (net + delta) * new + net * avg + delta * price)
                     <= Abs(net + delta)
<1> DEFINE new == AvgAfter(net, avg, delta, price)
           r == Realized(net, avg, delta, price)
           x == (net + delta) * new
           y == net * avg
           z == delta * price
<1>1. r \in Int
  BY RealizedIsInt
<1>2. y \in Int /\ z \in Int
  OBVIOUS
<1>3. CASE Adds(net, delta)
  <2>1. new = WeightedAvg(net, avg, delta, price) /\ r = 0
    BY <1>3 DEF AvgAfter, Realized
  <2>2. new \in Int /\ 2 * Abs(x - y - z) <= Abs(net + delta)
    BY <1>3, <2>1, AddingRounds
  <2>3. x \in Int
    BY <2>2
  <2> HIDE DEF x, y, z, r, new
  <2>4. Abs(r - x + y + z) = Abs(x - y - z)
    BY <1>2, <2>1, <2>3 DEF Abs
  <2> QED BY <2>1, <2>2, <2>4, <1>1 DEF x, y, z, r, new
<1>4. CASE ~Adds(net, delta)
  <2>1. new \in Int
    BY <1>4 DEF AvgAfter, Kept
  <2>2. x \in Int
    BY <2>1
  <2>3. r = x - y - z
    BY <1>4, ReducingConservesCash
  <2> HIDE DEF x, y, z, r, new
  <2>4. r - x + y + z = 0
    BY <1>1, <1>2, <2>2, <2>3
  <2>5. 2 * Abs(0) <= Abs(net + delta)
    BY DEF Abs
  <2> QED BY <1>1, <2>1, <2>4, <2>5 DEF x, y, z, r, new
<1> QED BY <1>3, <1>4

-------------------------------------------------------------------------------
(* Rows and their fills                                                        *)

\* What a fill is, in the sums.
LEMMA FillFacts ==
    ASSUME NEW f \in Fills
    PROVE  /\ FillOf[f].ticker \in Tickers
           /\ Volumes[f] \in Nat /\ Volumes[f] > 0
           /\ Deltas[f] = DeltaOf(f) /\ Deltas[f] \in Int /\ Deltas[f] # 0
           /\ Abs(Deltas[f]) = Volumes[f]
           /\ ToYesPrice(FillOf[f].side, FillOf[f].price) \in Nat
           /\ Payments[f] = DeltaOf(f) * ToYesPrice(FillOf[f].side, FillOf[f].price)
           /\ Payments[f] \in Int
<1>1. FillOf[f] \in FillRecord
  BY LedgerAssumption
<1>2. FillOf[f].contracts \in Nat \ {0} /\ FillOf[f].price \in 0 .. One
      /\ FillOf[f].ticker \in Tickers /\ One \in Nat
  BY <1>1, OneAssumption DEF FillRecord, Price
<1>3. Volumes[f] = FillOf[f].contracts /\ Deltas[f] = DeltaOf(f) /\ Payments[f] = PaidFor(f)
  BY DEF Volumes, Deltas, Payments
<1>4. DeltaOf(f) \in Int /\ DeltaOf(f) # 0 /\ Abs(DeltaOf(f)) = FillOf[f].contracts
  BY <1>2 DEF DeltaOf, SignedContracts, Abs
<1>5. ToYesPrice(FillOf[f].side, FillOf[f].price) \in Nat
  BY <1>2 DEF ToYesPrice
<1> QED BY <1>2, <1>3, <1>4, <1>5 DEF PaidFor

\* Sums over fills are numbers, and one fill more adds its own.
LEMMA FillSums ==
    ASSUME NEW F \in SUBSET Fills
    PROVE  /\ IsFiniteSet(F) /\ Cardinality(F) \in Nat
           /\ TotalOver(Deltas, F) \in Int /\ TotalOver(Payments, F) \in Int
           /\ TotalOver(Volumes, F) \in Nat
<1>1. IsFiniteSet(F)
  BY LedgerAssumption, FS_Subset
<1>2. \A f \in F : Deltas[f] \in Int /\ Payments[f] \in Int /\ Volumes[f] \in Nat
  BY FillFacts
<1>3. TotalOver(Deltas, F) \in Int
  BY <1>1, <1>2, TotalOverInt
<1>4. TotalOver(Payments, F) \in Int
  BY <1>1, <1>2, TotalOverInt
<1>5. TotalOver(Volumes, F) \in Nat
  BY <1>1, <1>2, TotalOverNat
<1> QED BY <1>1, <1>3, <1>4, <1>5, FS_CardinalityType

LEMMA FillAdds ==
    ASSUME NEW F \in SUBSET Fills, NEW f \in Fills, f \notin F
    PROVE  /\ Cardinality(F \cup {f}) = Cardinality(F) + 1
           /\ TotalOver(Deltas, F \cup {f}) = Deltas[f] + TotalOver(Deltas, F)
           /\ TotalOver(Payments, F \cup {f}) = Payments[f] + TotalOver(Payments, F)
           /\ TotalOver(Volumes, F \cup {f}) = Volumes[f] + TotalOver(Volumes, F)
<1>1. IsFiniteSet(F)
  BY FillSums
<1>2. \A x \in F \cup {f} : Deltas[x] \in Int /\ Payments[x] \in Int /\ Volumes[x] \in Int
  BY FillFacts
<1>3. TotalOver(Deltas, F \cup {f}) = Deltas[f] + TotalOver(Deltas, F)
  BY <1>1, <1>2, TotalOverAdd
<1>4. TotalOver(Payments, F \cup {f}) = Payments[f] + TotalOver(Payments, F)
  BY <1>1, <1>2, TotalOverAdd
<1>5. TotalOver(Volumes, F \cup {f}) = Volumes[f] + TotalOver(Volumes, F)
  BY <1>1, <1>2, TotalOverAdd
<1> QED BY <1>1, <1>3, <1>4, <1>5, FS_AddElement

\* A row is a row of numbers, and a market pays one.
LEMMA RowFacts ==
    ASSUME NEW row \in Position, NEW t \in Tickers
    PROVE  /\ row.net \in Int /\ row.avg \in Nat /\ row.realized \in Int
           /\ Payout[t] \in Nat
BY LedgerAssumption, OneAssumption DEF Position, Price

\* Nothing booked, nothing held.
LEMMA FlatBalanced ==
    ASSUME NEW t \in Tickers
    PROVE  Balanced(t, Flat, {}, 0)
<1>1. TotalOver(Deltas, {}) = 0 /\ TotalOver(Payments, {}) = 0 /\ TotalOver(Volumes, {}) = 0
  BY TotalOverEmpty
<1>2. Cardinality({}) = 0
  BY FS_EmptySet
<1>3. Payout[t] \in Nat
  BY RowFacts, FlatIsPosition
<1> QED BY <1>1, <1>2, <1>3 DEF Balanced, Flat, Abs

\* A fill folded into a balanced row leaves it balanced (apply_fill).
LEMMA FillBalanced ==
    ASSUME NEW t \in Tickers, NEW row \in Position, NEW F \in SUBSET Fills, NEW c \in Int,
           Balanced(t, row, F, c), NEW f \in Fills, f \notin F,
           NEW op, op.kind = "fill", Brings(op, f)
    PROVE  Balanced(t, Folded(op, row), F \cup {f}, c)
<1> DEFINE n == row.net
           d == Deltas[f]
           p == ToYesPrice(FillOf[f].side, FillOf[f].price)
           new == AvgAfter(n, row.avg, d, p)
           r == Realized(n, row.avg, d, p)
           D == TotalOver(Deltas, F)
           P == TotalOver(Payments, F)
           V == TotalOver(Volumes, F)
           v == Volumes[f]
           k == Cardinality(F)
           cp == c * Payout[t]
           x == (n + d) * new
           y == n * row.avg
           z == d * p
           vk == V * k
           w == v * k
<1>1. n \in Int /\ row.avg \in Nat /\ row.realized \in Int /\ Payout[t] \in Nat
  BY RowFacts
<1>2. v \in Nat /\ v > 0 /\ d \in Int /\ d # 0 /\ Abs(d) = v /\ p \in Nat
      /\ Payments[f] = z /\ d = DeltaOf(f)
  BY FillFacts
<1>3. k \in Nat /\ D \in Int /\ P \in Int /\ V \in Nat
  BY FillSums
<1>4. /\ Cardinality(F \cup {f}) = k + 1
      /\ TotalOver(Deltas, F \cup {f}) = d + D
      /\ TotalOver(Payments, F \cup {f}) = z + P
      /\ TotalOver(Volumes, F \cup {f}) = v + V
  BY <1>2, FillAdds
<1>5. new \in Int /\ r \in Int /\ 2 * Abs(r - x + y + z) <= Abs(n + d)
  BY <1>1, <1>2, FillRounds
<1>6. Folded(op, row) = [net |-> n + d, avg |-> new, realized |-> row.realized + r]
  BY <1>2 DEF Folded, Brings
<1>7. n = D - c /\ Abs(n) <= V /\ 2 * Abs(row.realized - y - (cp - P)) <= vk
  BY DEF Balanced
<1>8. x \in Int /\ y \in Int /\ z \in Int /\ cp \in Int /\ vk \in Nat /\ w \in Nat
  BY <1>1, <1>2, <1>3, <1>5
<1>9. (v + V) * (k + 1) = vk + w + v + V
  BY <1>2, <1>3
<1> HIDE DEF n, d, p, new, r, D, P, V, v, k, cp, x, y, z, vk, w
<1>10. Abs(n + d) <= v + V
  BY <1>1, <1>2, <1>3, <1>7 DEF Abs
<1>11. 2 * Abs((row.realized + r) - x - (cp - (z + P))) <= vk + w + v + V
  <2> DEFINE e == row.realized - y - (cp - P)
             g == r - x + y + z
  <2>1. e \in Int /\ g \in Int
    BY <1>1, <1>3, <1>5, <1>8
  <2>2. (row.realized + r) - x - (cp - (z + P)) = e + g
    BY <1>1, <1>3, <1>5, <1>8
  <2>3. 2 * Abs(e) <= vk /\ 2 * Abs(g) <= v + V
    <3>1. Abs(g) \in Nat /\ Abs(n + d) \in Nat
      BY <1>1, <1>2, <2>1 DEF Abs
    <3> QED BY <1>2, <1>3, <1>5, <1>7, <1>10, <3>1
  <2> HIDE DEF e, g
  <2>4. 2 * Abs(e + g) <= 2 * Abs(e) + 2 * Abs(g)
    BY <2>1 DEF Abs
  <2>5. Abs(e) \in Nat /\ Abs(g) \in Nat /\ Abs(e + g) \in Nat
    BY <2>1 DEF Abs
  <2> QED BY <1>2, <1>3, <1>8, <2>2, <2>3, <2>4, <2>5
<1>12. n + d = (d + D) - c
  BY <1>1, <1>2, <1>3, <1>7
<1>13. /\ c * Payout[t] = cp
       /\ Folded(op, row).net = n + d /\ Folded(op, row).avg = new
       /\ Folded(op, row).realized = row.realized + r
       /\ (n + d) * new = x
  BY <1>6 DEF cp, x
<1> QED BY <1>4, <1>9, <1>10, <1>11, <1>12, <1>13 DEF Balanced

\* A settlement closes a balanced row, and the market pays its contracts
\* (apply_settlement).
LEMMA SettlementBalanced ==
    ASSUME NEW t \in Tickers, NEW row \in Position, NEW F \in SUBSET Fills,
           Balanced(t, row, F, 0), NEW op, op.kind = "settlement", op.price = Payout[t]
    PROVE  Balanced(t, Folded(op, row), F, row.net)
<1> DEFINE n == row.net
           D == TotalOver(Deltas, F)
           P == TotalOver(Payments, F)
           V == TotalOver(Volumes, F)
           x == n * row.avg
           y == n * Payout[t]
           s == (Payout[t] - row.avg) * n
<1>1. n \in Int /\ row.avg \in Nat /\ row.realized \in Int /\ Payout[t] \in Nat
  BY RowFacts
<1>2. D \in Int /\ P \in Int /\ V \in Nat
  BY FillSums
<1>3. n = D - 0 /\ 2 * Abs(row.realized - x - (0 * Payout[t] - P)) <= V * Cardinality(F)
  BY DEF Balanced
<1>4. Folded(op, row) = [net |-> 0, avg |-> 0, realized |-> row.realized + s]
  BY DEF Folded, Settled
<1>5. s = y - x /\ x \in Int /\ y \in Int
  BY <1>1
<1>6. 0 * Payout[t] = 0
  BY <1>1
<1> HIDE DEF n, D, P, V, x, y, s
<1>7. (row.realized + s) - 0 * 0 - (y - P) = row.realized - x - (0 * Payout[t] - P)
  BY <1>1, <1>2, <1>5, <1>6
<1>8. Abs(0) <= V
  BY <1>2 DEF Abs
<1>9. 0 = D - n
  BY <1>1, <1>2, <1>3
<1>10. Folded(op, row).net = 0 /\ Folded(op, row).avg = 0
       /\ Folded(op, row).realized = row.realized + s
  BY <1>4
<1>11. y = row.net * Payout[t] /\ n = row.net
  BY DEF y, n
<1> QED BY <1>3, <1>7, <1>8, <1>9, <1>10, <1>11 DEF Balanced, D, P, V

-------------------------------------------------------------------------------
(* What each step does to the transaction that takes it                        *)

\* A row computed from the row that is there is written as it was computed.
LEMMA WrittenAsComputed ==
    /\ \A view \in Position \cup {Absent}, new \in Position : Written(view, new, view) = new
    /\ \A view \in Day \cup {Absent}, new \in Day : Written(view, new, view) = new
<1>1. ASSUME NEW view \in Position \cup {Absent}, NEW new \in Position
      PROVE  Written(view, new, view) = new
  <2>1. [c \in DOMAIN new |-> IF new[c] # view[c] THEN new[c] ELSE view[c]] = new
    BY DEF Position
  <2> QED BY <2>1 DEF Written
<1>2. ASSUME NEW view \in Day \cup {Absent}, NEW new \in Day
      PROVE  Written(view, new, view) = new
  <2>1. [c \in DOMAIN new |-> IF new[c] # view[c] THEN new[c] ELSE view[c]] = new
    BY DEF Day
  <2> QED BY <2>1 DEF Written
<1> QED BY <1>1, <1>2

\* A step of s alone leaves the committed rows and the other transactions alone.
Alone(s) ==
    /\ positions' = positions /\ daily' = daily /\ booked' = booked
    /\ settlements' = settlements /\ raced \subseteq raced'
    /\ \A y \in Sessions \ {s} : txn'[y] = txn[y]

LEMMA TxnFacts ==
    ASSUME TypeOK, NEW s \in Sessions
    PROVE  /\ txn \in [Sessions -> Txn] /\ txn[s] \in Txn
           /\ txn[s].booked \in SUBSET Fills
           /\ txn[s].rows \in [Tickers -> Position \cup {Absent}]
           /\ txn[s].settlements \in [Tickers -> Settlement \cup {Absent}]
           /\ txn[s].day \in Day \cup {Absent} /\ txn[s].realized \in Int
           /\ txn[s].view \in Position \cup {Absent} /\ txn[s].dayView \in Day \cup {Absent}
           /\ txn[s].pc \in {"ready", "position", "day"}
BY DEF TypeOK, Txn

LEMMA IdleFacts ==
    /\ Idle.pc = "ready" /\ Idle.booked = {} /\ Idle.day = Absent
    /\ \A t \in Tickers : Idle.rows[t] = Absent /\ Idle.settlements[t] = Absent
BY DEF Idle

LEMMA ReadFillShape ==
    ASSUME TypeOK, NEW s \in Traders, NEW f \in Fills, ReadFill(s, f)
    PROVE  /\ s \in Sessions /\ Alone(s) /\ raced' = raced
           /\ txn[s].pc = "ready"
           /\ f \notin booked /\ \A y \in Sessions : f \notin txn[y].booked
           /\ txn'[s].pc = "position"
           /\ txn'[s].op.kind = "fill" /\ txn'[s].op.ticker = FillOf[f].ticker
           /\ Brings(txn'[s].op, f)
           /\ txn'[s].booked = txn[s].booked \cup {f}
           /\ txn'[s].rows = txn[s].rows /\ txn'[s].day = txn[s].day
           /\ txn'[s].settlements = txn[s].settlements
<1>1. s \in Sessions
  BY DEF Sessions
<1>2. txn \in [Sessions -> Txn] /\ txn[s] \in Txn
  BY <1>1, TxnFacts
<1> DEFINE o == FillOf[f]
           op == [kind |-> "fill", ticker |-> o.ticker,
                  delta |-> SignedContracts(o.side, o.action, o.contracts),
                  price |-> ToYesPrice(o.side, o.price)]
           view == Visible(s, o.ticker)
           new == [txn[s] EXCEPT !.pc = "position", !.op = op, !.view = view,
                                 !.booked = txn[s].booked \cup {f}]
<1>3. txn' = [txn EXCEPT ![s] = new]
  BY DEF ReadFill
<1>4. op.kind = "fill" /\ op.ticker = FillOf[f].ticker /\ Brings(op, f)
  BY DEF Brings, DeltaOf
<1> HIDE DEF op, view
<1>5. /\ new.pc = "position" /\ new.op = op /\ new.booked = txn[s].booked \cup {f}
      /\ new.rows = txn[s].rows /\ new.day = txn[s].day
      /\ new.settlements = txn[s].settlements
  BY <1>2 DEF Txn
<1> HIDE DEF new
<1>6. txn'[s] = new /\ \A y \in Sessions \ {s} : txn'[y] = txn[y]
  BY <1>1, <1>2, <1>3
<1> QED BY <1>1, <1>4, <1>5, <1>6 DEF ReadFill, Alone

LEMMA ReadSettlementShape ==
    ASSUME TypeOK, NEW t \in Tickers, ReadSettlement(t)
    PROVE  LET s == Settler
           IN  /\ s \in Sessions /\ Alone(s) /\ raced' = raced
               /\ txn[s].pc = "ready"
               /\ settlements[t] = Absent /\ txn[s].settlements[t] = Absent
               /\ Visible(s, t) # Absent
               /\ txn'[s].pc = "position"
               /\ txn'[s].op.kind = "settlement" /\ txn'[s].op.ticker = t
               /\ txn'[s].op.price = Payout[t]
               /\ txn'[s].view = Visible(s, t)
               /\ txn'[s].booked = txn[s].booked
               /\ txn'[s].rows = txn[s].rows /\ txn'[s].day = txn[s].day
               /\ txn'[s].settlements[t] = [net |-> txn'[s].view.net, avg |-> txn'[s].view.avg]
               /\ \A u \in Tickers \ {t} : txn'[s].settlements[u] = txn[s].settlements[u]
<1> DEFINE s == Settler
           row == Visible(s, t)
           op == [kind |-> "settlement", ticker |-> t, delta |-> -row.net,
                  price |-> Payout[t]]
           st == [net |-> row.net, avg |-> row.avg]
           own == [txn[s].settlements EXCEPT ![t] = st]
           new == [txn[s] EXCEPT !.pc = "position", !.op = op, !.view = row,
                                 !.settlements = own]
<1>1. s \in Sessions
  BY DEF Sessions
<1>2. /\ txn \in [Sessions -> Txn] /\ txn[s] \in Txn
      /\ txn[s].settlements \in [Tickers -> Settlement \cup {Absent}]
  BY <1>1, TxnFacts
<1>3. txn' = [txn EXCEPT ![s] = new]
  BY DEF ReadSettlement
<1>4. op.kind = "settlement" /\ op.ticker = t /\ op.price = Payout[t]
  OBVIOUS
<1>5. own[t] = st /\ \A u \in Tickers \ {t} : own[u] = txn[s].settlements[u]
  BY <1>2
<1>6. settlements[t] = Absent /\ txn[s].settlements[t] = Absent /\ row # Absent
      /\ txn[s].pc = "ready"
  BY DEF ReadSettlement, Unsettled, Open
<1> HIDE DEF op, row, own, s
<1>7. /\ new.pc = "position" /\ new.op = op /\ new.booked = txn[s].booked
      /\ new.rows = txn[s].rows /\ new.day = txn[s].day /\ new.view = row
      /\ new.settlements = own
  BY <1>2 DEF Txn
<1> HIDE DEF new
<1>8. txn'[s] = new /\ \A y \in Sessions \ {s} : txn'[y] = txn[y]
  BY <1>1, <1>2, <1>3
<1>9. UNCHANGED <<positions, daily, booked, settlements, resolved, aborts, raced>>
  BY DEF ReadSettlement
<1> QED BY <1>1, <1>4, <1>5, <1>6, <1>7, <1>8, <1>9 DEF Alone, s, row

\* Where nothing is raced, what is written is what was computed from the row that is
\* there.
LEMMA FoldPositionShape ==
    ASSUME LedgerInv, NEW s \in Sessions, FoldPosition(s)
    PROVE  LET t == txn[s].op.ticker
               old == Over(Visible(s, t), Flat)
           IN  /\ Alone(s) /\ t \in Tickers /\ txn[s].op \in Op
               /\ txn[s].pc = "position" /\ txn'[s].pc = "day" /\ txn'[s].op = txn[s].op
               /\ txn'[s].booked = txn[s].booked /\ txn'[s].day = txn[s].day
               /\ txn'[s].settlements = txn[s].settlements
               /\ txn'[s].dayView = VisibleDay(s)
               /\ txn'[s].rows[t] \in Position
               /\ \A u \in Tickers \ {t} : txn'[s].rows[u] = txn[s].rows[u]
               /\ old \in Position
               /\ t \notin raced' => /\ txn[s].view = Visible(s, t)
                                     /\ txn'[s].rows[t] = Folded(txn[s].op, old)
                                     /\ txn'[s].realized = txn'[s].rows[t].realized
                                                             - old.realized
<1> DEFINE t == txn[s].op.ticker
           view == txn[s].view
           now == Visible(s, t)
           folded == Folded(txn[s].op, Over(view, Flat))
           row == Written(view, folded, now)
           rows == [txn[s].rows EXCEPT ![t] = row]
           gain == folded.realized - Over(view, Flat).realized
           dv == VisibleDay(s)
           new == [txn[s] EXCEPT !.pc = "day", !.rows = rows, !.realized = gain,
                                 !.dayView = dv, !.view = Absent]
<1>1. /\ txn[s] \in Txn /\ txn \in [Sessions -> Txn]
      /\ txn[s].rows \in [Tickers -> Position \cup {Absent}]
      /\ view \in Position \cup {Absent}
  BY TxnFacts DEF LedgerInv
<1>2. txn[s].op \in Op /\ t \in Tickers /\ (view # Absent => now # Absent)
      /\ txn[s].pc = "position"
  BY DEF LedgerInv, ViewsStand, FoldPosition, Op
<1>3. now \in Position \cup {Absent}
  BY <1>2, VisibleTyped DEF LedgerInv
<1>4. Over(view, Flat) \in Position /\ Over(now, Flat) \in Position
  BY <1>1, <1>3, FlatIsPosition DEF Over
<1>5. folded \in Position
  BY <1>2, <1>4, FoldedPosition
<1>6. row \in Position
  BY <1>1, <1>2, <1>3, <1>5, WrittenPosition
<1>7. rows[t] = row /\ \A u \in Tickers \ {t} : rows[u] = txn[s].rows[u]
  BY <1>1, <1>2
<1>8. txn' = [txn EXCEPT ![s] = new]
  BY DEF FoldPosition
<1>9. /\ UNCHANGED <<positions, daily, booked, settlements, resolved, aborts>>
      /\ raced' = IF view = now THEN raced ELSE raced \cup {t}
  BY DEF FoldPosition
<1>10. view = now => row = Folded(txn[s].op, Over(now, Flat))
                     /\ gain = row.realized - Over(now, Flat).realized
  BY <1>1, <1>5, WrittenAsComputed
<1> HIDE DEF t, view, now, folded, row, rows, gain, dv
<1>11. /\ new.pc = "day" /\ new.op = txn[s].op /\ new.booked = txn[s].booked
       /\ new.rows = rows /\ new.day = txn[s].day /\ new.realized = gain
       /\ new.dayView = dv /\ new.settlements = txn[s].settlements
  BY <1>1 DEF Txn
<1> HIDE DEF new
<1>12. txn'[s] = new /\ \A y \in Sessions \ {s} : txn'[y] = txn[y]
  BY <1>1, <1>8
<1>13. Alone(s)
  BY <1>9, <1>12 DEF Alone
<1>14. t \notin raced' => view = now
  BY <1>9
<1> QED BY <1>2, <1>4, <1>6, <1>7, <1>10, <1>11, <1>12, <1>13, <1>14
        DEF t, view, now, dv

LEMMA FoldDayShape ==
    ASSUME LedgerInv, NEW s \in Sessions, FoldDay(s)
    PROVE  LET old == Over(VisibleDay(s), NewDay)
           IN  /\ Alone(s) /\ txn[s].pc = "day" /\ txn[s].op \in Op
               /\ txn'[s].pc = "ready" /\ txn'[s].rows = txn[s].rows
               /\ txn'[s].booked = txn[s].booked
               /\ txn'[s].settlements = txn[s].settlements
               /\ txn'[s].day # Absent
               /\ \A y \in Sessions \ {s} : txn[y].day = Absent
               /\ raced' = {} => /\ raced = {}
                                 /\ txn'[s].day = Rolled(txn[s].op.kind, txn[s].realized, old)
<1> DEFINE view == txn[s].dayView
           now == VisibleDay(s)
           rolled == Rolled(txn[s].op.kind, txn[s].realized, Over(view, NewDay))
           row == Written(view, rolled, now)
           zero == 0
           new == [txn[s] EXCEPT !.pc = "ready", !.day = row,
                                 !.op = NoOp, !.realized = zero, !.dayView = Absent]
<1>1. /\ txn[s] \in Txn /\ txn \in [Sessions -> Txn] /\ txn[s].realized \in Int
      /\ view \in Day \cup {Absent}
  BY TxnFacts DEF LedgerInv
<1>2. (view # Absent => now # Absent) /\ txn[s].pc = "day" /\ txn[s].op \in Op
  BY DEF LedgerInv, ViewsStand, FoldDay
<1>3. now \in Day \cup {Absent}
  BY VisibleTyped DEF LedgerInv
<1>4. Over(view, NewDay) \in Day
  BY <1>1, NewDayIsDay DEF Over
<1>5. rolled \in Day
  BY <1>1, <1>4, RolledDay
<1>6. row # Absent
  BY <1>1, <1>2, <1>3, <1>5, WrittenDay, AbsentIsNoRow
<1>7. txn' = [txn EXCEPT ![s] = new]
  BY DEF FoldDay
<1>8. /\ UNCHANGED <<positions, daily, booked, settlements, resolved, aborts>>
      /\ raced' = IF view = now THEN raced ELSE raced \cup {DailyRow}
      /\ \A y \in Sessions \ {s} : txn[y].day = Absent
  BY DEF FoldDay, DayLocked
<1>9. view = now => row = Rolled(txn[s].op.kind, txn[s].realized, Over(now, NewDay))
  BY <1>1, <1>5, WrittenAsComputed
<1> HIDE DEF view, now, rolled, row, zero
<1>10. /\ new.pc = "ready" /\ new.rows = txn[s].rows /\ new.day = row
       /\ new.booked = txn[s].booked /\ new.settlements = txn[s].settlements
  BY <1>1 DEF Txn
<1> HIDE DEF new
<1>11. txn'[s] = new /\ \A y \in Sessions \ {s} : txn'[y] = txn[y]
  BY <1>1, <1>7
<1>12. Alone(s)
  BY <1>8, <1>11 DEF Alone
<1>13. raced' = {} => view = now /\ raced = {}
  BY <1>8
<1> QED BY <1>2, <1>6, <1>8, <1>9, <1>10, <1>11, <1>12, <1>13 DEF now

LEMMA RollBackShape ==
    ASSUME TypeOK, NEW s \in Sessions, RollBack(s)
    PROVE  Alone(s) /\ txn'[s] = Idle /\ raced' = raced
<1>1. txn \in [Sessions -> Txn]
  BY TxnFacts
<1> QED BY <1>1 DEF RollBack, Alone

LEMMA CommitShape ==
    ASSUME TypeOK, NEW s \in Sessions, Commit(s)
    PROVE  /\ txn[s].pc = "ready" /\ txn[s] # Idle /\ txn'[s] = Idle
           /\ \A y \in Sessions \ {s} : txn'[y] = txn[y]
           /\ positions' = Through(txn[s].rows, positions)
           /\ daily' = Over(txn[s].day, daily)
           /\ booked' = booked \cup txn[s].booked
           /\ settlements' = Through(txn[s].settlements, settlements)
           /\ raced' = raced
<1>1. txn \in [Sessions -> Txn]
  BY TxnFacts
<1> QED BY <1>1 DEF Commit, Through, Visible, VisibleDay

-------------------------------------------------------------------------------
(* A market is settled once                                                    *)

\* A step of s alone keeps SettlesOnce if its own part of it holds.
LEMMA SettlesAlone ==
    ASSUME SettlesOnce, NEW s \in Sessions, Alone(s),
           s \in Traders => \A t \in Tickers : txn'[s].settlements[t] = Absent,
           \A t \in Tickers : SettlementWaits(txn'[s], t) =>
               /\ s = Settler /\ settlements[t] = Absent
               /\ txn'[s].view # Absent
               /\ txn'[s].settlements[t] = [net |-> txn'[s].view.net, avg |-> txn'[s].view.avg]
               /\ txn'[s].op.price = Payout[t]
    PROVE  SettlesOnce'
BY DEF SettlesOnce, Alone, Sessions

LEMMA SettlesStep ==
    ASSUME BalanceInv, [Next]_vars
    PROVE  SettlesOnce'
<1>1. TypeOK /\ LedgerInv /\ SettlesOnce
  BY DEF BalanceInv, LedgerInv
<1>2. CASE settlements' = settlements /\ txn' = txn
  BY <1>1, <1>2 DEF SettlesOnce
<1>3. ASSUME NEW t \in Tickers, ReadSettlement(t) PROVE SettlesOnce'
  <2> DEFINE s == Settler
  <2>1. s \in Sessions /\ s \notin Traders
    BY LedgerAssumption DEF Sessions
  <2>2. /\ Alone(s) /\ settlements[t] = Absent /\ Visible(s, t) # Absent
        /\ txn'[s].op.ticker = t /\ txn'[s].op.price = Payout[t]
        /\ txn'[s].view = Visible(s, t)
        /\ txn'[s].settlements[t] = [net |-> txn'[s].view.net, avg |-> txn'[s].view.avg]
    BY <1>1, <1>3, ReadSettlementShape
  <2>3. \A u \in Tickers : SettlementWaits(txn'[s], u) => u = t
    BY <2>2 DEF SettlementWaits
  <2> QED BY <1>1, <2>1, <2>2, <2>3, SettlesAlone
<1>4. ASSUME NEW s \in Traders, NEW f \in Fills, ReadFill(s, f) PROVE SettlesOnce'
  <2>1. /\ s \in Sessions /\ Alone(s) /\ txn'[s].op.kind = "fill"
        /\ txn'[s].settlements = txn[s].settlements
    BY <1>1, <1>4, ReadFillShape
  <2>2. \A t \in Tickers : ~SettlementWaits(txn'[s], t)
    BY <2>1 DEF SettlementWaits
  <2>3. \A t \in Tickers : txn'[s].settlements[t] = Absent
    BY <1>1, <2>1 DEF SettlesOnce
  <2> QED BY <1>1, <2>1, <2>2, <2>3, SettlesAlone
<1>5. ASSUME NEW s \in Sessions, FoldPosition(s) \/ FoldDay(s) PROVE SettlesOnce'
  <2>1. /\ Alone(s) /\ txn'[s].pc \in {"day", "ready"}
        /\ txn'[s].settlements = txn[s].settlements
    BY <1>1, <1>5, FoldPositionShape, FoldDayShape
  <2>2. \A t \in Tickers : ~SettlementWaits(txn'[s], t)
    BY <2>1 DEF SettlementWaits
  <2>3. s \in Traders => \A t \in Tickers : txn'[s].settlements[t] = Absent
    BY <1>1, <2>1 DEF SettlesOnce
  <2> QED BY <1>1, <2>1, <2>2, <2>3, SettlesAlone
<1>6. ASSUME NEW s \in Sessions, RollBack(s) PROVE SettlesOnce'
  <2>1. Alone(s) /\ txn'[s] = Idle
    BY <1>1, <1>6, RollBackShape
  <2>2. \A t \in Tickers : ~SettlementWaits(txn'[s], t) /\ txn'[s].settlements[t] = Absent
    BY <2>1, IdleFacts DEF SettlementWaits
  <2> QED BY <1>1, <2>1, <2>2, SettlesAlone
<1>7. ASSUME NEW s \in Sessions, Commit(s) PROVE SettlesOnce'
  <2>1. /\ txn[s].pc = "ready" /\ txn'[s] = Idle
        /\ \A y \in Sessions \ {s} : txn'[y] = txn[y]
        /\ settlements' = Through(txn[s].settlements, settlements)
    BY <1>1, <1>7, CommitShape
  <2>2. \A t \in Tickers : ~SettlementWaits(Idle, t) /\ Idle.settlements[t] = Absent
    BY IdleFacts DEF SettlementWaits
  <2>3. ASSUME NEW y \in Sessions, NEW t \in Tickers, SettlementWaits(txn'[y], t)
        PROVE  settlements'[t] = Absent /\ y # s /\ y = Settler
    <3>1. y # s
      BY <2>1, <2>2, <2>3
    <3>2. y = Settler /\ settlements[t] = Absent
      BY <1>1, <2>1, <2>3, <3>1 DEF SettlesOnce
    <3>3. s \in Traders
      BY <3>1, <3>2 DEF Sessions
    <3>4. txn[s].settlements[t] = Absent
      BY <1>1, <3>3 DEF SettlesOnce
    <3>5. settlements'[t] = Absent
      BY <2>1, <3>2, <3>4 DEF Through, Over
    <3> QED BY <3>1, <3>2, <3>5
  <2>4. \A y \in Traders, t \in Tickers : txn'[y].settlements[t] = Absent
    BY <1>1, <2>1, <2>2 DEF SettlesOnce, Sessions
  <2> QED BY <1>1, <2>1, <2>3, <2>4 DEF SettlesOnce
<1>8. \/ settlements' = settlements /\ txn' = txn
      \/ \E t \in Tickers : ReadSettlement(t)
      \/ \E s \in Traders, f \in Fills : ReadFill(s, f)
      \/ \E s \in Sessions : FoldPosition(s) \/ FoldDay(s) \/ Commit(s) \/ RollBack(s)
  BY DEF Next, vars, Resolve, Conflict, Victim, Abort
<1> QED BY <1>2, <1>3, <1>4, <1>5, <1>6, <1>7, <1>8

-------------------------------------------------------------------------------
(* Every row is its fills                                                      *)

\* A step of s alone keeps RowsExact if the rows of s stay exact.
LEMMA RowsAlone ==
    ASSUME RowsExact, NEW s \in Sessions, Alone(s),
           \A t \in Tickers \ raced' : RowExact(txn'[s], t, On(t), settlements[t])
    PROVE  RowsExact'
<1> SUFFICES ASSUME NEW t \in Tickers \ raced'
             PROVE  /\ Balanced(t, Over(positions'[t], Flat), On(t)', ClosedAt(t)')
                    /\ \A y \in Sessions : RowExact(txn'[y], t, On(t)', settlements'[t])
  BY DEF RowsExact
<1>1. On(t)' = On(t) /\ ClosedAt(t)' = ClosedAt(t) /\ settlements'[t] = settlements[t]
      /\ positions'[t] = positions[t] /\ t \in Tickers \ raced
  BY DEF Alone, On, ClosedAt
<1>2. /\ Balanced(t, Over(positions[t], Flat), On(t), ClosedAt(t))
      /\ \A y \in Sessions : RowExact(txn[y], t, On(t), settlements[t])
  BY <1>1 DEF RowsExact
<1>3. RowExact(txn'[s], t, On(t), settlements[t])
  OBVIOUS
<1>4. \A y \in Sessions \ {s} : txn'[y] = txn[y]
  BY DEF Alone
<1> QED BY <1>1, <1>2, <1>3, <1>4

\* A row stays exact when its transaction changes nothing about it.
LEMMA RowExactKept ==
    ASSUME NEW x, NEW y, NEW t, NEW B, NEW c, RowExact(x, t, B, c),
           ~FillWaits(x, t), ~FillWaits(y, t),
           SettledOn(y, t) = SettledOn(x, t), y.rows[t] = x.rows[t],
           {f \in y.booked : FillOf[f].ticker = t} = {f \in x.booked : FillOf[f].ticker = t}
    PROVE  RowExact(y, t, B, c)
<1>1. PICK F \in SUBSET x.booked :
          /\ FoldedOn(x, t, F)
          /\ x.rows[t] = Absent => F = {} /\ SettledOn(x, t) = Absent
          /\ x.rows[t] # Absent => Balanced(t, x.rows[t], B \cup F,
                                            ClosedBy(Over(SettledOn(x, t), c)))
  BY DEF RowExact
<1>2. F = {f \in x.booked : FillOf[f].ticker = t}
  BY <1>1 DEF FoldedOn
<1>3. F \in SUBSET y.booked /\ FoldedOn(y, t, F)
  BY <1>2 DEF FoldedOn
<1> QED BY <1>1, <1>3 DEF RowExact

LEMMA ReadFillRows ==
    ASSUME BalanceInv, NEW s \in Traders, NEW f \in Fills, ReadFill(s, f)
    PROVE  RowsExact'
<1> DEFINE x == txn[s]
           y == txn'[s]
<1>1. TypeOK /\ RowsExact
  BY DEF BalanceInv, LedgerInv
<1>2. /\ s \in Sessions /\ Alone(s) /\ raced' = raced /\ x.pc = "ready"
      /\ f \notin x.booked
      /\ y.pc = "position" /\ y.op.kind = "fill" /\ y.op.ticker = FillOf[f].ticker
      /\ Brings(y.op, f) /\ y.booked = x.booked \cup {f}
      /\ y.rows = x.rows /\ y.settlements = x.settlements
  BY <1>1, ReadFillShape
<1> HIDE DEF x, y
<1>3. ASSUME NEW t \in Tickers \ raced' PROVE RowExact(y, t, On(t), settlements[t])
  <2>1. RowExact(x, t, On(t), settlements[t])
    BY <1>1, <1>2 DEF RowsExact, x
  <2>2. ~FillWaits(x, t) /\ SettledOn(x, t) = x.settlements[t]
        /\ SettledOn(y, t) = x.settlements[t]
    BY <1>2 DEF FillWaits, SettledOn, SettlementWaits
  <2>3. CASE FillOf[f].ticker # t
    <3>1. ~FillWaits(y, t)
          /\ {g \in y.booked : FillOf[g].ticker = t} = {g \in x.booked : FillOf[g].ticker = t}
      BY <1>2, <2>3 DEF FillWaits
    <3> QED BY <1>2, <2>1, <2>2, <3>1, RowExactKept
  <2>4. CASE FillOf[f].ticker = t
    <3>1. PICK F \in SUBSET x.booked :
            /\ FoldedOn(x, t, F)
            /\ x.rows[t] = Absent => F = {} /\ SettledOn(x, t) = Absent
            /\ x.rows[t] # Absent => Balanced(t, x.rows[t], On(t) \cup F,
                                          ClosedBy(Over(SettledOn(x, t), settlements[t])))
      BY <2>1 DEF RowExact
    <3>2. F = {g \in x.booked : FillOf[g].ticker = t}
      BY <2>2, <3>1 DEF FoldedOn
    <3>3. FillWaits(y, t) /\ f \in {g \in y.booked : FillOf[g].ticker = t}
          /\ F = {g \in y.booked : FillOf[g].ticker = t} \ {f}
      BY <1>2, <2>4, <3>2 DEF FillWaits
    <3>4. FoldedOn(y, t, F) /\ F \in SUBSET y.booked
      BY <1>2, <3>3 DEF FoldedOn
    <3> QED BY <1>2, <2>2, <3>1, <3>4 DEF RowExact
  <2> QED BY <2>3, <2>4
<1> QED BY <1>1, <1>2, <1>3, RowsAlone DEF y

LEMMA ReadSettlementRows ==
    ASSUME BalanceInv, NEW t \in Tickers, ReadSettlement(t)
    PROVE  RowsExact'
<1> DEFINE s == Settler
           x == txn[s]
           y == txn'[s]
<1>1. TypeOK /\ RowsExact
  BY DEF BalanceInv, LedgerInv
<1>2. /\ s \in Sessions /\ Alone(s) /\ raced' = raced /\ x.pc = "ready"
      /\ x.settlements[t] = Absent
      /\ y.pc = "position" /\ y.op.kind = "settlement" /\ y.op.ticker = t
      /\ y.booked = x.booked /\ y.rows = x.rows
      /\ \A u \in Tickers \ {t} : y.settlements[u] = x.settlements[u]
  BY <1>1, ReadSettlementShape
<1> HIDE DEF s, x, y
<1>3. ASSUME NEW u \in Tickers \ raced' PROVE RowExact(y, u, On(u), settlements[u])
  <2>1. RowExact(x, u, On(u), settlements[u])
    BY <1>1, <1>2 DEF RowsExact, x
  <2>2. ~FillWaits(x, u) /\ ~FillWaits(y, u) /\ SettledOn(x, u) = x.settlements[u]
    BY <1>2 DEF FillWaits, SettledOn, SettlementWaits
  <2>3. SettledOn(y, u) = x.settlements[u]
    BY <1>2 DEF SettledOn, SettlementWaits
  <2> QED BY <1>2, <2>1, <2>2, <2>3, RowExactKept
<1> QED BY <1>1, <1>2, <1>3, RowsAlone DEF y

LEMMA FoldDayRows ==
    ASSUME BalanceInv, NEW s \in Sessions, FoldDay(s)
    PROVE  RowsExact'
<1> DEFINE x == txn[s]
           y == txn'[s]
<1>1. LedgerInv /\ RowsExact
  BY DEF BalanceInv
<1>2. /\ Alone(s) /\ x.pc = "day" /\ y.pc = "ready" /\ y.rows = x.rows
      /\ y.booked = x.booked /\ y.settlements = x.settlements
  BY <1>1, FoldDayShape
<1> HIDE DEF x, y
<1>3. ASSUME NEW u \in Tickers \ raced' PROVE RowExact(y, u, On(u), settlements[u])
  <2>1. RowExact(x, u, On(u), settlements[u])
    BY <1>1, <1>2 DEF RowsExact, x, Alone
  <2>2. ~FillWaits(x, u) /\ ~FillWaits(y, u) /\ SettledOn(x, u) = SettledOn(y, u)
    BY <1>2 DEF FillWaits, SettledOn, SettlementWaits
  <2> QED BY <1>2, <2>1, <2>2, RowExactKept
<1> QED BY <1>1, <1>2, <1>3, RowsAlone DEF y

LEMMA RollBackRows ==
    ASSUME BalanceInv, NEW s \in Sessions, RollBack(s)
    PROVE  RowsExact'
<1>1. TypeOK /\ RowsExact
  BY DEF BalanceInv, LedgerInv
<1>2. Alone(s) /\ txn'[s] = Idle
  BY <1>1, RollBackShape
<1>3. ASSUME NEW t \in Tickers PROVE RowExact(Idle, t, On(t), settlements[t])
  <2>1. FoldedOn(Idle, t, {}) /\ SettledOn(Idle, t) = Absent /\ Idle.rows[t] = Absent
    BY IdleFacts DEF FoldedOn, FillWaits, SettledOn, SettlementWaits
  <2> QED BY <2>1 DEF RowExact
<1> QED BY <1>1, <1>2, <1>3, RowsAlone

\* What transaction s sees of t is exact, counted with what it has folded in.
LEMMA SeenBalanced ==
    ASSUME BalanceInv, NEW s \in Sessions, NEW t \in Tickers \ raced
    PROVE  \E F \in SUBSET txn[s].booked :
              /\ FoldedOn(txn[s], t, F)
              /\ Balanced(t, Over(Visible(s, t), Flat), On(t) \cup F,
                          ClosedBy(Over(SettledOn(txn[s], t), settlements[t])))
<1> DEFINE x == txn[s]
<1>1. RowsExact /\ TypeOK
  BY DEF BalanceInv, LedgerInv
<1>2. PICK F \in SUBSET x.booked :
          /\ FoldedOn(x, t, F)
          /\ x.rows[t] = Absent => F = {} /\ SettledOn(x, t) = Absent
          /\ x.rows[t] # Absent => Balanced(t, x.rows[t], On(t) \cup F,
                                        ClosedBy(Over(SettledOn(x, t), settlements[t])))
  BY <1>1 DEF RowsExact, RowExact
<1>3. CASE x.rows[t] = Absent
  <2>1. Visible(s, t) = positions[t] /\ On(t) \cup F = On(t)
    BY <1>2, <1>3 DEF Visible, Over
  <2>2. ClosedBy(Over(SettledOn(x, t), settlements[t])) = ClosedAt(t)
    BY <1>2, <1>3 DEF ClosedBy, ClosedAt, Over
  <2>3. Balanced(t, Over(positions[t], Flat), On(t), ClosedAt(t))
    BY <1>1 DEF RowsExact
  <2> QED BY <1>2, <2>1, <2>2, <2>3
<1>4. CASE x.rows[t] # Absent
  <2>1. Visible(s, t) = x.rows[t] /\ Over(Visible(s, t), Flat) = x.rows[t]
    BY <1>4 DEF Visible, Over
  <2> QED BY <1>2, <1>4, <2>1
<1> QED BY <1>3, <1>4

\* What settlements close is a number of contracts.
LEMMA ClosedIsInt ==
    ASSUME NEW a \in Settlement \cup {Absent}, NEW b \in Settlement \cup {Absent}
    PROVE  ClosedBy(Over(a, b)) \in Int
BY DEF ClosedBy, Over, Settlement

LEMMA FoldPositionRows ==
    ASSUME BalanceInv, NEW s \in Sessions, FoldPosition(s)
    PROVE  RowsExact'
<1> DEFINE x == txn[s]
           y == txn'[s]
           t == x.op.ticker
           old == Over(Visible(s, t), Flat)
<1>1. LedgerInv /\ TypeOK /\ RowsExact /\ SettlesOnce
  BY DEF BalanceInv, LedgerInv
<1>2. /\ Alone(s) /\ t \in Tickers /\ x.op \in Op
      /\ x.pc = "position" /\ y.pc = "day" /\ y.op = x.op
      /\ y.booked = x.booked /\ y.settlements = x.settlements
      /\ y.rows[t] \in Position
      /\ \A u \in Tickers \ {t} : y.rows[u] = x.rows[u]
      /\ old \in Position
      /\ t \notin raced' => x.view = Visible(s, t) /\ y.rows[t] = Folded(x.op, old)
  BY <1>1, FoldPositionShape
<1>3. x.booked \in SUBSET Fills /\ x.booked \cap booked = {} /\ booked \in SUBSET Fills
      /\ x.settlements \in [Tickers -> Settlement \cup {Absent}]
      /\ settlements \in [Tickers -> Settlement \cup {Absent}]
  BY <1>1, TxnFacts DEF LedgerInv, OneBooking, TypeOK
<1>4. ASSUME NEW u \in Tickers \ raced', u # t
      PROVE  RowExact(y, u, On(u), settlements[u])
  <2>1. RowExact(x, u, On(u), settlements[u])
    BY <1>1, <1>2, <1>4 DEF RowsExact, Alone
  <2>2. ~FillWaits(x, u) /\ ~FillWaits(y, u) /\ SettledOn(x, u) = SettledOn(y, u)
    BY <1>2, <1>4 DEF FillWaits, SettledOn, SettlementWaits
  <2> QED BY <1>2, <1>4, <2>1, <2>2, RowExactKept
<1>5. ASSUME t \notin raced' PROVE RowExact(y, t, On(t), settlements[t])
  <2> DEFINE own == {f \in x.booked : FillOf[f].ticker = t}
             c == ClosedBy(Over(SettledOn(x, t), settlements[t]))
             row == y.rows[t]
  <2>1. t \in Tickers \ raced
    BY <1>2, <1>5 DEF Alone
  <2>2. PICK F \in SUBSET x.booked :
            FoldedOn(x, t, F) /\ Balanced(t, old, On(t) \cup F, c)
    BY <2>1, SeenBalanced
  <2>3. row = Folded(x.op, old) /\ row # Absent /\ x.view = Visible(s, t)
    BY <1>2, <1>5, AbsentIsNoRow
  <2>4. FoldedOn(y, t, own) /\ own \in SUBSET y.booked /\ SettledOn(y, t) = x.settlements[t]
    BY <1>2 DEF FoldedOn, FillWaits, SettledOn, SettlementWaits
  <2>5. On(t) \cup F \in SUBSET Fills /\ SettledOn(x, t) \in Settlement \cup {Absent}
    BY <1>2, <1>3 DEF On, SettledOn
  <2>6. CASE x.op.kind = "fill"
    <3>1. PICK f \in own : F = own \ {f} /\ Brings(x.op, f)
      BY <1>2, <2>2, <2>6 DEF FoldedOn, FillWaits
    <3>2. f \in Fills /\ f \notin On(t) \cup F /\ On(t) \cup own = (On(t) \cup F) \cup {f}
      BY <1>3, <3>1 DEF On
    <3>3. c \in Int /\ SettledOn(x, t) = x.settlements[t]
      BY <1>2, <1>3, <2>5, <2>6, ClosedIsInt DEF SettledOn, SettlementWaits
    <3> HIDE DEF c, own, row, old, t, x, y
    <3>4. Balanced(t, Folded(x.op, old), (On(t) \cup F) \cup {f}, c)
      BY <1>2, <2>2, <2>5, <2>6, <3>1, <3>2, <3>3, FillBalanced
    <3> QED BY <2>3, <2>4, <3>2, <3>3, <3>4 DEF RowExact, c, row
  <2>7. CASE x.op.kind = "settlement"
    <3>1. SettlementWaits(x, t)
      BY <1>2, <2>7 DEF SettlementWaits
    <3>2. /\ settlements[t] = Absent /\ x.view # Absent
          /\ x.settlements[t] = [net |-> x.view.net, avg |-> x.view.avg]
          /\ x.op.price = Payout[t]
      BY <1>1, <1>2, <3>1 DEF SettlesOnce
    <3>3. old = x.view
      BY <2>3, <3>2 DEF Over
    <3>4. F = own
      BY <2>2, <2>7 DEF FoldedOn, FillWaits
    <3>5. c = 0
      BY <3>1, <3>2 DEF SettledOn, ClosedBy, Over
    <3>6. ClosedBy(Over(x.settlements[t], settlements[t])) = old.net
      <4>1. x.settlements[t] # Absent
        BY <3>2 DEF Absent
      <4> QED BY <3>2, <3>3, <4>1 DEF ClosedBy, Over
    <3> HIDE DEF c, own, row, old, t, x, y
    <3>7. Balanced(t, Folded(x.op, old), On(t) \cup own, old.net)
      BY <1>2, <2>2, <2>5, <2>7, <3>2, <3>4, <3>5, SettlementBalanced
    <3> QED BY <2>3, <2>4, <3>6, <3>7 DEF RowExact, row
  <2> QED BY <1>2, <2>6, <2>7 DEF Op
<1>6. \A u \in Tickers \ raced' : RowExact(y, u, On(u), settlements[u])
  BY <1>4, <1>5
<1> QED BY <1>1, <1>2, <1>6, RowsAlone

LEMMA CommitRows ==
    ASSUME BalanceInv, NEW s \in Sessions, Commit(s)
    PROVE  RowsExact'
<1> DEFINE x == txn[s]
<1>1. LedgerInv /\ TypeOK /\ RowsExact /\ OneWriter
  BY DEF BalanceInv, LedgerInv
<1>2. /\ x.pc = "ready" /\ txn'[s] = Idle
      /\ \A y \in Sessions \ {s} : txn'[y] = txn[y]
      /\ positions' = Through(x.rows, positions)
      /\ booked' = booked \cup x.booked
      /\ settlements' = Through(x.settlements, settlements)
      /\ raced' = raced
  BY <1>1, CommitShape
<1> SUFFICES ASSUME NEW t \in Tickers \ raced
             PROVE  /\ Balanced(t, Over(positions'[t], Flat), On(t)', ClosedAt(t)')
                    /\ \A y \in Sessions : RowExact(txn'[y], t, On(t)', settlements'[t])
  BY <1>2 DEF RowsExact
<1> DEFINE own == {f \in x.booked : FillOf[f].ticker = t}
<1>3. /\ positions'[t] = Over(x.rows[t], positions[t])
      /\ settlements'[t] = Over(x.settlements[t], settlements[t])
      /\ On(t)' = On(t) \cup own /\ ClosedAt(t)' = ClosedBy(settlements'[t])
  BY <1>2 DEF Through, On, ClosedAt, ClosedBy
<1>4. SettledOn(x, t) = x.settlements[t] /\ \A F : FoldedOn(x, t, F) => F = own
  BY <1>2 DEF SettledOn, SettlementWaits, FoldedOn, FillWaits
<1>5. PICK F \in SUBSET x.booked :
          /\ FoldedOn(x, t, F)
          /\ x.rows[t] = Absent => F = {} /\ SettledOn(x, t) = Absent
          /\ x.rows[t] # Absent => Balanced(t, x.rows[t], On(t) \cup F,
                                        ClosedBy(Over(SettledOn(x, t), settlements[t])))
  BY <1>1 DEF RowsExact, RowExact
<1>6. F = own
  BY <1>4, <1>5
<1>7. Balanced(t, Over(positions'[t], Flat), On(t)', ClosedAt(t)')
  <2>1. Balanced(t, Over(Visible(s, t), Flat), On(t) \cup own,
                 ClosedBy(Over(SettledOn(x, t), settlements[t])))
    BY <1>4, SeenBalanced
  <2> QED BY <1>3, <1>4, <2>1 DEF Visible
<1>8. RowExact(Idle, t, On(t)', settlements'[t])
  <2>1. FoldedOn(Idle, t, {}) /\ SettledOn(Idle, t) = Absent /\ Idle.rows[t] = Absent
    BY IdleFacts DEF FoldedOn, FillWaits, SettledOn, SettlementWaits
  <2> QED BY <2>1 DEF RowExact
<1>9. ASSUME NEW y \in Sessions \ {s} PROVE RowExact(txn[y], t, On(t)', settlements'[t])
  <2>1. RowExact(txn[y], t, On(t), settlements[t])
    BY <1>1 DEF RowsExact
  <2>2. CASE x.rows[t] = Absent
    <3>1. On(t)' = On(t) /\ settlements'[t] = settlements[t]
      BY <1>3, <1>4, <1>5, <1>6, <2>2 DEF Over
    <3> QED BY <2>1, <3>1
  <2>3. CASE x.rows[t] # Absent
    <3>1. txn[y].rows[t] = Absent
      BY <1>1, <2>3 DEF OneWriter
    <3> QED BY <2>1, <3>1 DEF RowExact
  <2> QED BY <2>2, <2>3
<1> QED BY <1>2, <1>7, <1>8, <1>9

LEMMA RowsStep ==
    ASSUME BalanceInv, [Next]_vars
    PROVE  RowsExact'
<1>1. CASE UNCHANGED <<positions, booked, settlements, txn, raced>>
  BY <1>1 DEF BalanceInv, RowsExact, On, ClosedAt
<1>2. \/ UNCHANGED <<positions, booked, settlements, txn, raced>>
      \/ \E t \in Tickers : ReadSettlement(t)
      \/ \E s \in Traders, f \in Fills : ReadFill(s, f)
      \/ \E s \in Sessions : FoldPosition(s) \/ FoldDay(s) \/ Commit(s) \/ RollBack(s)
  BY DEF Next, vars, Resolve, Conflict, Victim, Abort
<1> QED BY <1>1, <1>2, ReadSettlementRows, ReadFillRows, FoldPositionRows, FoldDayRows,
           CommitRows, RollBackRows

-------------------------------------------------------------------------------
(* The day is the sum of its positions                                         *)

\* Sums over markets of two amounts that differ in one of them.
LEMMA OneMarketMore ==
    ASSUME NEW t \in Tickers, NEW r, NEW q,
           \A u \in Tickers : r[u] \in Int /\ q[u] \in Int,
           \A u \in Tickers \ {t} : q[u] = r[u]
    PROVE  TotalOver(q, Tickers) = TotalOver(r, Tickers) + (q[t] - r[t])
<1> DEFINE T == Tickers \ {t}
<1>1. IsFiniteSet(Tickers)
  BY LedgerAssumption
<1>2. IsFiniteSet(T)
  BY <1>1, FS_RemoveElement
<1>3. TotalOver(q, Tickers) = q[t] + TotalOver(q, T)
  BY <1>1, TotalOverRemove
<1>4. TotalOver(r, Tickers) = r[t] + TotalOver(r, T)
  BY <1>1, TotalOverRemove
<1>5. TotalOver(q, T) = TotalOver(r, T)
  BY <1>2, TotalOverSame
<1>6. TotalOver(r, T) \in Int
  BY <1>2, TotalOverInt
<1> HIDE DEF T
<1> QED BY <1>3, <1>4, <1>5, <1>6

\* What rows realized are numbers.
LEMMA RealizedAreInts ==
    ASSUME NEW rows \in [Tickers -> Position \cup {Absent}]
    PROVE  \A t \in Tickers : RealizedOf(rows)[t] \in Int
                              /\ RealizedOf(rows)[t] = Over(rows[t], Flat).realized
BY FlatIsPosition DEF RealizedOf, Over, Position

LEMMA ThroughTyped ==
    ASSUME NEW a \in [Tickers -> Position \cup {Absent}],
           NEW b \in [Tickers -> Position \cup {Absent}]
    PROVE  Through(a, b) \in [Tickers -> Position \cup {Absent}]
BY DEF Through, Over

\* One row more, of a market with a row or without.
LEMMA OneRowMore ==
    ASSUME NEW a \in [Tickers -> Position \cup {Absent}],
           NEW b \in [Tickers -> Position \cup {Absent}],
           NEW t \in Tickers, b[t] # Absent, \A u \in Tickers \ {t} : b[u] = a[u],
           NEW c \in [Tickers -> Position \cup {Absent}]
    PROVE  TotalOver(RealizedOf(Through(b, c)), Tickers)
             = TotalOver(RealizedOf(Through(a, c)), Tickers)
                 + (b[t].realized - Over(Over(a[t], c[t]), Flat).realized)
<1> DEFINE q == RealizedOf(Through(b, c))
           r == RealizedOf(Through(a, c))
<1>1. \A u \in Tickers : r[u] \in Int /\ q[u] \in Int
  BY ThroughTyped, RealizedAreInts
<1>2. \A u \in Tickers : r[u] = Over(Over(a[u], c[u]), Flat).realized
                         /\ q[u] = Over(Over(b[u], c[u]), Flat).realized
  BY DEF RealizedOf, Through
<1>3. q[t] = b[t].realized
  BY <1>2 DEF Over
<1>4. \A u \in Tickers \ {t} : q[u] = r[u]
  BY <1>2
<1>5. r[t] = Over(Over(a[t], c[t]), Flat).realized
  BY <1>2
<1> HIDE DEF q, r
<1>6. TotalOver(q, Tickers) = TotalOver(r, Tickers) + (q[t] - r[t])
  BY <1>1, <1>4, OneMarketMore
<1> QED BY <1>3, <1>5, <1>6 DEF q, r

\* A transaction that has written nothing sees what is committed.
LEMMA ThroughNothing ==
    ASSUME NEW a, NEW b, NEW S, b \in [Tickers -> S], \A t \in Tickers : a[t] = Absent
    PROVE  Through(a, b) = b
BY DEF Through, Over

\* The fields of the day with what is outstanding.
LEMMA WithFacts ==
    ASSUME NEW d, NEW x
    PROVE  /\ x.pc = "day" => With(d, x).realized = d.realized + x.realized
           /\ x.pc # "day" => With(d, x).realized = d.realized + 0
           /\ x.pc # "ready" /\ x.op.kind = "fill" => With(d, x).trades = d.trades + 1
           /\ x.pc = "ready" \/ x.op.kind # "fill" => With(d, x).trades = d.trades + 0
           /\ x.pc # "ready" /\ x.op.kind = "settlement" =>
                 With(d, x).settlements = d.settlements + 1
           /\ x.pc = "ready" \/ x.op.kind # "settlement" =>
                 With(d, x).settlements = d.settlements + 0
BY DEF With

\* The committed day is that of a transaction at its first operation, but for what
\* that operation adds.
LEMMA FirstOpSums ==
    ASSUME TypeOK, NEW s \in Sessions, txn[s].booked \cap booked = {},
           FirstOp(txn[s], positions, settlements, TRUE),
           txn[s].pc # "ready" => txn[s].op \in Op,
           DaySums(Over(daily, NewDay), RealizedOf(positions), booked, SettledIn(settlements))
    PROVE  DayOf(Over(daily, NewDay), txn[s], positions, booked, settlements)
<1> DEFINE x == txn[s]
           d == Over(daily, NewDay)
           r == RealizedOf(positions)
           q == RealizedOf(Through(x.rows, positions))
           t == x.op.ticker
<1>1. /\ x.booked \in SUBSET Fills /\ x.pc \in {"ready", "position", "day"}
      /\ x.rows \in [Tickers -> Position \cup {Absent}]
      /\ x.settlements \in [Tickers -> Settlement \cup {Absent}]
      /\ positions \in [Tickers -> Position \cup {Absent}]
      /\ settlements \in [Tickers -> Settlement \cup {Absent}]
      /\ booked \in SUBSET Fills /\ x.realized \in Int
  BY TxnFacts DEF TypeOK
<1>2. d.realized \in Int /\ d.trades \in Int /\ d.settlements \in Int
  BY NewDayIsDay DEF TypeOK, Over, Day
<1>3. d.realized = TotalOver(r, Tickers) /\ d.trades = Cardinality(booked)
      /\ d.settlements = Cardinality(SettledIn(settlements))
  BY DEF DaySums
<1>4. x.pc # "ready" => t \in Tickers /\ x.op.kind \in {"fill", "settlement"}
  BY DEF Op
<1>5. x.pc = "ready" => x.booked = {} /\ \A u \in Tickers : x.rows[u] = Absent
                                                     /\ x.settlements[u] = Absent
  BY IdleFacts DEF FirstOp
<1> HIDE DEF d, x, t
<1>6. With(d, x).realized = TotalOver(q, Tickers)
  <2>1. CASE x.pc # "day"
    <3>1. \A u \in Tickers : x.rows[u] = Absent
      BY <1>1, <1>5, <2>1 DEF FirstOp, x
    <3>2. q = r
      BY <1>1, <3>1, ThroughNothing
    <3> QED BY <1>2, <1>3, <2>1, <3>2, WithFacts
  <2>2. CASE x.pc = "day"
    <3> DEFINE a == [u \in Tickers |-> Absent]
    <3>1. t \in Tickers /\ x.rows[t] # Absent /\ \A u \in Tickers \ {t} : x.rows[u] = a[u]
      BY <1>4, <2>2 DEF FirstOp, x, t
    <3>2. a \in [Tickers -> Position \cup {Absent}] /\ a[t] = Absent
      BY <3>1
    <3>3. Through(a, positions) = positions
      <4>1. \A u \in Tickers : a[u] = Absent
        OBVIOUS
      <4> HIDE DEF a
      <4> QED BY <1>1, <4>1, ThroughNothing
    <3>4. TotalOver(q, Tickers) = TotalOver(r, Tickers)
             + (x.rows[t].realized - Over(Over(a[t], positions[t]), Flat).realized)
      <4> HIDE DEF a
      <4> QED BY <1>1, <3>1, <3>2, <3>3, OneRowMore
    <3>5. Over(a[t], positions[t]) = positions[t]
      BY <3>2 DEF Over
    <3>6. x.realized = x.rows[t].realized - Over(positions[t], Flat).realized
      BY <2>2 DEF FirstOp, x, t
    <3> QED BY <1>2, <1>3, <2>2, <3>4, <3>5, <3>6, WithFacts
  <2> QED BY <2>1, <2>2
<1>7. With(d, x).trades = Cardinality(booked \cup x.booked)
  <2>1. CASE x.pc = "ready" \/ x.op.kind # "fill"
    <3>1. x.booked = {}
      BY <1>4, <1>5, <2>1 DEF FirstOp, x
    <3>2. booked \cup x.booked = booked
      BY <3>1
    <3>3. With(d, x).trades = d.trades + 0
      BY <2>1, WithFacts
    <3> QED BY <1>2, <1>3, <3>2, <3>3
  <2>2. CASE x.pc # "ready" /\ x.op.kind = "fill"
    <3>1. PICK f \in Fills : x.booked = {f}
      BY <2>2 DEF FirstOp, x
    <3>2. f \notin booked
      BY <3>1 DEF x
    <3>3. Cardinality(booked \cup {f}) = Cardinality(booked) + 1
      BY <1>1, <3>2, FillAdds
    <3> QED BY <1>3, <2>2, <3>1, <3>3, WithFacts
  <2> QED BY <2>1, <2>2
<1>8. With(d, x).settlements = Cardinality(SettledIn(Through(x.settlements, settlements)))
  <2>1. CASE x.pc = "ready" \/ x.op.kind # "settlement"
    <3>1. \A u \in Tickers : x.settlements[u] = Absent
      BY <1>4, <1>5, <2>1 DEF FirstOp, x
    <3>2. Through(x.settlements, settlements) = settlements
      BY <1>1, <3>1, ThroughNothing
    <3> QED BY <1>2, <1>3, <2>1, <3>2, WithFacts
  <2>2. CASE x.pc # "ready" /\ x.op.kind = "settlement"
    <3>1. /\ t \in Tickers /\ settlements[t] = Absent
          /\ \A u \in Tickers : x.settlements[u] # Absent <=> u = t
      BY <1>4, <2>2 DEF FirstOp, x, t
    <3>2. SettledIn(Through(x.settlements, settlements)) = SettledIn(settlements) \cup {t}
          /\ t \notin SettledIn(settlements)
      BY <3>1 DEF SettledIn, Through, Over
    <3>3. IsFiniteSet(SettledIn(settlements))
      BY LedgerAssumption, FS_Subset DEF SettledIn
    <3>4. Cardinality(SettledIn(settlements) \cup {t}) = Cardinality(SettledIn(settlements)) + 1
      BY <3>2, <3>3, FS_AddElement
    <3> QED BY <1>3, <2>2, <3>2, <3>4, WithFacts
  <2> QED BY <2>1, <2>2
<1> HIDE DEF q
<1> QED BY <1>6, <1>7, <1>8 DEF DayOf, DaySums, q, d, x

\* A step of s alone keeps DaysSum if its own part of it holds.
LEMMA DaysAlone ==
    ASSUME DaysSum, NEW s \in Sessions, Alone(s),
           txn'[s].day = Absent => FirstOp(txn'[s], positions, settlements, raced' = {}),
           txn'[s].day # Absent /\ raced' = {} =>
               DayOf(txn'[s].day, txn'[s], positions, booked, settlements)
    PROVE  DaysSum'
<1>1. /\ positions' = positions /\ daily' = daily /\ booked' = booked
      /\ settlements' = settlements /\ (raced' = {} => raced = {})
      /\ \A y \in Sessions \ {s} : txn'[y] = txn[y]
  BY DEF Alone
<1>2. raced' = {} => DaySums(Over(daily, NewDay), RealizedOf(positions), booked,
                             SettledIn(settlements))
  BY <1>1 DEF DaysSum
<1>3. ASSUME NEW y \in Sessions \ {s}
      PROVE  /\ txn[y].day = Absent => FirstOp(txn[y], positions, settlements, raced' = {})
             /\ txn[y].day # Absent /\ raced' = {} =>
                    DayOf(txn[y].day, txn[y], positions, booked, settlements)
  <2>1. /\ txn[y].day = Absent => FirstOp(txn[y], positions, settlements, raced = {})
        /\ txn[y].day # Absent /\ raced = {} =>
               DayOf(txn[y].day, txn[y], positions, booked, settlements)
    BY DEF DaysSum
  <2> QED BY <1>1, <2>1 DEF FirstOp
<1> QED BY <1>1, <1>2, <1>3 DEF DaysSum

\* What the day of transaction s holds, with what is outstanding, is the sum of the
\* positions as s sees them.
LEMMA SeenDay ==
    ASSUME BalanceInv, NEW s \in Sessions, raced = {}
    PROVE  DayOf(Over(VisibleDay(s), NewDay), txn[s], positions, booked, settlements)
<1>1. TypeOK /\ DaysSum /\ txn[s].booked \cap booked = {}
      /\ (txn[s].pc # "ready" => txn[s].op \in Op)
  <2>1. txn[s].pc \in {"ready", "position", "day"}
    BY TxnFacts DEF BalanceInv, LedgerInv
  <2> QED BY <2>1 DEF BalanceInv, LedgerInv, OneBooking, ViewsStand
<1>2. CASE txn[s].day = Absent
  <2>1. VisibleDay(s) = daily
    BY <1>2 DEF VisibleDay, Over
  <2>2. FirstOp(txn[s], positions, settlements, TRUE)
        /\ DaySums(Over(daily, NewDay), RealizedOf(positions), booked, SettledIn(settlements))
    BY <1>1, <1>2 DEF DaysSum
  <2> QED BY <1>1, <2>1, <2>2, FirstOpSums
<1>3. CASE txn[s].day # Absent
  <2>1. Over(VisibleDay(s), NewDay) = txn[s].day
    BY <1>3 DEF VisibleDay, Over
  <2> QED BY <1>1, <1>3, <2>1 DEF DaysSum
<1> QED BY <1>2, <1>3

LEMMA IdleFirst ==
    ASSUME NEW rows, NEW settled, NEW exact
    PROVE  FirstOp(Idle, rows, settled, exact)
BY IdleFacts DEF FirstOp

LEMMA ReadFillDays ==
    ASSUME BalanceInv, NEW s \in Traders, NEW f \in Fills, ReadFill(s, f)
    PROVE  DaysSum'
<1> DEFINE x == txn[s]
           y == txn'[s]
<1>1. TypeOK /\ DaysSum
  BY DEF BalanceInv, LedgerInv
<1>2. /\ s \in Sessions /\ Alone(s) /\ raced' = raced /\ x.pc = "ready"
      /\ f \notin booked /\ f \notin x.booked
      /\ y.pc = "position" /\ y.op.kind = "fill"
      /\ y.booked = x.booked \cup {f}
      /\ y.rows = x.rows /\ y.day = x.day /\ y.settlements = x.settlements
  BY <1>1, ReadFillShape
<1>3. /\ x.day = Absent => FirstOp(x, positions, settlements, raced = {})
      /\ x.day # Absent /\ raced = {} => DayOf(x.day, x, positions, booked, settlements)
  BY <1>1, <1>2 DEF DaysSum
<1>4. x.booked \in SUBSET Fills /\ booked \in SUBSET Fills /\ x.day \in Day \cup {Absent}
  BY <1>1, <1>2, TxnFacts DEF TypeOK
<1> HIDE DEF x, y
<1>5. ASSUME x.day = Absent PROVE FirstOp(y, positions, settlements, raced = {})
  <2>1. x = Idle
    BY <1>2, <1>3, <1>5 DEF FirstOp
  <2>2. y.booked = {f} /\ \A t \in Tickers : y.rows[t] = Absent /\ y.settlements[t] = Absent
    BY <1>2, <2>1, IdleFacts
  <2> QED BY <1>2, <2>2 DEF FirstOp
<1>6. ASSUME x.day # Absent, raced = {}
      PROVE  DayOf(x.day, y, positions, booked, settlements)
  <2>1. DayOf(x.day, x, positions, booked, settlements)
    BY <1>3, <1>6
  <2>2. With(x.day, y).realized = With(x.day, x).realized
        /\ With(x.day, y).settlements = With(x.day, x).settlements
    BY <1>2, WithFacts
  <2>3. With(x.day, x).trades = x.day.trades + 0 /\ With(x.day, y).trades = x.day.trades + 1
    BY <1>2, WithFacts
  <2>4. Cardinality(booked \cup y.booked) = Cardinality(booked \cup x.booked) + 1
    <3>1. booked \cup y.booked = (booked \cup x.booked) \cup {f}
          /\ f \notin booked \cup x.booked /\ booked \cup x.booked \in SUBSET Fills
      BY <1>2, <1>4
    <3> HIDE DEF x, y
    <3> QED BY <3>1, FillAdds
  <2>5. x.day.trades \in Nat
    BY <1>4, <1>6 DEF Day
  <2>6. With(x.day, x).trades = Cardinality(booked \cup x.booked)
    BY <2>1 DEF DayOf, DaySums
  <2>7. With(x.day, y).trades = Cardinality(booked \cup y.booked)
    BY <2>3, <2>4, <2>5, <2>6
  <2> QED BY <1>2, <2>1, <2>2, <2>7 DEF DayOf, DaySums
<1> QED BY <1>1, <1>2, <1>5, <1>6, DaysAlone DEF y

LEMMA ReadSettlementDays ==
    ASSUME BalanceInv, NEW t \in Tickers, ReadSettlement(t)
    PROVE  DaysSum'
<1> DEFINE s == Settler
           x == txn[s]
           y == txn'[s]
<1>1. TypeOK /\ DaysSum
  BY DEF BalanceInv, LedgerInv
<1>2. /\ s \in Sessions /\ Alone(s) /\ raced' = raced /\ x.pc = "ready"
      /\ settlements[t] = Absent /\ x.settlements[t] = Absent
      /\ y.pc = "position" /\ y.op.kind = "settlement" /\ y.op.ticker = t
      /\ y.booked = x.booked /\ y.rows = x.rows /\ y.day = x.day
      /\ y.settlements[t] = [net |-> y.view.net, avg |-> y.view.avg]
      /\ \A u \in Tickers \ {t} : y.settlements[u] = x.settlements[u]
  BY <1>1, ReadSettlementShape
<1>3. /\ x.day = Absent => FirstOp(x, positions, settlements, raced = {})
      /\ x.day # Absent /\ raced = {} => DayOf(x.day, x, positions, booked, settlements)
  BY <1>1, <1>2 DEF DaysSum
<1>4. x.day \in Day \cup {Absent}
  BY <1>1, <1>2, TxnFacts
<1>5. y.settlements[t] # Absent
  BY <1>2 DEF Absent
<1> HIDE DEF s, x, y
<1>6. ASSUME x.day = Absent PROVE FirstOp(y, positions, settlements, raced = {})
  <2>1. x = Idle
    BY <1>2, <1>3, <1>6 DEF FirstOp
  <2>2. y.booked = {} /\ \A u \in Tickers : /\ y.rows[u] = Absent
                                            /\ y.settlements[u] # Absent <=> u = t
    BY <1>2, <1>5, <2>1, IdleFacts
  <2> QED BY <1>2, <2>2 DEF FirstOp
<1>7. ASSUME x.day # Absent, raced = {}
      PROVE  DayOf(x.day, y, positions, booked, settlements)
  <2> DEFINE A == SettledIn(Through(x.settlements, settlements))
             B == SettledIn(Through(y.settlements, settlements))
  <2>1. DayOf(x.day, x, positions, booked, settlements)
    BY <1>3, <1>7
  <2>2. With(x.day, y).realized = With(x.day, x).realized
        /\ With(x.day, y).trades = With(x.day, x).trades
    <3>1. With(x.day, y).trades = x.day.trades + 0 /\ With(x.day, x).trades = x.day.trades + 0
      BY <1>2, WithFacts
    <3> QED BY <1>2, <3>1, WithFacts
  <2>3. With(x.day, x).settlements = x.day.settlements + 0
        /\ With(x.day, y).settlements = x.day.settlements + 1
    BY <1>2, WithFacts
  <2>4. B = A \cup {t} /\ t \notin A
    BY <1>2, <1>5 DEF SettledIn, Through, Over
  <2>5. IsFiniteSet(A)
    BY LedgerAssumption, FS_Subset DEF SettledIn
  <2>6. With(x.day, x).settlements = Cardinality(A)
    BY <2>1 DEF DayOf, DaySums
  <2>7. x.day.settlements \in Nat
    BY <1>4, <1>7 DEF Day
  <2> HIDE DEF A, B
  <2>8. Cardinality(B) = Cardinality(A) + 1
    BY <2>4, <2>5, FS_AddElement
  <2>9. With(x.day, y).settlements = Cardinality(B)
    BY <2>3, <2>6, <2>7, <2>8
  <2> QED BY <1>2, <2>1, <2>2, <2>9 DEF DayOf, DaySums, B
<1> QED BY <1>1, <1>2, <1>6, <1>7, DaysAlone DEF y

LEMMA FoldPositionDays ==
    ASSUME BalanceInv, NEW s \in Sessions, FoldPosition(s)
    PROVE  DaysSum'
<1> DEFINE x == txn[s]
           y == txn'[s]
           t == x.op.ticker
           old == Over(Visible(s, t), Flat)
<1>1. LedgerInv /\ TypeOK /\ DaysSum
  BY DEF BalanceInv, LedgerInv
<1>2. /\ Alone(s) /\ t \in Tickers
      /\ x.pc = "position" /\ y.pc = "day" /\ y.op = x.op
      /\ y.booked = x.booked /\ y.settlements = x.settlements /\ y.day = x.day
      /\ y.rows[t] \in Position
      /\ \A u \in Tickers \ {t} : y.rows[u] = x.rows[u]
      /\ raced' = {} => y.realized = y.rows[t].realized - old.realized
  BY <1>1, FoldPositionShape
<1>3. /\ x.day = Absent => FirstOp(x, positions, settlements, raced = {})
      /\ x.day # Absent /\ raced = {} => DayOf(x.day, x, positions, booked, settlements)
  BY <1>1, <1>2 DEF DaysSum
<1>4. /\ x.rows \in [Tickers -> Position \cup {Absent}]
      /\ positions \in [Tickers -> Position \cup {Absent}] /\ x.day \in Day \cup {Absent}
  BY <1>1, TxnFacts DEF TypeOK
<1>5. y.rows \in [Tickers -> Position \cup {Absent}]
  <2>1. TypeOK'
    BY <1>1, FoldPositionKeeps DEF LedgerInv
  <2>2. txn'[s] \in Txn
    BY <2>1 DEF TypeOK
  <2> QED BY <2>2 DEF Txn
<1>6. y.rows[t] # Absent
  BY <1>2, AbsentIsNoRow
<1>7. old = Over(Over(x.rows[t], positions[t]), Flat)
  BY DEF Visible
<1> HIDE DEF x, y, t, old
<1>8. ASSUME x.day = Absent PROVE FirstOp(y, positions, settlements, raced' = {})
  <2>1. /\ \A u \in Tickers : x.rows[u] = Absent
        /\ x.op.kind = "fill" => /\ \E f \in Fills : x.booked = {f}
                                 /\ \A u \in Tickers : x.settlements[u] = Absent
        /\ x.op.kind = "settlement" =>
              /\ x.booked = {} /\ settlements[t] = Absent
              /\ \A u \in Tickers : x.settlements[u] # Absent <=> u = t
    BY <1>2, <1>3, <1>8 DEF FirstOp, t
  <2>2. \A u \in Tickers : y.rows[u] # Absent <=> u = t
    BY <1>2, <1>6, <2>1
  <2>3. old = Over(positions[t], Flat)
    BY <1>2, <1>7, <2>1 DEF Over
  <2>4. y.op.ticker = t /\ y.op.kind = x.op.kind
    BY <1>2 DEF t
  <2> QED BY <1>2, <2>1, <2>2, <2>3, <2>4 DEF FirstOp
<1>9. ASSUME x.day # Absent, raced' = {}
      PROVE  DayOf(x.day, y, positions, booked, settlements)
  <2> DEFINE r == TotalOver(RealizedOf(Through(x.rows, positions)), Tickers)
             q == TotalOver(RealizedOf(Through(y.rows, positions)), Tickers)
  <2>1. DayOf(x.day, x, positions, booked, settlements)
    BY <1>2, <1>3, <1>9 DEF Alone
  <2>2. With(x.day, y).trades = With(x.day, x).trades
        /\ With(x.day, y).settlements = With(x.day, x).settlements
    BY <1>2 DEF With
  <2>3. With(x.day, x).realized = x.day.realized + 0
        /\ With(x.day, y).realized = x.day.realized + y.realized
    BY <1>2, WithFacts
  <2>4. With(x.day, x).realized = r
    BY <2>1 DEF DayOf, DaySums
  <2>5. q = r + (y.rows[t].realized - old.realized)
    BY <1>2, <1>4, <1>5, <1>6, <1>7, OneRowMore
  <2>6. x.day.realized \in Int
    BY <1>4, <1>9 DEF Day
  <2> HIDE DEF r, q
  <2>7. With(x.day, y).realized = q
    BY <1>2, <1>9, <2>3, <2>4, <2>5, <2>6
  <2> QED BY <1>2, <2>1, <2>2, <2>7 DEF DayOf, DaySums, q
<1> QED BY <1>1, <1>2, <1>8, <1>9, DaysAlone DEF y

LEMMA FoldDayDays ==
    ASSUME BalanceInv, NEW s \in Sessions, FoldDay(s)
    PROVE  DaysSum'
<1> DEFINE x == txn[s]
           y == txn'[s]
           old == Over(VisibleDay(s), NewDay)
<1>1. LedgerInv /\ TypeOK /\ DaysSum
  BY DEF BalanceInv, LedgerInv
<1>2. /\ Alone(s) /\ x.pc = "day" /\ x.op \in Op
      /\ y.pc = "ready" /\ y.rows = x.rows /\ y.booked = x.booked
      /\ y.settlements = x.settlements /\ y.day # Absent
      /\ raced' = {} => raced = {} /\ y.day = Rolled(x.op.kind, x.realized, old)
  BY <1>1, FoldDayShape
<1>3. raced = {} => DayOf(old, x, positions, booked, settlements)
  BY SeenDay
<1>4. old \in Day
  BY <1>1, VisibleTyped, NewDayIsDay DEF Over
<1> HIDE DEF x, y, old
<1>5. ASSUME raced' = {} PROVE DayOf(y.day, y, positions, booked, settlements)
  <2>1. DayOf(old, x, positions, booked, settlements)
    BY <1>2, <1>3, <1>5
  <2>2. x.op.kind \in {"fill", "settlement"}
    BY <1>2 DEF Op
  <2>3. /\ y.day.realized = With(old, x).realized
        /\ y.day.trades = With(old, x).trades
        /\ y.day.settlements = With(old, x).settlements
    BY <1>2, <1>5 DEF Rolled, With
  <2>4. y.day \in Day
    <3>1. x.realized \in Int
      BY <1>1, TxnFacts DEF x
    <3> QED BY <1>2, <1>4, <1>5, <3>1, RolledDay
  <2>5. /\ With(y.day, y).realized = y.day.realized + 0
        /\ With(y.day, y).trades = y.day.trades + 0
        /\ With(y.day, y).settlements = y.day.settlements + 0
    BY <1>2, WithFacts
  <2>6. /\ With(y.day, y).realized = With(old, x).realized
        /\ With(y.day, y).trades = With(old, x).trades
        /\ With(y.day, y).settlements = With(old, x).settlements
    BY <2>3, <2>4, <2>5 DEF Day
  <2> QED BY <1>2, <2>1, <2>6 DEF DayOf, DaySums
<1> QED BY <1>1, <1>2, <1>5, DaysAlone DEF y

LEMMA CommitDays ==
    ASSUME BalanceInv, NEW s \in Sessions, Commit(s)
    PROVE  DaysSum'
<1> DEFINE x == txn[s]
<1>1. LedgerInv /\ TypeOK /\ DaysSum /\ OneWriter /\ SettlesOnce /\ ViewsStand
  BY DEF BalanceInv, LedgerInv
<1>2. /\ x.pc = "ready" /\ x # Idle /\ txn'[s] = Idle
      /\ \A y \in Sessions \ {s} : txn'[y] = txn[y]
      /\ positions' = Through(x.rows, positions) /\ daily' = Over(x.day, daily)
      /\ booked' = booked \cup x.booked
      /\ settlements' = Through(x.settlements, settlements)
      /\ raced' = raced
  BY <1>1, CommitShape
<1>3. x.day # Absent /\ x.day \in Day \cup {Absent}
  <2>1. x.day = Absent => FirstOp(x, positions, settlements, raced = {})
    BY <1>1 DEF DaysSum
  <2> QED BY <1>1, <1>2, <2>1, TxnFacts DEF FirstOp
<1>4. ASSUME raced = {}
      PROVE  DaySums(Over(daily', NewDay), RealizedOf(positions'), booked',
                     SettledIn(settlements'))
  <2>1. DayOf(x.day, x, positions, booked, settlements)
    BY <1>1, <1>3, <1>4 DEF DaysSum
  <2>2. Over(daily', NewDay) = x.day
    BY <1>2, <1>3 DEF Over
  <2>3. /\ With(x.day, x).realized = x.day.realized + 0
        /\ With(x.day, x).trades = x.day.trades + 0
        /\ With(x.day, x).settlements = x.day.settlements + 0
    BY <1>2, WithFacts
  <2>4. /\ With(x.day, x).realized = x.day.realized
        /\ With(x.day, x).trades = x.day.trades
        /\ With(x.day, x).settlements = x.day.settlements
    BY <1>3, <2>3 DEF Day
  <2> QED BY <1>2, <2>1, <2>2, <2>4 DEF DayOf, DaySums
<1>5. ASSUME NEW y \in Sessions \ {s}
      PROVE  txn[y].day = Absent /\ FirstOp(txn[y], positions', settlements', raced = {})
  <2>1. txn[y].day = Absent
    BY <1>1, <1>3 DEF OneWriter
  <2>2. FirstOp(txn[y], positions, settlements, raced = {})
    BY <1>1, <2>1 DEF DaysSum
  <2>3. txn[y].pc # "ready" => txn[y].op.ticker \in Tickers
    <3>1. txn[y].pc \in {"ready", "position", "day"}
      BY <1>1, TxnFacts
    <3> QED BY <1>1, <3>1 DEF ViewsStand, Op
  <2>4. ASSUME txn[y].pc # "ready", txn[y].op.kind = "settlement"
        PROVE  settlements'[txn[y].op.ticker] = Absent
    <3> DEFINE t == txn[y].op.ticker
    <3>1. t \in Tickers /\ settlements[t] = Absent /\ txn[y].settlements[t] # Absent
      BY <2>2, <2>3, <2>4 DEF FirstOp
    <3>2. s \in Traders
      BY <1>1, <3>1 DEF SettlesOnce, Sessions
    <3>3. x.settlements[t] = Absent
      BY <1>1, <3>1, <3>2 DEF SettlesOnce
    <3> QED BY <1>2, <3>1, <3>3 DEF Through, Over
  <2>5. ASSUME txn[y].pc = "day"
        PROVE  positions'[txn[y].op.ticker] = positions[txn[y].op.ticker]
    <3> DEFINE t == txn[y].op.ticker
    <3>1. t \in Tickers /\ txn[y].rows[t] # Absent
      BY <2>2, <2>3, <2>5 DEF FirstOp
    <3>2. x.rows[t] = Absent
      BY <1>1, <3>1 DEF OneWriter
    <3> QED BY <1>2, <3>1, <3>2 DEF Through, Over
  <2> QED BY <2>1, <2>2, <2>4, <2>5 DEF FirstOp
<1>6. FirstOp(Idle, positions', settlements', raced = {}) /\ Idle.day = Absent
  BY IdleFirst, IdleFacts
<1> QED BY <1>2, <1>4, <1>5, <1>6 DEF DaysSum

LEMMA DaysStep ==
    ASSUME BalanceInv, [Next]_vars
    PROVE  DaysSum'
<1>1. CASE UNCHANGED <<positions, daily, booked, settlements, txn, raced>>
  BY <1>1 DEF BalanceInv, DaysSum
<1>2. ASSUME NEW s \in Sessions, RollBack(s) PROVE DaysSum'
  <2>1. Alone(s) /\ txn'[s] = Idle
    BY <1>2, RollBackShape DEF BalanceInv, LedgerInv
  <2> QED BY <2>1, IdleFirst, IdleFacts, DaysAlone DEF BalanceInv
<1>3. \/ UNCHANGED <<positions, daily, booked, settlements, txn, raced>>
      \/ \E t \in Tickers : ReadSettlement(t)
      \/ \E s \in Traders, f \in Fills : ReadFill(s, f)
      \/ \E s \in Sessions : FoldPosition(s) \/ FoldDay(s) \/ Commit(s) \/ RollBack(s)
  BY DEF Next, vars, Resolve, Conflict, Victim, Abort
<1> QED BY <1>1, <1>2, <1>3, ReadSettlementDays, ReadFillDays, FoldPositionDays, FoldDayDays,
           CommitDays

-------------------------------------------------------------------------------
(* The theorems                                                                *)

LEMMA BalanceInit == Init => BalanceInv
<1> SUFFICES ASSUME Init PROVE BalanceInv
  OBVIOUS
<1>1. \A s \in Sessions : txn[s] = Idle
  BY DEF Init
<1>2. /\ \A t \in Tickers : positions[t] = Absent /\ settlements[t] = Absent
      /\ daily = Absent /\ booked = {}
  BY DEF Init
<1>3. SettlesOnce
  BY <1>1, IdleFacts DEF SettlesOnce, SettlementWaits, Sessions
<1>4. RowsExact
  <2> SUFFICES ASSUME NEW t \in Tickers
               PROVE  /\ Balanced(t, Over(positions[t], Flat), On(t), ClosedAt(t))
                      /\ \A s \in Sessions : RowExact(txn[s], t, On(t), settlements[t])
    BY DEF RowsExact
  <2>1. Over(positions[t], Flat) = Flat /\ On(t) = {} /\ ClosedAt(t) = 0
    BY <1>2 DEF Over, On, ClosedAt
  <2>2. FoldedOn(Idle, t, {}) /\ SettledOn(Idle, t) = Absent /\ Idle.rows[t] = Absent
    BY IdleFacts DEF FoldedOn, FillWaits, SettledOn, SettlementWaits
  <2>3. RowExact(Idle, t, On(t), settlements[t])
    BY <2>2 DEF RowExact
  <2> QED BY <1>1, <2>1, <2>3, FlatBalanced
<1>5. DaysSum
  <2>1. DaySums(Over(daily, NewDay), RealizedOf(positions), booked, SettledIn(settlements))
    <3>1. \A t \in Tickers : RealizedOf(positions)[t] = 0
      BY <1>2 DEF RealizedOf, Over, Flat
    <3>2. IsFiniteSet(Tickers)
      BY LedgerAssumption
    <3>3. TotalOver(RealizedOf(positions), Tickers) = 0
      BY <3>1, <3>2, TotalOverZero
    <3>4. SettledIn(settlements) = {} /\ Cardinality({}) = 0
      BY <1>2, FS_EmptySet DEF SettledIn
    <3> QED BY <1>2, <3>3, <3>4 DEF DaySums, Over, NewDay
  <2> QED BY <1>1, <2>1, IdleFirst, IdleFacts DEF DaysSum
<1> QED BY <1>3, <1>4, <1>5, LedgerInvInit DEF BalanceInv

\* The ledger with its sums: what every open transaction has folded in, and what the
\* day still lacks, in every execution.
THEOREM BalanceInvariant == Spec => []BalanceInv
<1>1. BalanceInv /\ [Next]_vars => BalanceInv'
  <2> SUFFICES ASSUME BalanceInv, [Next]_vars PROVE BalanceInv'
    OBVIOUS
  <2>1. LedgerInv'
    BY LedgerInvNext DEF BalanceInv
  <2> QED BY <2>1, SettlesStep, RowsStep, DaysStep DEF BalanceInv
<1> QED BY <1>1, BalanceInit, PTL DEF Spec

\* A position is the sum of its fills, in contracts exactly and in money up to the
\* rounding of stored averages, whatever interleaves, collides or fails, unless a row
\* was written from an outdated copy (apply_fill, apply_settlement).
THEOREM PositionsAreTheirFills == Spec => []ExactUnlessRaced
<1>1. BalanceInv => ExactUnlessRaced
  BY DEF BalanceInv, RowsExact, Balanced, ExactUnlessRaced, Exact, NetIsFills, CashBalances
<1> QED BY <1>1, BalanceInvariant, PTL

\* The day's row is the sum of the positions and the counts of fills and settlements,
\* unless it or a position was written from an outdated copy (roll_daily).
THEOREM DayIsItsPositions == Spec => []DayIsSumUnlessRaced
<1>1. BalanceInv => DayIsSumUnlessRaced
  BY DEF BalanceInv, DaysSum, DaySums, RealizedOf, SettledIn, DayIsSumUnlessRaced
<1> QED BY <1>1, BalanceInvariant, PTL

===============================================================================
