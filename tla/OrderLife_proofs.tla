---------------------------- MODULE OrderLife_proofs ----------------------------
(***************************************************************************)
(* Theorems about OrderLife, for every order size and number of requests.  *)
(***************************************************************************)
EXTENDS OrderLife, FiniteSetTheorems, TLAPS

-------------------------------------------------------------------------------
(* The inductive invariant *)

\* The sweep's own count is the committed one plus the fills it found, each of
\* which is new and one the exchange made.
SweepCounts ==
    /\ sweep.new \subseteq 1 .. exch.filled
    /\ sweep.new \cap fills = {}
    /\ sweep.pc # "idle" =>
          /\ sweep.base.filled = row.filled
          /\ sweep.view.filled = row.filled + Cardinality(sweep.new)
    /\ sweep.pc \in {"idle", "lookup", "select"} /\ ~sweep.adopted => sweep.new = {}

\* What is linked exists, what is FILLED is executed - in the row and in the copy
\* of the sweep.
ExchangeAgrees ==
    /\ LinkedExists
    /\ sweep.view.linked => exch.state # "none"
    /\ FilledIsDone
    /\ sweep.view.status = "filled" => exch.state = "executed"
    /\ exch.state = "resting" => exch.filled < Size

\* An order known from the start stays linked, and is canceled nowhere before the
\* exchange has said it is gone.
KnownIsRetired ==
    known => /\ row.linked
             /\ sweep.pc # "idle" => sweep.view.linked
             /\ exch.state = "resting" =>
                   /\ row.status # "canceled"
                   /\ sweep.view.status # "canceled"
                   /\ \A c \in Cancellers : cancel[c] # "commit"

OrderInv ==
    TypeOK /\ FilledIsSumOfFills /\ SweepCounts /\ ExchangeAgrees /\ KnownIsRetired

LEMMA IdsFinite ==
    ASSUME OrderAssumption, NEW S \in SUBSET FillIds
    PROVE  IsFiniteSet(S) /\ Cardinality(S) \in 0 .. Size
<1>1. IsFiniteSet(FillIds) /\ Cardinality(FillIds) = Size
  BY FS_Interval DEF OrderAssumption, FillIds
<1>2. IsFiniteSet(S) /\ Cardinality(S) <= Cardinality(FillIds)
  BY <1>1, FS_Subset
<1> QED
  BY <1>1, <1>2, FS_CardinalityType DEF OrderAssumption

LEMMA DisjointCount ==
    ASSUME OrderAssumption, NEW S \in SUBSET FillIds, NEW T \in SUBSET FillIds,
           S \cap T = {}
    PROVE  Cardinality(S \cup T) = Cardinality(S) + Cardinality(T)
<1>1. IsFiniteSet(S) /\ IsFiniteSet(T)
  BY IdsFinite
<1>2. Cardinality(S \cap T) = 0
  BY FS_EmptySet
<1>3. Cardinality(S \cup T) = Cardinality(S) + Cardinality(T) - Cardinality(S \cap T)
  BY <1>1, FS_Union
<1> QED
  BY <1>1, <1>2, <1>3, IdsFinite

LEMMA OrderInvInit ==
    ASSUME OrderAssumption, Init
    PROVE  OrderInv
<1>1. Cardinality({}) = 0 /\ Size \in Nat \ {0}
  BY FS_EmptySet DEF OrderAssumption
<1>2. /\ NoSweep \in Sweep /\ NoSweep.pc = "idle" /\ NoSweep.new = {}
      /\ NoSweep.view.linked = FALSE /\ NoSweep.view.status = "pending"
  BY <1>1 DEF NoSweep, Loaded, Sweep, SweepPc, Row, OrderStatus, Live, Contracts, FillIds
<1>3. PICK tif \in {"gtc", "ioc"}, n \in 0 .. Size :
        PlacedAnswered(tif, n) \/ PlacedUnanswered(tif, n)
  BY DEF Init
<1>4. /\ Book(tif, n) \in [state : ExchState, filled : 0 .. Size]
      /\ Book(tif, n).filled = n /\ Book(tif, n).state # "none"
      /\ Book(tif, n).state = "executed" <=> n = Size
      /\ Book(tif, n).state = "resting" => tif = "gtc" /\ n < Size
  BY <1>1 DEF Book, ExchState
<1>5. /\ fills = {} /\ sweep = NoSweep /\ known = row.linked
      /\ kill = FALSE /\ aged = FALSE /\ old = FALSE
      /\ attempts \in 0 .. MaxAttempts /\ faults \in 0 .. MaxFaults
      /\ cancel \in [Cancellers -> CancelPc]
      /\ \A c \in Cancellers : cancel[c] = "idle"
  BY DEF Init, CancelPc, OrderAssumption
<1>6. CASE PlacedAnswered(tif, n)
  <2>1. /\ Settled(tif, n) \in OrderStatus
        /\ Settled(tif, n) = "filled" <=> n = Size
        /\ tif = "gtc" => Settled(tif, n) # "canceled"
    BY DEF Settled, OrderStatus, Live
  <2>2. /\ row \in Row /\ row.linked = TRUE /\ row.status = Settled(tif, n)
        /\ row.filled = n /\ imm = n /\ exch = Book(tif, n)
    BY <1>1, <1>6, <2>1 DEF PlacedAnswered, Row, Contracts
  <2>3. TypeOK
    BY <1>2, <1>4, <1>5, <2>2 DEF TypeOK
  <2>4. FilledIsSumOfFills /\ SweepCounts
    BY <1>1, <1>2, <1>5, <2>2 DEF FilledIsSumOfFills, SweepCounts
  <2>5. ExchangeAgrees /\ KnownIsRetired
    BY <1>2, <1>4, <1>5, <2>1, <2>2
       DEF ExchangeAgrees, LinkedExists, FilledIsDone, KnownIsRetired
  <2> QED
    BY <2>3, <2>4, <2>5 DEF OrderInv
<1>7. CASE PlacedUnanswered(tif, n)
  <2>1. PICK st \in {"pending", "rejected"}, id \in BOOLEAN :
          /\ row = [status |-> st, linked |-> id, filled |-> 0]
          /\ id => st = "pending"
          /\ \/ exch = Book(tif, n)
             \/ ~id /\ exch = [state |-> "none", filled |-> 0]
    BY <1>7 DEF PlacedUnanswered
  <2>2. /\ row \in Row /\ row.linked = id /\ row.status = st /\ row.filled = 0
        /\ imm = 0 /\ imm \in 0 .. Size
    BY <1>1, <1>7, <2>1 DEF PlacedUnanswered, Row, Contracts, OrderStatus, Live
  <2>3. /\ exch \in [state : ExchState, filled : 0 .. Size]
        /\ id => exch.state # "none"
        /\ exch.state = "resting" => exch.filled < Size
    BY <1>1, <1>4, <2>1 DEF ExchState
  <2>4. TypeOK
    BY <1>2, <1>5, <2>2, <2>3 DEF TypeOK
  <2>5. FilledIsSumOfFills /\ SweepCounts
    BY <1>1, <1>2, <1>5, <2>2 DEF FilledIsSumOfFills, SweepCounts
  <2>6. ExchangeAgrees /\ KnownIsRetired
    BY <1>2, <1>5, <2>1, <2>2, <2>3
       DEF ExchangeAgrees, LinkedExists, FilledIsDone, KnownIsRetired
  <2> QED
    BY <2>4, <2>5, <2>6 DEF OrderInv
<1> QED
  BY <1>3, <1>6, <1>7

-------------------------------------------------------------------------------
(* The exchange and the API requests keep the invariant *)

\* However the exchange moves on: fills only grow, an order does not vanish, one
\* that is executed stays so, one that is off the book stays off.
Moved ==
    /\ exch' \in [state : ExchState, filled : 0 .. Size]
    /\ exch.filled <= exch'.filled
    /\ exch.state # "none" => exch'.state # "none"
    /\ exch.state = "executed" => exch'.state = "executed"
    /\ exch'.state = "resting" => exch.state = "resting" /\ exch'.filled < Size

LEMMA ExchangeMoves ==
    ASSUME OrderAssumption, OrderInv,
           Fill \/ Close \/ UNCHANGED exch \/ \E answer \in {"ok", "404", "error"} : Deletes(answer)
    PROVE  Moved
<1> USE DEF OrderInv, ExchangeAgrees
<1>1. exch \in [state : ExchState, filled : 0 .. Size] /\ Size \in Nat
  BY DEF TypeOK, OrderAssumption
<1>2. CASE UNCHANGED exch
  BY <1>1, <1>2 DEF Moved
<1>3. CASE Fill
  <2>1. /\ exch.state = "resting" /\ exch.filled < Size /\ exch.filled \in 0 .. Size
        /\ exch' = [filled |-> exch.filled + 1,
                    state |-> IF exch.filled + 1 = Size THEN "executed" ELSE "resting"]
    BY <1>1, <1>3 DEF Fill
  <2> QED
    BY <1>1, <2>1 DEF Moved, ExchState
<1>4. CASE exch.state = "resting" /\ exch' = [exch EXCEPT !.state = "canceled"]
  BY <1>1, <1>4 DEF Moved, ExchState
<1> QED
  BY <1>2, <1>3, <1>4 DEF Close, Deletes

\* Steps of the exchange and of the clock, and those of an API request that leave
\* the row alone: a request that goes on to commit has met its conditions.
LEMMA OutsideStep ==
    ASSUME OrderAssumption, OrderInv, Moved, UNCHANGED <<record, known, sweep>>,
           kill' \in BOOLEAN, aged' \in BOOLEAN, old' \in BOOLEAN,
           attempts' \in 0 .. MaxAttempts, faults' \in 0 .. MaxFaults,
           cancel' \in [Cancellers -> CancelPc],
           \A c \in Cancellers :
              known /\ cancel'[c] = "commit" => cancel[c] = "commit" \/ exch'.state # "resting"
    PROVE  OrderInv'
<1> USE DEF OrderInv, record
<1>1. TypeOK'
  BY DEF TypeOK, Moved
<1>2. 1 .. exch.filled \subseteq 1 .. exch'.filled
  BY DEF Moved, TypeOK
<1>3. FilledIsSumOfFills' /\ SweepCounts'
  BY <1>2 DEF FilledIsSumOfFills, SweepCounts
<1>4. ExchangeAgrees'
  BY DEF ExchangeAgrees, LinkedExists, FilledIsDone, Moved
<1>5. KnownIsRetired'
  BY DEF KnownIsRetired, Moved
<1> QED
  BY <1>1, <1>3, <1>4, <1>5

LEMMA EnvironmentKeeps ==
    ASSUME OrderAssumption, OrderInv, Fill \/ Close \/ Age \/ ToggleKill
    PROVE  OrderInv'
<1>1. Moved
  BY ExchangeMoves DEF Age, ToggleKill
<1>2. UNCHANGED <<record, known, sweep, cancel, attempts, faults>>
  BY DEF Fill, Close, Age, ToggleKill, clock, worker
<1>3. kill' \in BOOLEAN /\ aged' \in BOOLEAN /\ old' \in BOOLEAN
  BY DEF Fill, Close, Age, ToggleKill, clock, OrderInv, TypeOK
<1> QED
  BY <1>1, <1>2, <1>3, OutsideStep DEF OrderInv, TypeOK

LEMMA CancelReadKeeps ==
    ASSUME OrderAssumption, OrderInv, NEW c \in Cancellers, CancelRead(c)
    PROVE  OrderInv'
<1>1. Moved
  BY ExchangeMoves DEF CancelRead
<1>2. known => row.linked
  BY DEF OrderInv, KnownIsRetired
<1>3. /\ cancel' \in [Cancellers -> CancelPc]
      /\ \A d \in Cancellers : known /\ cancel'[d] = "commit" => cancel[d] = "commit"
  BY <1>2 DEF CancelRead, OrderInv, TypeOK, CancelPc
<1> QED
  BY <1>1, <1>3, OutsideStep DEF CancelRead, OrderInv, TypeOK, clock, worker

LEMMA CancelDeleteKeeps ==
    ASSUME OrderAssumption, OrderInv, NEW c \in Cancellers, CancelDelete(c)
    PROVE  OrderInv'
<1>1. PICK answer \in {"ok", "404", "error"} :
        /\ Deletes(answer)
        /\ cancel' = [cancel EXCEPT ![c] = IF Gone(answer) THEN "commit" ELSE "idle"]
  BY DEF CancelDelete
<1>2. Moved
  BY <1>1, ExchangeMoves
<1>3. Gone(answer) => exch'.state # "resting"
  BY <1>1 DEF Deletes, Gone, OrderInv, TypeOK
<1>4. /\ cancel' \in [Cancellers -> CancelPc]
      /\ \A d \in Cancellers :
            cancel'[d] = "commit" => cancel[d] = "commit" \/ exch'.state # "resting"
  BY <1>1, <1>3 DEF OrderInv, TypeOK, CancelPc
<1> QED
  BY <1>2, <1>4, OutsideStep DEF CancelDelete, OrderInv, TypeOK, clock, worker

LEMMA CancelAbortKeeps ==
    ASSUME OrderAssumption, OrderInv, NEW c \in Cancellers, CancelAbort(c)
    PROVE  OrderInv'
<1>1. Moved
  BY ExchangeMoves DEF CancelAbort
<1>2. /\ cancel' \in [Cancellers -> CancelPc]
      /\ \A d \in Cancellers : cancel'[d] = "commit" => cancel[d] = "commit"
  BY DEF CancelAbort, OrderInv, TypeOK, CancelPc
<1> QED
  BY <1>1, <1>2, OutsideStep DEF CancelAbort, OrderInv, TypeOK, clock, worker

LEMMA CancelCommitKeeps ==
    ASSUME OrderAssumption, OrderInv, NEW c \in Cancellers, CancelCommit(c)
    PROVE  OrderInv'
<1> USE DEF OrderInv
<1>1. /\ row' \in Row /\ row'.status = "canceled"
      /\ row'.linked = row.linked /\ row'.filled = row.filled
  BY DEF CancelCommit, TypeOK, Row, OrderStatus
<1>2. UNCHANGED <<imm, fills, exch, kill, aged, old, known, sweep, attempts, faults>>
  BY DEF CancelCommit, clock, worker
<1>3. cancel' \in [Cancellers -> CancelPc]
      /\ \A d \in Cancellers : cancel'[d] = "commit" => cancel[d] = "commit"
  BY DEF CancelCommit, TypeOK, CancelPc
<1>4. TypeOK'
  BY <1>1, <1>2, <1>3 DEF TypeOK
<1>5. FilledIsSumOfFills' /\ SweepCounts'
  BY <1>1, <1>2 DEF FilledIsSumOfFills, SweepCounts
<1>6. ExchangeAgrees'
  BY <1>1, <1>2 DEF ExchangeAgrees, LinkedExists, FilledIsDone
<1>7. KnownIsRetired'
  BY <1>1, <1>2, <1>3 DEF CancelCommit, KnownIsRetired
<1> QED
  BY <1>4, <1>5, <1>6, <1>7

-------------------------------------------------------------------------------
(* The sweep keeps the invariant *)

\* What the sweep's copy of the row must agree with.
ViewAgrees ==
    /\ sweep.view.linked => exch.state # "none"
    /\ sweep.view.status = "filled" => exch.state = "executed"
    /\ known => /\ sweep.pc # "idle" => sweep.view.linked
                /\ exch.state = "resting" => sweep.view.status # "canceled"

LEMMA SweepStep ==
    ASSUME OrderAssumption, OrderInv, Moved, UNCHANGED <<record, clock, cancel>>,
           attempts' \in 0 .. MaxAttempts, faults' \in 0 .. MaxFaults,
           sweep' \in Sweep, SweepCounts', ViewAgrees'
    PROVE  OrderInv'
<1> USE DEF OrderInv, record, clock
<1>1. TypeOK'
  BY DEF TypeOK, Moved
<1>2. 1 .. exch.filled \subseteq 1 .. exch'.filled
  BY DEF Moved, TypeOK
<1>3. FilledIsSumOfFills'
  BY <1>2 DEF FilledIsSumOfFills
<1>4. ExchangeAgrees'
  BY DEF ExchangeAgrees, LinkedExists, FilledIsDone, Moved, ViewAgrees
<1>5. KnownIsRetired'
  BY DEF KnownIsRetired, Moved, ViewAgrees
<1> QED
  BY <1>1, <1>3, <1>4, <1>5

LEMMA NoSweepKeeps ==
    ASSUME OrderAssumption, OrderInv, UNCHANGED <<record, exch, clock, cancel>>,
           attempts' \in 0 .. MaxAttempts, faults' \in 0 .. MaxFaults,
           sweep' = NoSweep
    PROVE  OrderInv'
<1>1. /\ NoSweep \in Sweep /\ NoSweep.pc = "idle" /\ NoSweep.new = {}
      /\ NoSweep.view.linked = FALSE /\ NoSweep.view.status = "pending"
  BY DEF NoSweep, Loaded, Sweep, SweepPc, Row, OrderStatus, Live, Contracts, FillIds,
         OrderAssumption
<1>2. Moved
  BY ExchangeMoves
<1>3. SweepCounts' /\ ViewAgrees'
  BY <1>1 DEF SweepCounts, ViewAgrees
<1> QED
  BY <1>1, <1>2, <1>3, SweepStep

LEMMA SweepBeginKeeps ==
    ASSUME OrderAssumption, OrderInv, SweepBegin
    PROVE  OrderInv'
<1> USE DEF OrderInv
<1>1. Moved
  BY ExchangeMoves DEF SweepBegin
<1>2. /\ row \in Row /\ Retire \in BOOLEAN /\ Cardinality({}) = 0
      /\ attempts' \in 0 .. MaxAttempts
  BY FS_EmptySet DEF TypeOK, Retire, SweepBegin, Orphan, OrderAssumption
<1>3. sweep' = [pc |-> IF Orphan THEN "lookup" ELSE "select", due |-> Retire,
                adopted |-> FALSE, base |-> row, view |-> row, new |-> {}]
  BY DEF SweepBegin, Loaded
<1>4. sweep' \in Sweep
  BY <1>2, <1>3 DEF Sweep, SweepPc
<1>5. UNCHANGED <<record, exch, clock, faults, cancel>>
  BY DEF SweepBegin
<1>6. SweepCounts'
  BY <1>2, <1>3, <1>5 DEF SweepCounts, TypeOK, record, Row, Contracts
<1>7. ViewAgrees'
  BY <1>3, <1>5
     DEF ViewAgrees, ExchangeAgrees, LinkedExists, FilledIsDone, KnownIsRetired, clock
<1> QED
  BY <1>1, <1>2, <1>4, <1>5, <1>6, <1>7, SweepStep DEF TypeOK

\* Steps that change neither the sweep's fills nor its counts.
LEMMA CountsKept ==
    ASSUME OrderAssumption, OrderInv, sweep.pc # "idle", sweep' \in Sweep,
           UNCHANGED <<record, exch>>,
           sweep'.new = sweep.new, sweep'.base.filled = sweep.base.filled,
           sweep'.view.filled = sweep.view.filled, sweep'.pc # "idle",
           sweep'.pc \in {"lookup", "select"} /\ ~sweep'.adopted => sweep.new = {}
    PROVE  SweepCounts'
BY DEF OrderInv, SweepCounts, record

LEMMA SweepLookupKeeps ==
    ASSUME OrderAssumption, OrderInv, SweepLookup
    PROVE  OrderInv'
<1> USE DEF OrderInv
<1>1. Moved
  BY ExchangeMoves DEF SweepLookup
<1>2. sweep.pc = "lookup" /\ sweep \in Sweep
  BY DEF SweepLookup, TypeOK
<1>3. UNCHANGED <<record, exch, clock, attempts, faults, cancel>>
  BY DEF SweepLookup
<1>4. CASE /\ Listed
           /\ sweep' = [sweep EXCEPT !.pc = "fills", !.adopted = TRUE,
                                     !.view.linked = TRUE, !.view.status = "resting"]
  <2>1. /\ sweep' \in Sweep /\ sweep'.pc = "fills" /\ sweep'.new = sweep.new
        /\ sweep'.base = sweep.base /\ sweep'.view.filled = sweep.view.filled
        /\ sweep'.view.linked = TRUE /\ sweep'.view.status = "resting"
    BY <1>2, <1>4 DEF Sweep, SweepPc, Row, OrderStatus, Live
  <2>2. SweepCounts'
    BY <1>2, <1>3, <2>1, CountsKept
  <2>3. ViewAgrees'
    BY <1>3, <1>4, <2>1 DEF ViewAgrees, Listed
  <2> QED
    BY <1>1, <1>3, <2>1, <2>2, <2>3, SweepStep DEF TypeOK
<1>5. CASE sweep' = [sweep EXCEPT !.pc = "select"]
  <2>1. /\ sweep' \in Sweep /\ sweep'.pc = "select" /\ sweep'.new = sweep.new
        /\ sweep'.base = sweep.base /\ sweep'.view = sweep.view
        /\ sweep'.adopted = sweep.adopted
    BY <1>2, <1>5 DEF Sweep, SweepPc
  <2>2. SweepCounts'
    BY <1>2, <1>3, <2>1, CountsKept DEF SweepCounts
  <2>3. ViewAgrees'
    BY <1>2, <1>3, <2>1 DEF ViewAgrees, ExchangeAgrees, KnownIsRetired, clock
  <2> QED
    BY <1>1, <1>3, <2>1, <2>2, <2>3, SweepStep DEF TypeOK
<1> QED
  BY <1>4, <1>5 DEF SweepLookup

LEMMA SweepSelectKeeps ==
    ASSUME OrderAssumption, OrderInv, SweepSelect
    PROVE  OrderInv'
<1> USE DEF OrderInv
<1> DEFINE r == IF sweep.adopted THEN sweep.view ELSE row
           b == IF sweep.adopted THEN sweep.base ELSE row
           next == IF r.status \notin Live THEN "commit"
                   ELSE IF r.linked THEN "fills" ELSE "retire"
<1>1. Moved
  BY ExchangeMoves DEF SweepSelect
<1>2. sweep.pc = "select" /\ sweep \in Sweep /\ row \in Row
  BY DEF SweepSelect, TypeOK
<1>3. UNCHANGED <<record, exch, clock, attempts, faults, cancel>>
  BY DEF SweepSelect
<1>4. sweep' = [sweep EXCEPT !.pc = next, !.adopted = FALSE, !.base = b, !.view = r]
  BY DEF SweepSelect
<1>5. r \in Row /\ b \in Row /\ next \in {"commit", "fills", "retire"}
  BY <1>2 DEF Sweep
<1>6. /\ sweep' \in Sweep /\ sweep'.pc \in {"commit", "fills", "retire"}
      /\ sweep'.new = sweep.new /\ sweep'.base = b /\ sweep'.view = r
  <2> HIDE DEF r, b, next
  <2> QED
    BY <1>2, <1>4, <1>5 DEF Sweep, SweepPc
<1>7. b.filled = row.filled /\ r.filled = row.filled + Cardinality(sweep.new)
  <2>1. CASE sweep.adopted
    BY <1>2, <2>1 DEF SweepCounts
  <2>2. CASE ~sweep.adopted
    <3>1. sweep.new = {} /\ Cardinality(sweep.new) = 0
      BY <1>2, <2>2, FS_EmptySet DEF SweepCounts
    <3> QED
      BY <1>2, <2>2, <3>1 DEF Row, Contracts
  <2> QED
    BY <2>1, <2>2
<1>8. SweepCounts'
  BY <1>3, <1>6, <1>7 DEF SweepCounts, record
<1>9. ViewAgrees'
  BY <1>2, <1>3, <1>6
     DEF ViewAgrees, ExchangeAgrees, LinkedExists, FilledIsDone, KnownIsRetired, clock
<1> QED
  BY <1>1, <1>3, <1>6, <1>8, <1>9, SweepStep DEF TypeOK

LEMMA SweepFillsKeeps ==
    ASSUME OrderAssumption, OrderInv, SweepFills
    PROVE  OrderInv'
<1> USE DEF OrderInv
<1>1. Moved
  BY ExchangeMoves DEF SweepFills
<1>2. /\ sweep.pc = "fills" /\ sweep \in Sweep /\ row \in Row /\ imm \in 0 .. Size
      /\ exch.filled \in 0 .. Size /\ fills \in SUBSET FillIds
      /\ sweep.new \in SUBSET FillIds /\ Size \in Nat
  BY DEF SweepFills, TypeOK, Sweep, OrderAssumption
<1>3. UNCHANGED <<record, exch, clock, attempts, faults, cancel>>
  BY DEF SweepFills
<1>4. PICK k \in 0 .. exch.filled, failed \in BOOLEAN :
        sweep' = [sweep EXCEPT
                    !.pc = IF failed THEN AfterReconcile ELSE "status",
                    !.view.filled = @ + Cardinality(NewFills(k)),
                    !.new = @ \cup NewFills(k)]
  BY DEF SweepFills
<1> DEFINE more == NewFills(k)
<1>5. /\ more \in SUBSET FillIds /\ more \subseteq 1 .. exch.filled
      /\ more \cap (fills \cup sweep.new) = {}
  BY <1>2 DEF NewFills, FillIds
<1>6. Cardinality(sweep.new \cup more) = Cardinality(sweep.new) + Cardinality(more)
  <2>1. sweep.new \cap more = {}
    BY <1>5
  <2> HIDE DEF more
  <2> QED
    BY <1>2, <1>5, <2>1, DisjointCount
<1>7. Cardinality(fills \cup (sweep.new \cup more)) =
        Cardinality(fills) + Cardinality(sweep.new \cup more)
  <2>1. fills \cap (sweep.new \cup more) = {} /\ (sweep.new \cup more) \in SUBSET FillIds
    BY <1>2, <1>5 DEF SweepCounts
  <2> HIDE DEF more
  <2> QED
    BY <1>2, <2>1, DisjointCount
<1>8. /\ Cardinality(fills \cup (sweep.new \cup more)) \in 0 .. Size
      /\ Cardinality(fills) \in 0 .. Size
      /\ Cardinality(sweep.new) \in 0 .. Size
      /\ Cardinality(more) \in 0 .. Size
  <2>1. (fills \cup (sweep.new \cup more)) \in SUBSET FillIds
    BY <1>2, <1>5
  <2> HIDE DEF more
  <2> QED
    BY <1>2, <1>5, <2>1, IdsFinite
<1>9. sweep.view.filled = imm + Cardinality(fills) + Cardinality(sweep.new)
  BY <1>2 DEF SweepCounts, FilledIsSumOfFills
<1>10. sweep.view.filled + Cardinality(more) \in Contracts
  <2> HIDE DEF more
  <2> QED
    BY <1>2, <1>6, <1>7, <1>8, <1>9 DEF Contracts
<1>11. AfterReconcile \in {"select", "retire"} /\ (AfterReconcile = "select" => sweep.adopted)
  BY DEF AfterReconcile
<1>12. /\ sweep' \in Sweep /\ sweep'.pc \in {"select", "retire", "status"}
       /\ sweep'.pc = "select" => sweep'.adopted
       /\ sweep'.base = sweep.base /\ sweep'.new = sweep.new \cup more
       /\ sweep'.view.filled = sweep.view.filled + Cardinality(more)
       /\ sweep'.view.status = sweep.view.status /\ sweep'.view.linked = sweep.view.linked
  <2>1. sweep' = [sweep EXCEPT
                    !.pc = IF failed THEN AfterReconcile ELSE "status",
                    !.view.filled = @ + Cardinality(more),
                    !.new = @ \cup more]
    BY <1>4
  <2>2. sweep.new \cup more \in SUBSET FillIds
    BY <1>2, <1>5
  <2> HIDE DEF more
  <2> QED
    BY <1>2, <1>10, <1>11, <2>1, <2>2 DEF Sweep, SweepPc, Row
<1>13. SweepCounts'
  <2>1. /\ sweep'.new \subseteq 1 .. exch.filled /\ sweep'.new \cap fills = {}
        /\ sweep'.base.filled = row.filled
    BY <1>2, <1>5, <1>12 DEF SweepCounts
  <2>2. sweep'.view.filled = row.filled + Cardinality(sweep'.new)
    <3> HIDE DEF more
    <3> QED
      BY <1>2, <1>6, <1>8, <1>12 DEF SweepCounts, Row, Contracts
  <2> QED
    BY <1>3, <1>12, <2>1, <2>2 DEF SweepCounts, record
<1>14. ViewAgrees'
  BY <1>2, <1>3, <1>12 DEF ViewAgrees, ExchangeAgrees, KnownIsRetired, clock
<1> QED
  BY <1>1, <1>3, <1>12, <1>13, <1>14, SweepStep DEF TypeOK

\* Steps that change the status of the sweep's copy and where it goes on: what is
\* FILLED there is executed, what is CANCELED there does not rest.
LEMMA StatusStep ==
    ASSUME OrderAssumption, OrderInv, Moved, UNCHANGED <<record, clock, attempts, faults, cancel>>,
           sweep.pc # "idle", NEW next \in SweepPc \ {"idle", "lookup"},
           next = "select" => sweep.adopted,
           NEW st \in OrderStatus,
           st = "filled" => exch'.state = "executed",
           known /\ st = "canceled" => exch'.state # "resting",
           sweep' = [sweep EXCEPT !.pc = next, !.view.status = st]
    PROVE  OrderInv'
<1> USE DEF OrderInv
<1>1. sweep \in Sweep
  BY DEF TypeOK
<1>2. /\ sweep' \in Sweep /\ sweep'.pc = next /\ sweep'.new = sweep.new
      /\ sweep'.base = sweep.base /\ sweep'.view.filled = sweep.view.filled
      /\ sweep'.view.linked = sweep.view.linked /\ sweep'.view.status = st
      /\ sweep'.adopted = sweep.adopted
  BY <1>1 DEF Sweep, SweepPc, Row
<1>3. 1 .. exch.filled \subseteq 1 .. exch'.filled
  BY DEF Moved, TypeOK
<1>4. SweepCounts'
  BY <1>2, <1>3 DEF SweepCounts, record
<1>5. ViewAgrees'
  BY <1>2 DEF ViewAgrees, ExchangeAgrees, KnownIsRetired, Moved, clock
<1> QED
  BY <1>2, <1>4, <1>5, SweepStep DEF TypeOK

LEMMA SweepStatusKeeps ==
    ASSUME OrderAssumption, OrderInv, SweepStatus
    PROVE  OrderInv'
<1> USE DEF OrderInv
<1>1. Moved
  BY ExchangeMoves DEF SweepStatus
<1>2. PICK st \in {RemoteStatus(sweep.view), sweep.view.status} :
        sweep' = [sweep EXCEPT !.pc = AfterReconcile, !.view.status = st]
  BY DEF SweepStatus
<1>3. sweep.view \in Row /\ sweep.view.status \in OrderStatus
  BY DEF TypeOK, Sweep, Row
<1>4. /\ st \in OrderStatus
      /\ st = "filled" => exch.state = "executed"
      /\ known /\ st = "canceled" => exch.state # "resting"
  BY <1>2, <1>3 DEF RemoteStatus, OrderStatus, Live, ExchangeAgrees, KnownIsRetired
<1>5. /\ AfterReconcile \in SweepPc \ {"idle", "lookup"}
      /\ AfterReconcile = "select" => sweep.adopted
  BY DEF AfterReconcile, SweepPc
<1> QED
  BY <1>1, <1>2, <1>4, <1>5, StatusStep DEF SweepStatus

LEMMA SweepKeepKeeps ==
    ASSUME OrderAssumption, OrderInv, SweepKeep
    PROVE  OrderInv'
<1> USE DEF OrderInv
<1>1. Moved
  BY ExchangeMoves DEF SweepKeep
<1>2. sweep \in Sweep /\ sweep.view \in Row /\ sweep.view.status \in OrderStatus
  BY DEF TypeOK, Sweep, Row
<1>3. sweep' = [sweep EXCEPT !.pc = "commit", !.view.status = sweep.view.status]
  BY <1>2 DEF SweepKeep, Sweep, Row
<1>4. /\ sweep.view.status = "filled" => exch.state = "executed"
      /\ known /\ sweep.view.status = "canceled" => exch.state # "resting"
  BY DEF ExchangeAgrees, KnownIsRetired
<1> QED
  BY <1>1, <1>2, <1>3, <1>4, StatusStep DEF SweepKeep, SweepPc

LEMMA SweepRetireKeeps ==
    ASSUME OrderAssumption, OrderInv, NEW answer \in {"ok", "404", "error"},
           SweepRetire(answer)
    PROVE  OrderInv'
<1> USE DEF OrderInv
<1> DEFINE st == IF Gone(answer) THEN "canceled" ELSE sweep.view.status
<1>1. Moved
  BY ExchangeMoves DEF SweepRetire
<1>2. /\ sweep.pc = "retire" /\ sweep.view.status \in Live
      /\ sweep.view.linked => Deletes(answer)
      /\ sweep' = [sweep EXCEPT !.pc = "commit", !.view.status = st]
  BY DEF SweepRetire
<1>3. st \in OrderStatus /\ st # "filled"
  BY <1>2 DEF OrderStatus, Live
<1>4. known /\ st = "canceled" => exch'.state # "resting"
  BY <1>2 DEF KnownIsRetired, Deletes, Gone, Live, TypeOK
<1> HIDE DEF st
<1> QED
  BY <1>1, <1>2, <1>3, <1>4, StatusStep DEF SweepRetire, SweepPc

LEMMA SweepCommitKeeps ==
    ASSUME OrderAssumption, OrderInv, SweepCommit
    PROVE  OrderInv'
<1> USE DEF OrderInv
<1>1. /\ sweep.pc = "commit" /\ sweep \in Sweep /\ row \in Row
      /\ sweep.view \in Row /\ sweep.base \in Row
  BY DEF SweepCommit, TypeOK, Sweep
<1>2. UNCHANGED <<imm, exch, clock, attempts, faults, cancel>>
  BY DEF SweepCommit
<1>3. /\ row' = Changed(row) /\ DOMAIN row = {"status", "linked", "filled"}
      /\ row' = [f \in {"status", "linked", "filled"} |->
                    IF sweep.view[f] # sweep.base[f] THEN sweep.view[f] ELSE row[f]]
  BY <1>1 DEF SweepCommit, Changed, Row
<1>4. /\ row'.status \in {sweep.view.status, row.status}
      /\ row'.linked \in {sweep.view.linked, row.linked}
      /\ row'.filled = IF sweep.view.filled # sweep.base.filled
                       THEN sweep.view.filled ELSE row.filled
  BY <1>1, <1>3
<1>5. row' \in Row
  BY <1>1, <1>3 DEF Row
<1>6. row'.filled = row.filled + Cardinality(sweep.new)
  BY <1>1, <1>4 DEF SweepCounts, Row, Contracts
<1>7. fills' = fills \cup sweep.new /\ fills' \in SUBSET FillIds
  BY <1>1 DEF SweepCommit, TypeOK, Sweep
<1>8. /\ Cardinality(fills') = Cardinality(fills) + Cardinality(sweep.new)
      /\ Cardinality(fills) \in 0 .. Size /\ Cardinality(sweep.new) \in 0 .. Size
  BY <1>1, <1>7, DisjointCount, IdsFinite DEF SweepCounts, TypeOK, Sweep
<1>9. FilledIsSumOfFills'
  <2>1. fills' \subseteq 1 .. exch'.filled
    BY <1>2, <1>7 DEF FilledIsSumOfFills, SweepCounts
  <2>2. row.filled = imm + Cardinality(fills) /\ imm \in Nat /\ imm' = imm
    BY <1>2 DEF FilledIsSumOfFills, TypeOK, OrderAssumption
  <2>3. row'.filled = imm' + Cardinality(fills')
    BY <1>6, <1>8, <2>2
  <2> QED
    BY <2>1, <2>3 DEF FilledIsSumOfFills
<1>10. /\ NoSweep \in Sweep /\ NoSweep.pc = "idle" /\ NoSweep.new = {}
       /\ NoSweep.view.linked = FALSE /\ NoSweep.view.status = "pending"
  BY DEF NoSweep, Loaded, Sweep, SweepPc, Row, OrderStatus, Live, Contracts, FillIds,
         OrderAssumption
<1>11. sweep' = NoSweep
  BY DEF SweepCommit
<1>12. TypeOK'
  BY <1>2, <1>5, <1>7, <1>10, <1>11 DEF TypeOK, clock
<1>13. SweepCounts'
  BY <1>10, <1>11 DEF SweepCounts
<1>14. ExchangeAgrees'
  BY <1>2, <1>4, <1>10, <1>11 DEF ExchangeAgrees, LinkedExists, FilledIsDone
<1>15. KnownIsRetired'
  <2>1. known => row.linked /\ sweep.view.linked /\ row'.linked
    BY <1>1, <1>4 DEF KnownIsRetired
  <2> QED
    BY <1>2, <1>4, <1>10, <1>11, <2>1 DEF KnownIsRetired, clock
<1> QED
  BY <1>9, <1>12, <1>13, <1>14, <1>15

LEMMA SweepLostKeeps ==
    ASSUME OrderAssumption, OrderInv, SweepAbort \/ WorkerRestart
    PROVE  OrderInv'
<1>1. /\ attempts' \in 0 .. MaxAttempts /\ faults' \in 0 .. MaxFaults
      /\ sweep' = NoSweep
  BY DEF SweepAbort, WorkerRestart, OrderInv, TypeOK, OrderAssumption
<1>2. UNCHANGED <<record, exch, clock, cancel>>
  BY DEF SweepAbort, WorkerRestart
<1> QED
  BY <1>1, <1>2, NoSweepKeeps

-------------------------------------------------------------------------------
(* The theorems *)

LEMMA OrderInvNext ==
    ASSUME OrderAssumption, OrderInv, [Next]_vars
    PROVE  OrderInv'
<1>1. CASE Fill \/ Close \/ Age \/ ToggleKill
  BY <1>1, EnvironmentKeeps
<1>2. CASE \E c \in Cancellers :
             CancelRead(c) \/ CancelDelete(c) \/ CancelCommit(c) \/ CancelAbort(c)
  BY <1>2, CancelReadKeeps, CancelDeleteKeeps, CancelCommitKeeps, CancelAbortKeeps
<1>3. CASE SweepBegin \/ SweepLookup \/ SweepSelect
  BY <1>3, SweepBeginKeeps, SweepLookupKeeps, SweepSelectKeeps
<1>4. CASE SweepFills \/ SweepStatus
  BY <1>4, SweepFillsKeeps, SweepStatusKeeps
<1>5. CASE SweepKeep \/ \E answer \in {"ok", "404", "error"} : SweepRetire(answer)
  BY <1>5, SweepKeepKeeps, SweepRetireKeeps
<1>6. CASE SweepCommit \/ SweepAbort \/ WorkerRestart
  BY <1>6, SweepCommitKeeps, SweepLostKeeps
<1>7. CASE UNCHANGED vars
  <2>1. UNCHANGED <<row, imm, fills, exch, kill, aged, old, known, sweep, attempts,
                    faults, cancel>>
    BY <1>7 DEF vars, record, clock, worker
  <2> QED
    BY <2>1 DEF OrderInv, TypeOK, FilledIsSumOfFills, SweepCounts, ExchangeAgrees,
                LinkedExists, FilledIsDone, KnownIsRetired
<1> QED
  BY <1>1, <1>2, <1>3, <1>4, <1>5, <1>6, <1>7 DEF Next

\* The invariant that makes the others inductive: what the sweep holds in memory
\* between its awaits (maintenance.py, sweep_orders) agrees with the row, the Fill
\* rows and the exchange, whatever the API and the exchange do meanwhile.
THEOREM OrderInvariant == Spec => []OrderInv
<1>1. Init => OrderInv
  BY OrderInvInit, OrderAssumption
<1>2. OrderInv /\ [Next]_vars => OrderInv'
  BY OrderInvNext, OrderAssumption
<1> QED
  BY <1>1, <1>2, PTL DEF Spec

\* Every variable keeps its type; in particular a fill count never exceeds twice
\* the order, whatever sequence of reconciles recorded it.
THEOREM TypeCorrect == Spec => []TypeOK
<1>1. OrderInv => TypeOK
  BY DEF OrderInv
<1> QED
  BY <1>1, OrderInvariant, PTL

\* reconcile_order: the row's fill count is the sum of its Fill rows.
THEOREM CountsAreSums == Spec => []FilledIsSumOfFills
<1>1. OrderInv => FilledIsSumOfFills
  BY DEF OrderInv
<1> QED
  BY <1>1, OrderInvariant, PTL

\* recover_orphaned_orders adopts only what the exchange has.
THEOREM LinkedOrdersExist == Spec => []LinkedExists
<1>1. OrderInv => LinkedExists
  BY DEF OrderInv, ExchangeAgrees
<1> QED
  BY <1>1, OrderInvariant, PTL

\* A row is FILLED only when the exchange has executed the order.
THEOREM FilledMeansExecuted == Spec => []FilledIsDone
<1>1. OrderInv => FilledIsDone
  BY DEF OrderInv, ExchangeAgrees
<1> QED
  BY <1>1, OrderInvariant, PTL

\* Executor.cancel and the sweep leave no order resting behind a CANCELED row
\* whose exchange order id was known from the start.
THEOREM CanceledOrdersAreGone == Spec => []CanceledKnownIsGone
<1>1. OrderInv => CanceledKnownIsGone
  BY DEF OrderInv, KnownIsRetired, CanceledKnownIsGone
<1> QED
  BY <1>1, OrderInvariant, PTL

===============================================================================
