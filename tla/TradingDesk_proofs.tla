-------------------------- MODULE TradingDesk_proofs ---------------------------
(* Proofs about TradingDesk: its types, the guards of the queue and the cap on *)
(* what orders and positions can lose; and about LossHalt: losses stop the     *)
(* desk, whichever of the sequences of closes a snapshot may find it finds.    *)
EXTENDS TradingDesk, LossHalt, Sums_proofs

-------------------------------------------------------------------------------
(* The inductive invariant                                                     *)

\* What QueueGuarded says of the committed queue, said of any set of proposals.
Guarded(Q) ==
    /\ Cardinality(Q) <= MaxPending
    /\ \A p, q \in Q :
          p # q /\ SourceOf[p] = SourceOf[q] /\ SourceOf[p] # Manual => Key(p) # Key(q)
    /\ \A m \in Markets :
          MarketAllows(0, TotalOver(Full, {p \in Q : NamedOf[p] = m}), MarketCap, Bankroll)

\* The lock that creations share, and what they have not committed.
OneMakerDrafts == \A j, k \in Makers : drafts[j] # {} /\ drafts[k] # {} => j = k
DraftsAreNew == \A k \in Makers : \A p \in drafts[k] : queue[p] = "absent"

\* The guards hold of what any maker would leave behind if it committed now.
EveryCommitGuarded == \A k \in Makers : Guarded(Pending \cup drafts[k])

\* The row lock of an approval, and what may work or be held.
OneApproval == \A s, r \in Sessions : flying[s] # None /\ flying[s] = flying[r] => s = r
FlyingIsPending == \A s \in Sessions : flying[s] # None => queue[flying[s]] = "pending"
FlyingWorks == \A s \in Sessions : flying[s] # None => working[flying[s]] = Lots
WorkingIsKnown == \A p \in Proposals : working[p] > 0 => queue[p] = "approved" \/ Locked(p)
HeldIsApproved == \A p \in Proposals : held[p] > 0 => queue[p] = "approved"

DeskInv ==
    /\ TypeOK
    /\ OneMakerDrafts /\ DraftsAreNew
    /\ QueueGuarded /\ EveryCommitGuarded
    /\ OneApproval /\ FlyingIsPending /\ FlyingWorks /\ WorkingIsKnown /\ HeldIsApproved
    /\ ExposureWithinCap

-------------------------------------------------------------------------------
(* The constants                                                               *)

\* What the assumptions say of one proposal.
LEMMA ProposalFacts ==
    ASSUME NEW p \in Proposals
    PROVE  /\ Loss[p] \in Nat /\ Lots \in Nat /\ Lots > 0 /\ Full[p] \in Nat
           /\ Full[p] = Lots * Loss[p]
           /\ LegCost[p] \in [Markets -> Nat] /\ TickersOf[p] \in SUBSET Markets
           /\ NamedOf[p] \in TickersOf[p] /\ NamedOf[p] \in Markets
           /\ Loss[p] <= TotalOver(LegCost[p], Markets)
<1>1. Loss[p] \in Nat /\ Lots \in Nat /\ Lots > 0
  BY DeskAssumption
<1>2. Lots * Loss[p] \in Nat
  BY <1>1
<1> QED BY <1>1, <1>2, DeskAssumption DEF Full

-------------------------------------------------------------------------------
(* The guards of the queue                                                     *)

\* A part of a guarded set is guarded.
LEMMA GuardedSubset ==
    ASSUME NEW Q \in SUBSET Proposals, NEW R \in SUBSET Q, Guarded(Q)
    PROVE  Guarded(R)
<1>1. IsFiniteSet(Q) /\ IsFiniteSet(R) /\ Cardinality(R) <= Cardinality(Q)
      /\ Cardinality(Q) \in Nat /\ Cardinality(R) \in Nat
  BY DeskAssumption, FS_Subset, FS_CardinalityType
<1>2. Cardinality(R) <= MaxPending
  BY <1>1, DeskAssumption DEF Guarded
<1>3. ASSUME NEW m \in Markets
      PROVE  MarketAllows(0, TotalOver(Full, {p \in R : NamedOf[p] = m}), MarketCap, Bankroll)
  <2> DEFINE r == {p \in R : NamedOf[p] = m}
             q == {p \in Q : NamedOf[p] = m}
  <2>1. IsFiniteSet(q) /\ IsFiniteSet(r) /\ r \in SUBSET q
    BY <1>1, FS_Subset
  <2>2. \A p \in q : Full[p] \in Nat
    BY ProposalFacts
  <2>3. MarketAllows(0, TotalOver(Full, q), MarketCap, Bankroll)
    BY DEF Guarded
  <2> HIDE DEF q, r
  <2>4. TotalOver(Full, r) <= TotalOver(Full, q)
    BY <2>1, <2>2, TotalOverSubset
  <2>5. TotalOver(Full, r) \in Nat /\ TotalOver(Full, q) \in Nat
    BY <2>1, <2>2, TotalOverNat
  <2>6. MarketAllows(0, TotalOver(Full, r), MarketCap, Bankroll)
    BY <2>3, <2>4, <2>5, DeskAssumption DEF MarketAllows
  <2> QED BY <2>6 DEF r
<1> QED BY <1>2, <1>3 DEF Guarded

\* What markets tie up is a natural number.
LEMMA MarketCostNat ==
    ASSUME TypeOK, NEW m \in Markets
    PROVE  MarketCost(m) \in Nat
<1>1. ASSUME NEW p \in Proposals PROVE held[p] * LegCost[p][m] \in Nat
  <2>1. held[p] \in Nat /\ LegCost[p][m] \in Nat
    BY ProposalFacts DEF TypeOK, Lot
  <2> QED BY <2>1
<1> QED BY <1>1, DeskAssumption, TotalOverNat DEF MarketCost

\* A proposal that passes the guards over a guarded set leaves it guarded.
LEMMA DraftGuarded ==
    ASSUME TypeOK, NEW k \in Makers, NEW p \in Proposals,
           p \notin Pending \cup drafts[k], Guarded(Pending \cup drafts[k]), MayPropose(k, p)
    PROVE  Guarded((Pending \cup drafts[k]) \cup {p})
<1> DEFINE Q == Pending \cup drafts[k]
<1>1. Q \in SUBSET Proposals /\ IsFiniteSet(Q) /\ Cardinality(Q) \in Nat /\ p \notin Q
  BY DeskAssumption, FS_Subset, FS_CardinalityType DEF TypeOK, Pending
<1>2. /\ Cardinality(Q) < MaxPending
      /\ SourceOf[p] # Manual =>
             \A q \in Q : SourceOf[q] = SourceOf[p] => ~Names(q, Key(p))
      /\ MarketAllows(MarketExposure(p, Q), Full[p], MarketCap, Bankroll)
      /\ Guarded(Q)
  BY DEF MayPropose
<1> SUFFICES Guarded(Q \cup {p})
  OBVIOUS
<1> HIDE DEF Q
<1>3. Cardinality(Q \cup {p}) <= MaxPending
  <2>1. Cardinality(Q \cup {p}) = Cardinality(Q) + 1
    BY <1>1, FS_AddElement
  <2> QED BY <1>1, <1>2, <2>1, DeskAssumption
<1>4. ASSUME NEW a \in Q \cup {p}, NEW b \in Q \cup {p}, a # b, SourceOf[a] = SourceOf[b],
             SourceOf[a] # Manual, Key(a) = Key(b)
      PROVE  FALSE
  <2>1. \A q \in Q : Names(q, Key(q))
    BY DEF Names, Key
  <2>2. CASE a = p
    BY <1>2, <1>4, <2>1, <2>2
  <2>3. CASE b = p
    BY <1>2, <1>4, <2>1, <2>3
  <2>4. CASE a # p /\ b # p
    BY <1>2, <1>4, <2>4 DEF Guarded
  <2> QED BY <2>2, <2>3, <2>4
<1>5. ASSUME NEW m \in Markets
      PROVE  MarketAllows(0, TotalOver(Full, {q \in Q \cup {p} : NamedOf[q] = m}),
                          MarketCap, Bankroll)
  <2> DEFINE N == {q \in Q : NamedOf[q] = m}
  <2>1. IsFiniteSet(N) /\ p \notin N
    BY <1>1, FS_Subset
  <2>2. \A q \in Proposals : Full[q] \in Nat
    BY ProposalFacts
  <2>3. CASE NamedOf[p] # m
    <3>1. {q \in Q \cup {p} : NamedOf[q] = m} = N
      BY <2>3
    <3> QED BY <1>2, <3>1 DEF Guarded
  <2>4. CASE NamedOf[p] = m
    <3>1. {q \in Q \cup {p} : NamedOf[q] = m} = N \cup {p}
      BY <2>4
    <3>2. Queued(p, Q) \in SUBSET Q /\ IsFiniteSet(Queued(p, Q))
      BY <1>1, FS_Subset DEF Queued
    <3>3. N \in SUBSET Queued(p, Q)
      BY <1>1, <2>4, ProposalFacts DEF Queued
    <3> HIDE DEF N
    <3>4. TotalOver(Full, N \cup {p}) = Full[p] + TotalOver(Full, N)
      <4>1. \A x \in N \cup {p} : Full[x] \in Int
        BY <1>1, <2>2, <3>2, <3>3
      <4> QED BY <2>1, <4>1, TotalOverAdd
    <3>5. TotalOver(Full, N) <= TotalOver(Full, Queued(p, Q))
      BY <1>1, <2>2, <3>2, <3>3, TotalOverSubset
    <3>6. TotalOver(Full, N) \in Nat /\ TotalOver(Full, Queued(p, Q)) \in Nat
      BY <1>1, <2>1, <2>2, <3>2, <3>3, TotalOverNat
    <3>7. TotalOver([x \in Markets |-> MarketCost(x)], TickersOf[p]) \in Nat
      <4>1. IsFiniteSet(TickersOf[p])
        BY ProposalFacts, DeskAssumption, FS_Subset
      <4>2. \A x \in TickersOf[p] : [y \in Markets |-> MarketCost(y)][x] \in Nat
        BY MarketCostNat, ProposalFacts
      <4> QED BY <4>1, <4>2, TotalOverNat
    <3>8. Full[p] \in Nat
      BY <2>2
    <3>9. Bankroll <= 0 \/ Full[p] + TotalOver(Full, N) <= MarketCap
      BY <1>2, <3>5, <3>6, <3>7, <3>8, DeskAssumption DEF MarketAllows, MarketExposure
    <3> QED BY <3>1, <3>4, <3>6, <3>8, <3>9 DEF MarketAllows
  <2> QED BY <2>3, <2>4
<1> QED BY <1>3, <1>4, <1>5 DEF Guarded

-------------------------------------------------------------------------------
(* The limits on exposure                                                      *)

\* What the orders of a proposal can lose, and what its position alone can.
StakeOf == [p \in Proposals |-> Loss[p] * (held[p] + working[p])]
HeldLoss == [p \in Proposals |-> Loss[p] * held[p]]

LEMMA StakeNat ==
    ASSUME TypeOK, NEW p \in Proposals
    PROVE  StakeOf[p] \in Nat /\ HeldLoss[p] \in Nat
<1>1. Loss[p] \in Nat /\ held[p] \in Nat /\ working[p] \in Nat
  BY ProposalFacts DEF TypeOK, Lot
<1>2. Loss[p] * (held[p] + working[p]) \in Nat /\ Loss[p] * held[p] \in Nat
  BY <1>1
<1> QED BY <1>2 DEF StakeOf, HeldLoss

\* What positions can lose is no more than the route's exposure, which is
\* measured market by market at what the legs cost.
LEMMA HeldLossIsExposed ==
    ASSUME TypeOK
    PROVE  TotalOver(HeldLoss, Proposals) <= OpenExposure
<1> DEFINE cost == [p \in Proposals |-> [m \in Markets |-> held[p] * LegCost[p][m]]]
           byProposal == [p \in Proposals |-> TotalOver(cost[p], Markets)]
           byMarket == [m \in Markets |-> TotalOver([p \in Proposals |-> cost[p][m]], Proposals)]
<1>0. IsFiniteSet(Proposals) /\ IsFiniteSet(Markets)
  BY DeskAssumption
<1>1. \A p \in Proposals, m \in Markets : LegCost[p][m] \in Nat /\ held[p] \in Nat
  BY ProposalFacts DEF TypeOK, Lot
<1>2. \A p \in Proposals, m \in Markets : cost[p][m] \in Nat
  BY <1>1
<1>3. TotalOver(byProposal, Proposals) = TotalOver(byMarket, Markets)
  <2> DEFINE across == [m \in Markets |-> [p \in Proposals |-> cost[p][m]]]
  <2>1. Transposes(across, cost, Proposals, Markets)
    BY <1>2 DEF Transposes
  <2>2. SumsRows(byProposal, cost, Proposals, Markets)
    BY DEF SumsRows
  <2>3. SumsRows(byMarket, across, Markets, Proposals)
    BY DEF SumsRows
  <2> HIDE DEF cost, across, byProposal, byMarket
  <2> QED BY <1>0, <2>1, <2>2, <2>3, TotalOverSwap
<1>4. TotalOver(byMarket, Markets) = OpenExposure
  <2>1. ASSUME NEW m \in Markets
        PROVE  [p \in Proposals |-> cost[p][m]] = [p \in Proposals |-> held[p] * LegCost[p][m]]
    OBVIOUS
  <2>2. byMarket = [m \in Markets |-> MarketCost(m)]
    BY <2>1 DEF MarketCost
  <2> QED BY <2>2 DEF OpenExposure
<1>5. ASSUME NEW p \in Proposals
      PROVE  HeldLoss[p] <= byProposal[p] /\ byProposal[p] \in Int
  <2>1. byProposal[p] = held[p] * TotalOver(LegCost[p], Markets)
    <3>1. held[p] \in Int /\ \A m \in Markets : LegCost[p][m] \in Int
      BY <1>1, ProposalFacts DEF TypeOK, Lot
    <3>2. \A m \in Markets : cost[p][m] = held[p] * LegCost[p][m]
      OBVIOUS
    <3> HIDE DEF cost
    <3>3. TotalOver(cost[p], Markets) = held[p] * TotalOver(LegCost[p], Markets)
      <4> DEFINE k == held[p]
                 leg == LegCost[p]
                 row == cost[p]
      <4>1. k \in Int /\ \A m \in Markets : leg[m] \in Int /\ row[m] = k * leg[m]
        BY <3>1, <3>2
      <4> HIDE DEF k, leg, row
      <4>2. TotalOver(row, Markets) = k * TotalOver(leg, Markets)
        BY <1>0, <4>1, TotalOverScale
      <4> QED BY <4>2 DEF k, leg, row
    <3> QED BY <3>3
  <2>2. /\ held[p] \in Nat /\ Loss[p] \in Nat
        /\ Loss[p] <= TotalOver(LegCost[p], Markets)
        /\ TotalOver(LegCost[p], Markets) \in Int
    BY <1>1, ProposalFacts, DeskAssumption, TotalOverInt DEF TypeOK, Lot
  <2> HIDE DEF byProposal
  <2>3. held[p] * Loss[p] <= held[p] * TotalOver(LegCost[p], Markets)
    BY <2>2
  <2>4. HeldLoss[p] = held[p] * Loss[p]
    BY <2>2 DEF HeldLoss
  <2> QED BY <2>1, <2>2, <2>3, <2>4
<1> HIDE DEF byProposal, byMarket, cost
<1>6. TotalOver(HeldLoss, Proposals) <= TotalOver(byProposal, Proposals)
  BY <1>5, StakeNat, DeskAssumption, TotalOverMonotone
<1> QED BY <1>3, <1>4, <1>6

\* The positions of the single-leg proposals of a market can lose no more than
\* the market's positions cost.
LEMMA HeldLossOfMarket ==
    ASSUME TypeOK, NEW m \in Markets
    PROVE  TotalOver(HeldLoss, {p \in Proposals : TickersOf[p] = {m}}) <= MarketCost(m)
<1> DEFINE S == {p \in Proposals : TickersOf[p] = {m}}
           cost == [p \in Proposals |-> held[p] * LegCost[p][m]]
<1>1. ASSUME NEW p \in Proposals PROVE cost[p] \in Nat
  <2>1. held[p] \in Nat /\ LegCost[p][m] \in Nat
    BY ProposalFacts DEF TypeOK, Lot
  <2> QED BY <2>1
<1>2. ASSUME NEW p \in S PROVE HeldLoss[p] = cost[p]
  <2>1. NamedOf[p] = m
    BY ProposalFacts
  <2>2. LegCost[p][m] = Loss[p]
    BY <2>1, DeskAssumption
  <2>3. held[p] \in Nat /\ Loss[p] \in Nat
    BY ProposalFacts DEF TypeOK, Lot
  <2> QED BY <2>2, <2>3 DEF HeldLoss
<1>3. IsFiniteSet(S) /\ S \in SUBSET Proposals
  BY DeskAssumption, FS_Subset
<1>4. TotalOver(cost, Proposals) = MarketCost(m)
  BY DEF MarketCost
<1> HIDE DEF S, cost
<1>5. TotalOver(HeldLoss, S) = TotalOver(cost, S)
  BY <1>1, <1>2, <1>3, TotalOverSame
<1>6. TotalOver(cost, S) <= TotalOver(cost, Proposals)
  BY <1>1, <1>3, DeskAssumption, TotalOverSubset
<1> QED BY <1>4, <1>5, <1>6 DEF S

\* Risked, in terms of the stakes.
LEMMA RiskedIsStakes ==
    ASSUME TypeOK, NEW S \in SUBSET Proposals
    PROVE  Risked(S) = TotalOver(StakeOf, S \ unseen) /\ Risked(S) \in Nat
           /\ IsFiniteSet(S) /\ IsFiniteSet(S \ unseen)
<1>1. IsFiniteSet(S) /\ IsFiniteSet(S \ unseen)
  BY DeskAssumption, FS_Subset
<1>2. \A p \in S \ unseen : StakeOf[p] \in Nat
  BY StakeNat
<1> QED BY <1>1, <1>2, TotalOverNat DEF Risked, StakeOf

\* The same of the next state.
LEMMA RiskedIsStakesNext ==
    ASSUME TypeOK', NEW S \in SUBSET Proposals
    PROVE  Risked(S)' = TotalOver(StakeOf', S \ unseen') /\ Risked(S)' \in Nat
           /\ IsFiniteSet(S) /\ IsFiniteSet(S \ unseen')
           /\ \A p \in Proposals : StakeOf'[p] \in Nat
<1>1. IsFiniteSet(S) /\ IsFiniteSet(S \ unseen')
  BY DeskAssumption, FS_Subset
<1>2. ASSUME NEW p \in Proposals PROVE StakeOf'[p] \in Nat
  <2>1. Loss[p] \in Nat /\ held'[p] \in Nat /\ working'[p] \in Nat
    BY ProposalFacts DEF TypeOK, Lot
  <2>2. Loss[p] * (held'[p] + working'[p]) \in Nat
    BY <2>1
  <2> QED BY <2>2 DEF StakeOf
<1>3. Risked(S)' = TotalOver(StakeOf', S \ unseen')
  BY DEF Risked, StakeOf
<1>4. TotalOver(StakeOf', S \ unseen') \in Nat
  BY <1>1, <1>2, TotalOverNat
<1> QED BY <1>1, <1>2, <1>3, <1>4

\* A step that lets no order lose more than before, and forgets none that was
\* overlooked, lets no set of proposals risk more.
LEMMA RiskedShrinks ==
    ASSUME TypeOK, TypeOK', NEW S \in SUBSET Proposals, unseen \subseteq unseen',
           \A p \in S \ unseen' : StakeOf'[p] <= StakeOf[p]
    PROVE  Risked(S)' <= Risked(S)
<1>1. /\ Risked(S) = TotalOver(StakeOf, S \ unseen)
      /\ Risked(S)' = TotalOver(StakeOf', S \ unseen')
      /\ IsFiniteSet(S \ unseen) /\ IsFiniteSet(S \ unseen')
      /\ Risked(S) \in Nat /\ Risked(S)' \in Nat
  BY RiskedIsStakes, RiskedIsStakesNext
<1>2. \A p \in Proposals : StakeOf[p] \in Nat
  BY StakeNat
<1>3. \A p \in Proposals : StakeOf'[p] \in Nat
  BY RiskedIsStakesNext
<1> DEFINE U == S \ unseen'
           V == S \ unseen
<1>4. U \in SUBSET V
  OBVIOUS
<1>5. TotalOver(StakeOf, U) <= TotalOver(StakeOf, V)
  <2>1. \A p \in V : StakeOf[p] \in Nat
    BY <1>2
  <2> HIDE DEF U, V
  <2> QED BY <1>1, <1>4, <2>1, TotalOverSubset DEF V
<1>6. TotalOver(StakeOf', U) <= TotalOver(StakeOf, U)
  <2>1. \A p \in U : StakeOf'[p] \in Int /\ StakeOf[p] \in Int /\ StakeOf'[p] <= StakeOf[p]
    BY <1>2, <1>3
  <2>2. IsFiniteSet(U)
    BY <1>1
  <2> HIDE DEF U
  <2> QED BY <2>1, <2>2, TotalOverMonotone
<1>7. TotalOver(StakeOf, U) \in Int
  <2>1. \A p \in U : StakeOf[p] \in Int
    BY <1>2
  <2>2. IsFiniteSet(U)
    BY <1>1
  <2> HIDE DEF U
  <2> QED BY <2>1, <2>2, TotalOverInt
<1> QED BY <1>1, <1>5, <1>6, <1>7

\* An approval that the limits let through risks no more than them: whatever works
\* already is forgotten by then, and what is held is what they measured.
LEMMA ApproveWithinCap ==
    ASSUME DeskInv, TypeOK', NEW s \in Sessions, NEW p \in Proposals, Approve(s, p)
    PROVE  ExposureWithinCap'
<1>1. TypeOK /\ ExposureWithinCap
  BY DEF DeskInv
<1>2. queue[p] = "pending" /\ held[p] = 0
  BY <1>1 DEF Approve, DeskInv, HeldIsApproved, TypeOK, Lot
<1>3. /\ held' = held /\ working' = [working EXCEPT ![p] = Lots]
      /\ unseen' = unseen \cup {q \in Proposals : working[q] > 0}
      /\ MayApprove(p)
  BY DEF Approve
<1> DEFINE g == [q \in Proposals |-> IF q = p THEN Full[p] ELSE HeldLoss[q]]
<1>4. \A q \in Proposals : g[q] \in Nat /\ HeldLoss[q] \in Nat /\ Full[p] \in Nat
  BY <1>1, StakeNat, ProposalFacts
<1>5. ASSUME NEW q \in Proposals, q \notin unseen'
      PROVE  StakeOf'[q] = g[q]
  <2>1. CASE q = p
    <3>1. StakeOf'[p] = Loss[p] * (held'[p] + working'[p])
      BY DEF StakeOf
    <3>2. held'[p] = 0 /\ working'[p] = Lots
      BY <1>1, <1>2, <1>3 DEF TypeOK
    <3>3. Loss[p] \in Nat /\ Lots \in Nat /\ Full[p] = Lots * Loss[p]
      BY ProposalFacts
    <3> QED BY <2>1, <3>1, <3>2, <3>3
  <2>2. CASE q # p
    <3>1. StakeOf'[q] = Loss[q] * (held'[q] + working'[q])
      BY DEF StakeOf
    <3>2. held'[q] = held[q] /\ working'[q] = working[q]
      BY <1>1, <1>3, <2>2 DEF TypeOK
    <3>3. working[q] = 0 /\ held[q] \in Nat
      BY <1>1, <1>3, <1>5 DEF TypeOK, Lot
    <3>4. HeldLoss[q] = Loss[q] * held[q] /\ Loss[q] \in Nat
      BY ProposalFacts DEF HeldLoss
    <3> QED BY <2>2, <3>1, <3>2, <3>3, <3>4
  <2> QED BY <2>1, <2>2
<1>6. ASSUME NEW S \in SUBSET Proposals
      PROVE  Risked(S)' \in Nat /\ Risked(S)' <= Full[p] + TotalOver(HeldLoss, S)
             /\ TotalOver(HeldLoss, S) \in Nat
  <2>1. Risked(S)' = TotalOver(StakeOf', S \ unseen') /\ IsFiniteSet(S \ unseen')
        /\ Risked(S)' \in Nat /\ IsFiniteSet(S)
    BY RiskedIsStakesNext
  <2>2. \A q \in S \ unseen' : StakeOf'[q] = g[q] /\ g[q] \in Int
    BY <1>4, <1>5
  <2> HIDE DEF g
  <2>3. TotalOver(g, S \ unseen') = Risked(S)'
    BY <2>1, <2>2, TotalOverSame
  <2>4. TotalOver(g, S \ unseen') <= TotalOver(g, S)
    BY <1>4, <2>1, TotalOverSubset
  <2>5. TotalOver(HeldLoss, S) \in Nat /\ TotalOver(g, S) \in Nat
    BY <1>4, <2>1, TotalOverNat
  <2>6. TotalOver(g, S) <= Full[p] + TotalOver(HeldLoss, S)
    <3>1. CASE p \in S
      <4>1. IsFiniteSet(S \ {p})
        BY <2>1, FS_RemoveElement
      <4>2. TotalOver(g, S) = Full[p] + TotalOver(g, S \ {p})
        BY <1>4, <2>1, <3>1, TotalOverRemove DEF g
      <4>3. \A q \in S \ {p} : g[q] = HeldLoss[q] /\ g[q] \in Int
        BY <1>4 DEF g
      <4>4. TotalOver(g, S \ {p}) = TotalOver(HeldLoss, S \ {p})
        BY <4>1, <4>3, TotalOverSame
      <4>5. TotalOver(HeldLoss, S \ {p}) <= TotalOver(HeldLoss, S)
        BY <1>4, <2>1, TotalOverSubset
      <4>6. TotalOver(HeldLoss, S \ {p}) \in Nat
        BY <1>4, <4>1, TotalOverNat
      <4> QED BY <1>4, <2>5, <4>2, <4>4, <4>5, <4>6
    <3>2. CASE p \notin S
      <4>1. \A q \in S : g[q] = HeldLoss[q] /\ g[q] \in Int
        BY <1>4, <3>2 DEF g
      <4>2. TotalOver(g, S) = TotalOver(HeldLoss, S)
        BY <2>1, <4>1, TotalOverSame
      <4> QED BY <1>4, <2>5, <4>2
    <3> QED BY <3>1, <3>2
  <2> QED BY <1>4, <2>1, <2>3, <2>4, <2>5, <2>6
<1>7. ExposureAllows(0, Risked(Proposals)', TotalCap)
  <2>1. TotalOver(HeldLoss, Proposals) <= OpenExposure
    BY <1>1, HeldLossIsExposed
  <2>2. OpenExposure \in Nat
    BY <1>1, MarketCostNat, DeskAssumption, TotalOverNat DEF OpenExposure
  <2>3. ExposureAllows(OpenExposure, Full[p], TotalCap)
    BY <1>3 DEF MayApprove
  <2>4. Risked(Proposals)' \in Nat
        /\ Risked(Proposals)' <= Full[p] + TotalOver(HeldLoss, Proposals)
        /\ TotalOver(HeldLoss, Proposals) \in Nat
    BY <1>6
  <2> QED BY <1>4, <2>1, <2>2, <2>3, <2>4, DeskAssumption DEF ExposureAllows
<1>8. ASSUME NEW m \in Markets
      PROVE  MarketAllows(0, Risked({q \in Proposals : TickersOf[q] = {m}})', MarketCap, Bankroll)
  <2> DEFINE S == {q \in Proposals : TickersOf[q] = {m}}
  <2>1. S \in SUBSET Proposals
    OBVIOUS
  <2>2. CASE p \in S
    <3>1. Risked(S)' \in Nat /\ Risked(S)' <= Full[p] + TotalOver(HeldLoss, S)
          /\ TotalOver(HeldLoss, S) \in Nat
      BY <1>6, <2>1
    <3>2. TotalOver(HeldLoss, S) <= MarketCost(m)
      BY <1>1, HeldLossOfMarket
    <3>3. TotalOver([x \in Markets |-> MarketCost(x)], TickersOf[p]) = MarketCost(m)
      <4> DEFINE h == [x \in Markets |-> MarketCost(x)]
      <4>1. h[m] = MarketCost(m) /\ h[m] \in Int
        BY <1>1, MarketCostNat
      <4> HIDE DEF h
      <4>2. TotalOver(h, {m}) = MarketCost(m)
        BY <4>1, TotalOverOne
      <4> QED BY <2>2, <4>2 DEF h
    <3>4. MarketAllows(MarketExposure(p, Pending), Full[p], MarketCap, Bankroll)
      BY <1>3 DEF MayApprove
    <3>5. TotalOver(Full, Queued(p, Pending)) \in Nat
      <4>1. IsFiniteSet(Queued(p, Pending)) /\ Queued(p, Pending) \subseteq Proposals
        BY DeskAssumption, FS_Subset DEF Queued, Pending
      <4> QED BY <4>1, ProposalFacts, TotalOverNat
    <3>6. MarketCost(m) \in Nat
      BY <1>1, MarketCostNat
    <3> HIDE DEF S
    <3>7. MarketAllows(0, Risked(S)', MarketCap, Bankroll)
      BY <1>4, <3>1, <3>2, <3>3, <3>4, <3>5, <3>6, DeskAssumption
      DEF MarketAllows, MarketExposure
    <3> QED BY <3>7 DEF S
  <2>3. CASE p \notin S
    <3>1. ASSUME NEW q \in S \ unseen' PROVE StakeOf'[q] <= StakeOf[q]
      <4>1. held'[q] = held[q] /\ working'[q] = working[q]
        BY <1>1, <1>3, <2>3 DEF TypeOK
      <4>2. StakeOf'[q] = StakeOf[q] /\ StakeOf[q] \in Nat
        BY <1>1, <4>1, StakeNat DEF StakeOf
      <4> QED BY <4>2
    <3>2. Risked(S)' <= Risked(S)
      BY <1>1, <1>3, <2>1, <3>1, RiskedShrinks
    <3>3. Risked(S) \in Nat /\ Risked(S)' \in Nat
      BY <1>1, <1>6, <2>1, RiskedIsStakes
    <3>4. MarketAllows(0, Risked(S), MarketCap, Bankroll)
      BY <1>1 DEF ExposureWithinCap
    <3> HIDE DEF S
    <3>5. MarketAllows(0, Risked(S)', MarketCap, Bankroll)
      BY <3>2, <3>3, <3>4, DeskAssumption DEF MarketAllows
    <3> QED BY <3>5 DEF S
  <2> QED BY <2>2, <2>3
<1> QED BY <1>7, <1>8 DEF ExposureWithinCap

\* Any other step risks no more than before.
LEMMA OtherWithinCap ==
    ASSUME DeskInv, TypeOK', unseen' = unseen,
           \A p \in Proposals : held'[p] + working'[p] <= held[p] + working[p]
    PROVE  ExposureWithinCap'
<1>1. TypeOK /\ ExposureWithinCap
  BY DEF DeskInv
<1>2. ASSUME NEW p \in Proposals PROVE StakeOf'[p] <= StakeOf[p]
  <2>1. Loss[p] \in Nat /\ held[p] + working[p] \in Nat /\ held'[p] + working'[p] \in Nat
    BY <1>1, ProposalFacts DEF TypeOK, Lot
  <2>2. Loss[p] * (held'[p] + working'[p]) <= Loss[p] * (held[p] + working[p])
    BY <2>1
  <2> QED BY <2>2 DEF StakeOf
<1>3. ASSUME NEW S \in SUBSET Proposals
      PROVE  Risked(S)' <= Risked(S) /\ Risked(S) \in Nat /\ Risked(S)' \in Nat
  <2>1. Risked(S)' <= Risked(S)
    BY <1>1, <1>2, RiskedShrinks
  <2>2. Risked(S)' \in Nat
    BY RiskedIsStakesNext
  <2> QED BY <1>1, <2>1, <2>2, RiskedIsStakes
<1>4. ExposureAllows(0, Risked(Proposals)', TotalCap)
  BY <1>1, <1>3, DeskAssumption DEF ExposureWithinCap, ExposureAllows
<1>5. ASSUME NEW m \in Markets
      PROVE  MarketAllows(0, Risked({q \in Proposals : TickersOf[q] = {m}})', MarketCap, Bankroll)
  <2> DEFINE S == {q \in Proposals : TickersOf[q] = {m}}
  <2>1. Risked(S)' <= Risked(S) /\ Risked(S) \in Nat /\ Risked(S)' \in Nat
    BY <1>3
  <2>2. MarketAllows(0, Risked(S), MarketCap, Bankroll)
    BY <1>1 DEF ExposureWithinCap
  <2> HIDE DEF S
  <2>3. MarketAllows(0, Risked(S)', MarketCap, Bankroll)
    BY <2>1, <2>2, DeskAssumption DEF MarketAllows
  <2> QED BY <2>3 DEF S
<1> QED BY <1>4, <1>5 DEF ExposureWithinCap

-------------------------------------------------------------------------------
(* Every step                                                                  *)

\* An empty desk.
LEMMA DeskInit == Init => DeskInv
<1> SUFFICES ASSUME Init PROVE DeskInv
  OBVIOUS
<1>1. TypeOK
  <2>1. Lots \in Nat /\ MaxAborts \in Nat
    BY DeskAssumption
  <2>2. 0 \in 0 .. Lots /\ 0 \in 0 .. MaxAborts /\ 0 + 0 <= Lots
    BY <2>1
  <2>3. \A p \in Proposals : working[p] + held[p] <= Lots
    BY <2>2 DEF Init
  <2> QED BY <2>2, <2>3 DEF Init, TypeOK, Lot
<1>2. Pending = {} /\ \A k \in Makers : Pending \cup drafts[k] = {}
  BY DEF Init, Pending
<1>3. Guarded({})
  <2>1. Cardinality({}) <= MaxPending
    BY FS_EmptySet, DeskAssumption
  <2>2. ASSUME NEW m \in Markets
        PROVE  MarketAllows(0, TotalOver(Full, {p \in {} : NamedOf[p] = m}), MarketCap, Bankroll)
    <3>1. TotalOver(Full, {}) = 0 /\ {p \in {} : NamedOf[p] = m} = {}
      BY TotalOverEmpty
    <3> QED BY <3>1, DeskAssumption DEF MarketAllows
  <2> QED BY <2>1, <2>2 DEF Guarded
<1>4. QueueGuarded /\ EveryCommitGuarded
  BY <1>2, <1>3 DEF QueueGuarded, EveryCommitGuarded, Guarded
<1>5. ExposureWithinCap
  <2>1. ASSUME NEW S \in SUBSET Proposals PROVE Risked(S) = 0
    <3>1. \A p \in S \ unseen : StakeOf[p] = 0
      BY ProposalFacts DEF Init, StakeOf
    <3>2. IsFiniteSet(S \ unseen) /\ Risked(S) = TotalOver(StakeOf, S \ unseen)
      BY <1>1, RiskedIsStakes
    <3> QED BY <3>1, <3>2, TotalOverZero
  <2> QED BY <2>1, DeskAssumption DEF ExposureWithinCap, ExposureAllows, MarketAllows
<1> QED BY <1>1, <1>4, <1>5
    DEF DeskInv, Init, OneMakerDrafts, DraftsAreNew, OneApproval, FlyingIsPending,
        FlyingWorks, WorkingIsKnown, HeldIsApproved

LEMMA TypeStep ==
    ASSUME DeskInv, [Next]_vars
    PROVE  TypeOK'
<1> USE DEF TypeOK, Lot
<1>1. TypeOK /\ Lots \in Nat /\ MaxAborts \in Nat
  BY DeskAssumption DEF DeskInv
<1>2. ASSUME NEW k \in Makers, BeginScan(k) \/ EndScan(k) \/ LoseScan(k) PROVE TypeOK'
  <2>1. CASE BeginScan(k)
    BY <1>1, <2>1 DEF BeginScan, capital
  <2>2. CASE EndScan(k)
    BY <1>1, <2>2 DEF EndScan, capital
  <2>3. CASE LoseScan(k)
    BY <1>1, <2>3 DEF LoseScan, capital
  <2> QED BY <1>2, <2>1, <2>2, <2>3
<1>3. ASSUME NEW k \in Makers, NEW p \in Proposals, Draft(k, p) PROVE TypeOK'
  BY <1>1, <1>3 DEF Draft, capital
<1>4. ASSUME NEW p \in Proposals, Reject(p) \/ Cancel(p) \/ Close(p) PROVE TypeOK'
  BY <1>1, <1>4 DEF Reject, Cancel, Close, capital
<1>5. ASSUME NEW p \in Proposals, Fill(p) PROVE TypeOK'
  BY <1>1, <1>5 DEF Fill
<1>6. ASSUME NEW S \in SUBSET Proposals, ExpireStale(S) PROVE TypeOK'
  BY <1>1, <1>6 DEF ExpireStale, capital
<1>7. CASE ToggleKill
  BY <1>1, <1>7 DEF ToggleKill, capital
<1>8. ASSUME NEW s \in Sessions, NEW p \in Proposals, Approve(s, p) PROVE TypeOK'
  <2>1. held[p] = 0
    BY <1>1, <1>8 DEF Approve, DeskInv, HeldIsApproved
  <2> QED BY <1>1, <1>8, <2>1 DEF Approve
<1>9. ASSUME NEW s \in Sessions, NEW n \in Lot, NEW rest \in BOOLEAN, Settle(s, n, rest)
      PROVE  TypeOK'
  BY <1>1, <1>9 DEF Settle
<1>10. ASSUME NEW s \in Sessions, LoseApproval(s) PROVE TypeOK'
  BY <1>1, <1>10 DEF LoseApproval
<1>11. CASE UNCHANGED vars
  BY <1>1, <1>11 DEF vars
<1> QED BY <1>2, <1>3, <1>4, <1>5, <1>6, <1>7, <1>8, <1>9, <1>10, <1>11 DEF Next

\* What a maker has not committed is its own, and new.
LEMMA DraftStep ==
    ASSUME DeskInv, [Next]_vars
    PROVE  OneMakerDrafts' /\ DraftsAreNew'
<1> USE DEF OneMakerDrafts, DraftsAreNew
<1>1. TypeOK /\ OneMakerDrafts /\ DraftsAreNew /\ FlyingIsPending
  BY DEF DeskInv
<1>2. ASSUME NEW k \in Makers, BeginScan(k) \/ EndScan(k) \/ LoseScan(k)
      PROVE  OneMakerDrafts' /\ DraftsAreNew'
  BY <1>1, <1>2 DEF BeginScan, EndScan, LoseScan, TypeOK
<1>3. ASSUME NEW k \in Makers, NEW p \in Proposals, Draft(k, p)
      PROVE  OneMakerDrafts' /\ DraftsAreNew'
  BY <1>1, <1>3 DEF Draft, LockFree, TypeOK
<1>4. ASSUME NEW p \in Proposals, Reject(p) \/ Fill(p) \/ Cancel(p) \/ Close(p)
      PROVE  OneMakerDrafts' /\ DraftsAreNew'
  BY <1>1, <1>4 DEF Reject, Fill, Cancel, Close, TypeOK
<1>5. ASSUME NEW S \in SUBSET Proposals, ExpireStale(S)
      PROVE  OneMakerDrafts' /\ DraftsAreNew'
  BY <1>1, <1>5 DEF ExpireStale, Stale, Pending, TypeOK
<1>6. CASE ToggleKill
  BY <1>1, <1>6 DEF ToggleKill
<1>7. ASSUME NEW s \in Sessions, NEW p \in Proposals, Approve(s, p)
      PROVE  OneMakerDrafts' /\ DraftsAreNew'
  BY <1>1, <1>7 DEF Approve
<1>8. ASSUME NEW s \in Sessions, NEW n \in Lot, NEW rest \in BOOLEAN, Settle(s, n, rest)
      PROVE  OneMakerDrafts' /\ DraftsAreNew'
  BY <1>1, <1>8 DEF Settle, TypeOK, FlyingIsPending
<1>9. ASSUME NEW s \in Sessions, LoseApproval(s)
      PROVE  OneMakerDrafts' /\ DraftsAreNew'
  BY <1>1, <1>9 DEF LoseApproval
<1>10. CASE UNCHANGED vars
  BY <1>1, <1>10 DEF vars
<1> QED BY <1>2, <1>3, <1>4, <1>5, <1>6, <1>7, <1>8, <1>9, <1>10 DEF Next

\* A commit adds what was drafted under the lock; everything else only takes out.
LEMMA GuardStep ==
    ASSUME DeskInv, [Next]_vars
    PROVE  QueueGuarded' /\ EveryCommitGuarded'
<1>1. TypeOK /\ OneMakerDrafts /\ DraftsAreNew /\ FlyingIsPending
  BY DEF DeskInv
<1>2. /\ Guarded(Pending) /\ \A k \in Makers : Guarded(Pending \cup drafts[k])
      /\ Pending \in SUBSET Proposals
      /\ \A k \in Makers : Pending \cup drafts[k] \in SUBSET Proposals
  BY <1>1 DEF DeskInv, QueueGuarded, EveryCommitGuarded, Guarded, Pending, TypeOK
<1>3. ASSUME Pending' \subseteq Pending, \A k \in Makers : drafts'[k] \subseteq drafts[k]
      PROVE  Guarded(Pending') /\ \A k \in Makers : Guarded(Pending' \cup drafts'[k])
  <2>1. Pending' \in SUBSET Pending
    BY <1>3
  <2>2. \A k \in Makers : Pending' \cup drafts'[k] \in SUBSET (Pending \cup drafts[k])
    BY <1>3
  <2> QED BY <1>2, <2>1, <2>2, GuardedSubset
<1>4. ASSUME NEW k \in Makers, EndScan(k)
      PROVE  Guarded(Pending') /\ \A j \in Makers : Guarded(Pending' \cup drafts'[j])
  <2>1. Pending' = Pending \cup drafts[k]
    BY <1>1, <1>4 DEF EndScan, Pending, TypeOK, DraftsAreNew
  <2>2. CASE drafts[k] = {}
    BY <1>1, <1>2, <1>4, <2>1, <2>2 DEF EndScan, TypeOK
  <2>3. CASE drafts[k] # {}
    <3>1. \A j \in Makers : drafts'[j] = {}
      BY <1>1, <1>4, <2>3 DEF EndScan, OneMakerDrafts, TypeOK
    <3> QED BY <1>2, <2>1, <3>1
  <2> QED BY <2>2, <2>3
<1>5. ASSUME NEW k \in Makers, NEW p \in Proposals, Draft(k, p)
      PROVE  Guarded(Pending') /\ \A j \in Makers : Guarded(Pending' \cup drafts'[j])
  <2>1. Pending' = Pending
    BY <1>5 DEF Draft, Pending
  <2>2. drafts'[k] = drafts[k] \cup {p} /\ \A j \in Makers \ {k} : drafts'[j] = drafts[j]
    BY <1>1, <1>5 DEF Draft, TypeOK
  <2>3. p \notin Pending \cup drafts[k] /\ MayPropose(k, p)
    BY <1>5 DEF Draft, Pending
  <2>4. Guarded((Pending \cup drafts[k]) \cup {p})
    BY <1>1, <1>2, <2>3, DraftGuarded
  <2>5. Pending \cup drafts'[k] = (Pending \cup drafts[k]) \cup {p}
    BY <2>2
  <2> QED BY <1>2, <2>1, <2>2, <2>4, <2>5
<1>6. Guarded(Pending') /\ \A k \in Makers : Guarded(Pending' \cup drafts'[k])
  <2>1. ASSUME NEW k \in Makers, BeginScan(k) \/ LoseScan(k)
        PROVE  Pending' \subseteq Pending /\ \A j \in Makers : drafts'[j] \subseteq drafts[j]
    BY <1>1, <2>1 DEF BeginScan, LoseScan, Pending, TypeOK
  <2>2. ASSUME NEW p \in Proposals, Reject(p) \/ Fill(p) \/ Cancel(p) \/ Close(p)
        PROVE  Pending' \subseteq Pending /\ \A j \in Makers : drafts'[j] \subseteq drafts[j]
    BY <1>1, <2>2 DEF Reject, Fill, Cancel, Close, Pending, TypeOK
  <2>3. ASSUME NEW S \in SUBSET Proposals, ExpireStale(S)
        PROVE  Pending' \subseteq Pending /\ \A j \in Makers : drafts'[j] \subseteq drafts[j]
    BY <1>1, <2>3 DEF ExpireStale, Pending, TypeOK
  <2>4. ASSUME ToggleKill \/ UNCHANGED vars
        PROVE  Pending' \subseteq Pending /\ \A j \in Makers : drafts'[j] \subseteq drafts[j]
    BY <2>4 DEF ToggleKill, Pending, vars
  <2>5. ASSUME NEW s \in Sessions, NEW p \in Proposals, Approve(s, p)
        PROVE  Pending' \subseteq Pending /\ \A j \in Makers : drafts'[j] \subseteq drafts[j]
    BY <2>5 DEF Approve, Pending
  <2>6. ASSUME NEW s \in Sessions, NEW n \in Lot, NEW rest \in BOOLEAN, Settle(s, n, rest)
        PROVE  Pending' \subseteq Pending /\ \A j \in Makers : drafts'[j] \subseteq drafts[j]
    BY <1>1, <2>6 DEF Settle, Pending, TypeOK
  <2>7. ASSUME NEW s \in Sessions, LoseApproval(s)
        PROVE  Pending' \subseteq Pending /\ \A j \in Makers : drafts'[j] \subseteq drafts[j]
    BY <2>7 DEF LoseApproval, Pending
  <2> QED BY <1>3, <1>4, <1>5, <2>1, <2>2, <2>3, <2>4, <2>5, <2>6, <2>7 DEF Next
<1>7. EveryCommitGuarded'
  BY <1>6 DEF EveryCommitGuarded, Guarded
<1> QED BY <1>6, <1>7 DEF QueueGuarded, Guarded

\* An approval has its row to itself, and what works or is held was approved.
LEMMA ApprovalStep ==
    ASSUME DeskInv, [Next]_vars
    PROVE  OneApproval' /\ FlyingIsPending' /\ FlyingWorks' /\ WorkingIsKnown' /\ HeldIsApproved'
<1> DEFINE A == OneApproval /\ FlyingIsPending /\ FlyingWorks /\ WorkingIsKnown /\ HeldIsApproved
<1> USE DEF OneApproval, FlyingIsPending, FlyingWorks, WorkingIsKnown, HeldIsApproved, Locked
<1>1. TypeOK /\ DraftsAreNew /\ A
  BY DEF DeskInv
<1>2. Lots \in Nat /\ Lots > 0 /\ None \notin Proposals
  BY DeskAssumption
<1>3. ASSUME NEW k \in Makers, BeginScan(k) \/ EndScan(k) \/ LoseScan(k) PROVE A'
  BY <1>1, <1>3 DEF BeginScan, EndScan, LoseScan, capital, TypeOK, DraftsAreNew
<1>4. ASSUME NEW k \in Makers, NEW p \in Proposals, Draft(k, p) PROVE A'
  BY <1>1, <1>4 DEF Draft, capital
<1>5. ASSUME NEW p \in Proposals, Reject(p) PROVE A'
  BY <1>1, <1>2, <1>5 DEF Reject, capital, TypeOK
<1>6. ASSUME NEW p \in Proposals, Fill(p) PROVE A'
  BY <1>1, <1>2, <1>6 DEF Fill, TypeOK, Lot
<1>7. ASSUME NEW p \in Proposals, Cancel(p) PROVE A'
  BY <1>1, <1>2, <1>7 DEF Cancel, TypeOK, Lot
<1>8. ASSUME NEW p \in Proposals, Close(p) PROVE A'
  BY <1>1, <1>2, <1>8 DEF Close, TypeOK, Lot
<1>9. ASSUME NEW S \in SUBSET Proposals, ExpireStale(S) PROVE A'
  BY <1>1, <1>2, <1>9 DEF ExpireStale, Stale, Pending, capital, TypeOK
<1>10. CASE ToggleKill
  BY <1>1, <1>10 DEF ToggleKill, capital
<1>11. ASSUME NEW s \in Sessions, NEW p \in Proposals, Approve(s, p) PROVE A'
  BY <1>1, <1>2, <1>11 DEF Approve, TypeOK, Lot
<1>12. ASSUME NEW s \in Sessions, NEW n \in Lot, NEW rest \in BOOLEAN, Settle(s, n, rest)
       PROVE  A'
  BY <1>1, <1>2, <1>12 DEF Settle, TypeOK, Lot
<1>13. ASSUME NEW s \in Sessions, LoseApproval(s) PROVE A'
  BY <1>1, <1>2, <1>13 DEF LoseApproval, TypeOK, Lot
<1>14. CASE UNCHANGED vars
  BY <1>1, <1>14 DEF vars
<1> QED BY <1>3, <1>4, <1>5, <1>6, <1>7, <1>8, <1>9, <1>10, <1>11, <1>12, <1>13, <1>14 DEF Next

\* Only an approval adds to what can be lost.
LEMMA CapStep ==
    ASSUME DeskInv, [Next]_vars
    PROVE  ExposureWithinCap'
<1> DEFINE Less == unseen' = unseen
                   /\ \A q \in Proposals : held'[q] + working'[q] <= held[q] + working[q]
<1>1. TypeOK' /\ TypeOK /\ FlyingWorks
  BY TypeStep DEF DeskInv
<1>2. \A q \in Proposals : held[q] \in Nat /\ working[q] \in Nat /\ Lots \in Nat
  BY <1>1, DeskAssumption DEF TypeOK, Lot
<1>3. ASSUME NEW s \in Sessions, NEW p \in Proposals, Approve(s, p) PROVE ExposureWithinCap'
  BY <1>1, <1>3, ApproveWithinCap
<1>4. ASSUME NEW k \in Makers, BeginScan(k) \/ EndScan(k) \/ LoseScan(k) PROVE Less
  BY <1>2, <1>4 DEF BeginScan, EndScan, LoseScan, capital
<1>5. ASSUME NEW k \in Makers, NEW p \in Proposals, Draft(k, p) PROVE Less
  BY <1>2, <1>5 DEF Draft, capital
<1>6. ASSUME NEW p \in Proposals, Reject(p) PROVE Less
  BY <1>2, <1>6 DEF Reject, capital
<1>7. ASSUME NEW p \in Proposals, Fill(p) \/ Cancel(p) \/ Close(p) PROVE Less
  BY <1>1, <1>2, <1>7 DEF Fill, Cancel, Close, TypeOK
<1>8. ASSUME NEW S \in SUBSET Proposals, ExpireStale(S) PROVE Less
  BY <1>2, <1>8 DEF ExpireStale, capital
<1>9. ASSUME ToggleKill \/ UNCHANGED vars PROVE Less
  BY <1>2, <1>9 DEF ToggleKill, capital, vars
<1>10. ASSUME NEW s \in Sessions, NEW n \in Lot, NEW rest \in BOOLEAN, Settle(s, n, rest)
       PROVE  Less
  BY <1>1, <1>2, <1>10, DeskAssumption DEF Settle, TypeOK, FlyingWorks, Lot
<1>11. ASSUME NEW s \in Sessions, LoseApproval(s) PROVE Less
  BY <1>1, <1>2, <1>11 DEF LoseApproval, TypeOK
<1>12. Less => ExposureWithinCap'
  BY <1>1, OtherWithinCap
<1> HIDE DEF Less
<1> QED BY <1>3, <1>4, <1>5, <1>6, <1>7, <1>8, <1>9, <1>10, <1>11, <1>12 DEF Next

-------------------------------------------------------------------------------
(* What holds of every desk                                                    *)

\* The inductive invariant of the desk: one maker at a time has uncommitted
\* proposals and every guard holds of what its commit would leave; an approval has
\* its row alone; what works or is held was approved; the caps hold.
THEOREM DeskInvariant == Spec => []DeskInv
<1>1. DeskInv /\ [Next]_vars => DeskInv'
  <2> SUFFICES ASSUME DeskInv, [Next]_vars PROVE DeskInv'
    OBVIOUS
  <2> QED BY TypeStep, DraftStep, GuardStep, ApprovalStep, CapStep DEF DeskInv
<1> QED BY DeskInit, <1>1, PTL DEF Spec

\* The desk's state is of its type.
THEOREM TypeCorrect == Spec => []TypeOK
<1>1. DeskInv => TypeOK
  BY DEF DeskInv
<1> QED BY <1>1, DeskInvariant, PTL

\* However many scans and requests create proposals at once, the committed queue
\* respects max_pending_proposals, the one proposal per detector and key, and the
\* cap of every market.
THEOREM QueueStaysGuarded == Spec => []QueueGuarded
<1>1. DeskInv => QueueGuarded
  BY DEF DeskInv
<1> QED BY <1>1, DeskInvariant, PTL

\* What can be lost on positions and orders that no approval overlooked stays within
\* the total cap, and within a market's on its single-leg proposals.
THEOREM ExposureStaysWithinCap == Spec => []ExposureWithinCap
<1>1. DeskInv => ExposureWithinCap
  BY DEF DeskInv
<1> QED BY <1>1, DeskInvariant, PTL

-------------------------------------------------------------------------------
(* The halts: the inductive invariant                                          *)

CloseRow == [kind : {"fill", "settlement"}, pnl : Pnl, at : Nat, day : CloseDays]

HaltTypeOK ==
    /\ hour \in 0 .. LastHour
    /\ closes \in Seq(CloseRow)
    /\ dayRows \in [CloseDays -> [realized : Int, fees : Int]]

\* What each close left in the row of its day.
Nets == [i \in DOMAIN closes |-> closes[i].pnl - CloseFee]
OfDay(d) == {i \in DOMAIN closes : closes[i].day = d}

DayIsItsCloses ==
    \A d \in CloseDays : dayRows[d].realized - dayRows[d].fees = TotalOver(Nets, OfDay(d))

ScratchesAreFew == Cardinality(Scratches) <= MaxScratches

HaltInv == HaltTypeOK /\ DayIsItsCloses /\ ScratchesAreFew

-------------------------------------------------------------------------------
(* Closes                                                                      *)

\* A later hour is not of an earlier day.
LEMMA DayAtMonotone ==
    ASSUME NEW a \in Nat, NEW b \in Nat, a <= b
    PROVE  DayAt(a) \in 0 .. DayAt(b) /\ DayAt(b) \in Nat
<1> DEFINE d == HoursOfDay
           i == a \div d
           j == b \div d
<1>1. d \in Nat /\ d > 0
  BY HaltAssumption
<1>2. /\ i \in Int /\ a = d * i + (a % d) /\ a % d \in 0 .. (d - 1)
      /\ j \in Int /\ b = d * j + (b % d) /\ b % d \in 0 .. (d - 1)
  BY <1>1
<1>3. DayAt(a) = i /\ DayAt(b) = j
  BY DEF DayAt
<1> HIDE DEF d, i, j
<1>4. i >= 0
  <2> SUFFICES ASSUME i + 1 <= 0 PROVE FALSE
    BY <1>2
  <2>1. d * (i + 1) <= 0 /\ d * (i + 1) = d * i + d /\ d * i \in Int
    BY <1>1, <1>2
  <2> QED BY <1>1, <1>2, <2>1
<1>5. i <= j
  <2> SUFFICES ASSUME j + 1 <= i PROVE FALSE
    BY <1>2
  <2>1. /\ d * (j + 1) <= d * i /\ d * (j + 1) = d * j + d
        /\ d * i \in Int /\ d * j \in Int
    BY <1>1, <1>2
  <2> QED BY <1>1, <1>2, <2>1
<1> QED BY <1>2, <1>3, <1>4, <1>5

\* The constants, each by itself.
LEMMA HaltBounds ==
    /\ Pnl \subseteq Int /\ After \in Nat /\ After > 0 /\ HoursOfDay \in Nat /\ HoursOfDay > 0
    /\ CloseFee \in Nat /\ Cooldown \in Nat /\ LossLimit \in Nat /\ LastHour \in Nat
    /\ MaxScratches \in Nat /\ StreakWindow >= After + MaxScratches
BY HaltAssumption

\* What is known of one close.
LEMMA CloseFacts ==
    ASSUME HaltTypeOK
    PROVE  /\ IsFiniteSet(DOMAIN closes)
           /\ \A i \in DOMAIN closes :
                 /\ closes[i].pnl \in Int /\ closes[i].at \in Int
                 /\ closes[i].kind \in {"fill", "settlement"}
<1>1. closes \in Seq(CloseRow) /\ DOMAIN closes = 1 .. Len(closes) /\ Len(closes) \in Int
  BY DEF HaltTypeOK
<1>2. \A i \in DOMAIN closes : closes[i] \in CloseRow
  BY <1>1
<1>3. IsFiniteSet(DOMAIN closes)
  BY <1>1, FS_Interval
<1>4. ASSUME NEW i \in DOMAIN closes
      PROVE  /\ closes[i].pnl \in Int /\ closes[i].at \in Int
             /\ closes[i].kind \in {"fill", "settlement"}
  <2>1. closes[i] \in CloseRow
    BY <1>2
  <2>2. closes[i].pnl \in Pnl /\ closes[i].at \in Nat
    BY <2>1 DEF CloseRow
  <2>3. closes[i].kind \in {"fill", "settlement"}
    BY <2>1 DEF CloseRow
  <2>4. closes[i].pnl \in Int
    BY <2>2, HaltBounds, Zenon
  <2>5. closes[i].at \in Int
    BY <2>2
  <2> QED BY <2>3, <2>4, <2>5, Zenon
<1> QED
  BY <1>3, <1>4

-------------------------------------------------------------------------------
(* Every step                                                                  *)

LEMMA HaltInvInit ==
    ASSUME HaltInit
    PROVE  HaltInv
<1>1. DOMAIN closes = {} /\ Scratches = {} /\ \A d \in CloseDays : OfDay(d) = {}
  BY DEF HaltInit, Scratches, OfDay
<1>2. HaltTypeOK
  BY HaltBounds DEF HaltInit, HaltTypeOK
<1>3. \A d \in CloseDays : dayRows[d].realized - dayRows[d].fees = 0
  BY DEF HaltInit
<1>4. DayIsItsCloses
  BY <1>1, <1>3, TotalOverEmpty DEF DayIsItsCloses
<1> QED
  BY <1>1, <1>2, <1>4, FS_EmptySet, HaltBounds DEF HaltInv, ScratchesAreFew

\* The clock alone.
LEMMA HourKeeps ==
    ASSUME HaltInv, hour' \in 0 .. LastHour, UNCHANGED <<closes, dayRows>>
    PROVE  HaltInv'
BY DEF HaltInv, HaltTypeOK, DayIsItsCloses, ScratchesAreFew, Nets, OfDay, Scratches

\* A close and its day, committed together.
LEMMA BookedKeeps ==
    ASSUME HaltInv, NEW kind \in {"fill", "settlement"}, NEW pnl \in Pnl, NEW began \in Nat,
           NEW day \in CloseDays, Booked(kind, pnl, began, day)
    PROVE  HaltInv'
<1> DEFINE c == [kind |-> kind, pnl |-> pnl, at |-> began, day |-> day]
           n == Len(closes) + 1
<1>1. /\ closes \in Seq(CloseRow) /\ c \in CloseRow /\ closes' = Append(closes, c) /\ hour' = hour
      /\ dayRows' = [dayRows EXCEPT ![day] = [realized |-> @.realized + pnl,
                                              fees |-> @.fees + CloseFee]]
      /\ dayRows \in [CloseDays -> [realized : Int, fees : Int]]
      /\ pnl = 0 => Cardinality(Scratches) < MaxScratches
      /\ pnl \in Int /\ CloseFee \in Int
  BY HaltBounds DEF HaltInv, HaltTypeOK, Booked, CloseRow
<1>2. c.pnl = pnl /\ c.day = day
  OBVIOUS
<1> HIDE DEF c
<1>3. /\ closes' \in Seq(CloseRow) /\ DOMAIN closes = 1 .. Len(closes)
      /\ DOMAIN closes' = DOMAIN closes \cup {n} /\ n \notin DOMAIN closes
      /\ closes'[n] = c /\ \A i \in DOMAIN closes : closes'[i] = closes[i]
  BY <1>1
<1> HIDE DEF n
<1>4. HaltTypeOK'
  <2>1. dayRows[day].realized + pnl \in Int /\ dayRows[day].fees + CloseFee \in Int
    BY <1>1
  <2>2. dayRows' \in [CloseDays -> [realized : Int, fees : Int]]
    BY <1>1, <2>1
  <2> QED BY <1>1, <1>3, <2>2 DEF HaltInv, HaltTypeOK
<1>5. ScratchesAreFew'
  <2>1. IsFiniteSet(Scratches)
    BY CloseFacts, FS_Subset DEF HaltInv, Scratches
  <2>2. Scratches' = IF pnl = 0 THEN Scratches \cup {n} ELSE Scratches
    BY <1>2, <1>3 DEF Scratches
  <2>3. n \notin Scratches
    BY <1>3 DEF Scratches
  <2>4. /\ Cardinality(Scratches) \in Nat
        /\ Cardinality(Scratches \cup {n}) = Cardinality(Scratches) + 1
    BY <2>1, <2>3, FS_AddElement, FS_CardinalityType
  <2> QED BY <1>1, <2>2, <2>4, HaltBounds DEF HaltInv, ScratchesAreFew
<1>6. ASSUME NEW d \in CloseDays
      PROVE  dayRows'[d].realized - dayRows'[d].fees = TotalOver(Nets', OfDay(d)')
  <2>1. IsFiniteSet(OfDay(d)) /\ n \notin OfDay(d)
    BY <1>3, CloseFacts, FS_Subset DEF HaltInv, OfDay
  <2>2. \A i \in OfDay(d) : Nets[i] \in Int /\ Nets'[i] = Nets[i]
    BY <1>1, <1>3, CloseFacts DEF HaltInv, OfDay, Nets
  <2>3. TotalOver(Nets', OfDay(d)) = TotalOver(Nets, OfDay(d))
    BY <2>1, <2>2, TotalOverSame
  <2>4. Nets'[n] = pnl - CloseFee
    BY <1>2, <1>3 DEF Nets
  <2>5. dayRows[d].realized - dayRows[d].fees = TotalOver(Nets, OfDay(d))
    BY DEF HaltInv, DayIsItsCloses
  <2>6. dayRows[d].realized \in Int /\ dayRows[d].fees \in Int
    BY <1>1
  <2>7. CASE d = day
    <3>1. OfDay(d)' = OfDay(d) \cup {n}
      BY <1>2, <1>3, <2>7 DEF OfDay
    <3>2. TotalOver(Nets', OfDay(d) \cup {n}) = (pnl - CloseFee) + TotalOver(Nets', OfDay(d))
      <4>1. pnl - CloseFee \in Int
        BY <1>1
      <4>2. \A i \in OfDay(d) \cup {n} : Nets'[i] \in Int
        BY <2>2, <2>4, <4>1
      <4> QED BY <2>1, <2>4, <4>2, TotalOverAdd
    <3>3. /\ dayRows'[d].realized = dayRows[d].realized + pnl
          /\ dayRows'[d].fees = dayRows[d].fees + CloseFee
      BY <1>1, <2>7
    <3> QED BY <1>1, <2>3, <2>5, <2>6, <3>1, <3>2, <3>3
  <2>8. CASE d # day
    <3>1. OfDay(d)' = OfDay(d)
      BY <1>2, <1>3, <2>8 DEF OfDay
    <3>2. dayRows'[d] = dayRows[d]
      BY <1>1, <2>8
    <3> QED BY <2>3, <2>5, <3>1, <3>2
  <2> QED BY <2>7, <2>8
<1> QED
  BY <1>4, <1>5, <1>6 DEF HaltInv, DayIsItsCloses

\* Days are booked as they were closed, and few of their closes broke even: each
\* step of LossHalt keeps it.
THEOREM HaltInvariant == HaltSpec => []HaltInv
<1>1. HaltInit => HaltInv
  BY HaltInvInit
<1>2. HaltInv /\ [HaltNext]_haltVars => HaltInv'
  <2> SUFFICES ASSUME HaltInv, [HaltNext]_haltVars PROVE HaltInv'
    OBVIOUS
  <2>1. hour \in 0 .. LastHour
    BY DEF HaltInv, HaltTypeOK
  <2>2. CASE HourPasses
    <3>1. hour' \in 0 .. LastHour
      BY <2>1, <2>2, HaltBounds DEF HourPasses
    <3> QED BY <2>2, <3>1, HourKeeps DEF HourPasses
  <2>3. ASSUME NEW pnl \in Pnl, NEW began \in 0 .. hour, FillCloses(pnl, began)
        PROVE  HaltInv'
    <3>1. began \in Nat /\ LastHour \in Nat /\ began <= LastHour
      BY <2>1, HaltBounds
    <3>2. DayAt(began) \in CloseDays
      BY <3>1, DayAtMonotone DEF CloseDays
    <3> QED BY <2>3, <3>1, <3>2, BookedKeeps DEF FillCloses
  <2>4. ASSUME NEW pnl \in Pnl, NEW began \in 0 .. hour, NEW day \in CloseDays,
               SettlementCloses(pnl, began, day)
        PROVE  HaltInv'
    <3>1. began \in Nat
      BY <2>1
    <3> QED BY <2>4, <3>1, BookedKeeps DEF SettlementCloses
  <2>5. CASE UNCHANGED haltVars
    BY <2>1, <2>5, HourKeeps DEF haltVars
  <2> QED
    BY <2>2, <2>3, <2>4, <2>5 DEF HaltNext
<1> QED
  BY <1>1, <1>2, PTL DEF HaltSpec

-------------------------------------------------------------------------------
(* What a snapshot finds                                                       *)

Won == {i \in DOMAIN closes : closes[i].pnl > 0}
Streak == {i \in DOMAIN closes : closes[i].pnl < 0 /\
              \A w \in Won : closes[w].at < closes[i].at}

\* A query that left a close out returned as many as it may, none of them older.
LEMMA CutIsFull ==
    ASSUME HaltTypeOK, NEW found \in SUBSET (DOMAIN closes), NEW K \in Kept(found),
           NEW j \in found \ K
    PROVE  /\ Cardinality(K) = StreakWindow
           /\ \A i \in K : closes[i].at >= closes[j].at
<1>1. IsFiniteSet(found)
  BY CloseFacts, FS_Subset
<1>2. /\ K \in SUBSET found
      /\ Cardinality(K) = IF Cardinality(found) < StreakWindow THEN Cardinality(found)
                          ELSE StreakWindow
      /\ \A i \in K : \A k \in found \ K : closes[i].at >= closes[k].at
  BY DEF Kept
<1>3. Cardinality(K) # Cardinality(found)
  BY <1>1, <1>2, FS_Subset
<1> QED
  BY <1>2, <1>3

\* As many closes as a query may return, all of them since the last win, hold a
\* whole streak: few of them can have broken even.
LEMMA StreakOfCut ==
    ASSUME HaltInv, NEW K \in SUBSET (DOMAIN closes), Cardinality(K) = StreakWindow,
           NEW j \in Streak, \A i \in K : closes[i].at >= closes[j].at
    PROVE  Cardinality(Streak \cap K) >= After
<1>1. /\ IsFiniteSet(DOMAIN closes) /\ j \in DOMAIN closes
      /\ \A i \in DOMAIN closes : closes[i].pnl \in Int /\ closes[i].at \in Int
      /\ \A w \in Won : closes[w].at < closes[j].at
  BY CloseFacts DEF HaltInv, Streak
<1> DEFINE A == Streak \cap K
           B == Scratches \cap K
<1>2. K \subseteq A \cup B
  <2> SUFFICES ASSUME NEW i \in K PROVE i \in A \cup B
    OBVIOUS
  <2>1. \A w \in Won : closes[w].at < closes[i].at
    BY <1>1 DEF Won
  <2>2. i \notin Won
    BY <1>1, <2>1
  <2> QED BY <1>1, <2>1, <2>2 DEF Won, Streak, Scratches
<1>3. IsFiniteSet(A) /\ IsFiniteSet(B) /\ IsFiniteSet(Scratches) /\ A \cup B = K
  <2>1. A \cup B = K
    BY <1>2
  <2>2. A \in SUBSET (DOMAIN closes) /\ B \in SUBSET (DOMAIN closes)
        /\ Scratches \in SUBSET (DOMAIN closes)
    BY DEF Scratches
  <2> QED BY <1>1, <2>1, <2>2, FS_Subset
<1>4. Cardinality(B) <= Cardinality(Scratches)
  BY <1>3, FS_Subset
<1> HIDE DEF A, B
<1>5. Cardinality(K) = Cardinality(A) + Cardinality(B) - Cardinality(A \cap B)
  BY <1>3, FS_Union
<1>6. /\ Cardinality(A) \in Nat /\ Cardinality(B) \in Nat /\ Cardinality(Scratches) \in Nat
      /\ Cardinality(A \cap B) \in Nat
  <2>1. IsFiniteSet(A \cap B)
    BY <1>3, FS_Subset
  <2> QED BY <1>3, <2>1, FS_CardinalityType
<1>7. Cardinality(Scratches) <= MaxScratches
  BY DEF HaltInv, ScratchesAreFew
<1>8. Cardinality(A) >= After
  BY <1>4, <1>5, <1>6, <1>7, HaltBounds
<1> QED
  BY <1>8 DEF A

\* What may have been left out of a reading.
LEMMA LeftOut ==
    ASSUME HaltInv, NEW F \in Kept(Closing("fill")), NEW S \in Kept(Closing("settlement")),
           NEW j \in Streak, j \notin F \cup S
    PROVE  \E K \in SUBSET (DOMAIN closes) :
              /\ K \subseteq F \cup S /\ Cardinality(K) = StreakWindow
              /\ \A i \in K : closes[i].at >= closes[j].at
<1>1. /\ j \in DOMAIN closes /\ closes[j].pnl \in Int /\ closes[j].pnl < 0
      /\ closes[j].kind \in {"fill", "settlement"}
  BY CloseFacts DEF HaltInv, Streak
<1>2. /\ Closing("fill") \in SUBSET (DOMAIN closes)
      /\ Closing("settlement") \in SUBSET (DOMAIN closes)
      /\ F \subseteq Closing("fill") /\ S \subseteq Closing("settlement")
  BY DEF Closing, Kept
<1>3. CASE closes[j].kind = "fill"
  <2>1. j \in Closing("fill") \ F
    BY <1>1, <1>3 DEF Closing
  <2> QED BY <1>2, <2>1, CutIsFull DEF HaltInv
<1>4. CASE closes[j].kind = "settlement"
  <2>1. j \in Closing("settlement") \ S
    BY <1>1, <1>4 DEF Closing
  <2> QED BY <1>2, <2>1, CutIsFull DEF HaltInv
<1> QED
  BY <1>1, <1>3, <1>4

\* A reading holds enough of the streak.
LEMMA StreakIsFound ==
    ASSUME HaltInv, NEW F \in Kept(Closing("fill")), NEW S \in Kept(Closing("settlement")),
           Cardinality(Streak) >= After
    PROVE  Cardinality(Streak \cap (F \cup S)) >= After
<1>1. CASE Streak \subseteq F \cup S
  <2>1. Streak \cap (F \cup S) = Streak
    BY <1>1
  <2> QED BY <2>1
<1>2. ASSUME NEW j \in Streak, j \notin F \cup S
      PROVE  Cardinality(Streak \cap (F \cup S)) >= After
  <2>1. PICK K \in SUBSET (DOMAIN closes) :
              /\ K \subseteq F \cup S /\ Cardinality(K) = StreakWindow
              /\ \A i \in K : closes[i].at >= closes[j].at
    BY <1>2, LeftOut
  <2>2. Cardinality(Streak \cap K) >= After
    BY <2>1, StreakOfCut
  <2>3. IsFiniteSet(Streak) /\ IsFiniteSet(Streak \cap (F \cup S))
    <3>1. Streak \in SUBSET (DOMAIN closes)
          /\ Streak \cap (F \cup S) \in SUBSET (DOMAIN closes)
      BY DEF Streak
    <3> QED BY <3>1, CloseFacts, FS_Subset DEF HaltInv
  <2>4. Streak \cap K \in SUBSET (Streak \cap (F \cup S))
    BY <2>1
  <2>5. /\ IsFiniteSet(Streak \cap K)
        /\ Cardinality(Streak \cap K) <= Cardinality(Streak \cap (F \cup S))
    BY <2>3, <2>4, FS_Subset
  <2>6. Cardinality(Streak \cap K) \in Nat /\ Cardinality(Streak \cap (F \cup S)) \in Nat
    BY <2>3, <2>5, FS_CardinalityType
  <2> QED BY <2>2, <2>5, <2>6, HaltBounds
<1> QED
  BY <1>1, <1>2

\* A sequence of each member of a set once.
LEMMA SeqOfSet ==
    ASSUME NEW X, IsFiniteSet(X), NEW q \in SetToSeqs(X)
    PROVE  /\ DOMAIN q = 1 .. Cardinality(X) /\ Cardinality(X) \in Nat
           /\ \A i \in DOMAIN q : q[i] \in X
           /\ \A x \in X : \E i \in DOMAIN q : q[i] = x
<1> DEFINE D == 1 .. Cardinality(X)
<1>1. Cardinality(X) \in Nat
  BY FS_CardinalityType
<1>2. q \in [D -> X] /\ \A i, j \in D : i # j => q[i] # q[j]
  BY DEF SetToSeqs
<1>3. IsFiniteSet(D) /\ Cardinality(D) = Cardinality(X)
  BY <1>1, FS_Interval
<1>4. q \in Injection(D, X)
  BY <1>2 DEF Injection, IsInjective
<1>5. q \in Surjection(D, X)
  BY <1>3, <1>4, FS_Injection
<1> QED
  BY <1>1, <1>2, <1>5 DEF Surjection

\* Whatever reading a snapshot gets, it counts the streak it holds, and the newest
\* of its closes is as new as any of the streak.
LEMMA ReadingHalts ==
    ASSUME HaltInv, Cardinality(Streak) >= After,
           NEW F \in Kept(Closing("fill")), NEW S \in Kept(Closing("settlement")),
           NEW q \in SetToSeqs(F \cup S), Sorted(q), NEW i0 \in Streak
    PROVE  LET reading == [i \in DOMAIN q |-> closes[q[i]]]
           IN  /\ ConsecutiveLosses([i \in DOMAIN reading |-> reading[i].pnl]) >= After
               /\ ConsecutiveLosses([i \in DOMAIN reading |-> reading[i].pnl]) \in Nat
               /\ 1 \in DOMAIN q /\ reading[1].at \in Int /\ reading[1].at >= closes[i0].at
<1> DEFINE X == F \cup S
           reading == [i \in DOMAIN q |-> closes[q[i]]]
           pnls == [i \in DOMAIN reading |-> reading[i].pnl]
           counted == {i \in DOMAIN pnls : pnls[i] < 0 /\ \A j \in 1 .. i : pnls[j] <= 0}
<1>1. /\ IsFiniteSet(DOMAIN closes)
      /\ \A i \in DOMAIN closes : closes[i].pnl \in Int /\ closes[i].at \in Int
  BY CloseFacts DEF HaltInv
<1>2. X \in SUBSET (DOMAIN closes) /\ IsFiniteSet(X)
  <2>1. X \in SUBSET (DOMAIN closes)
    BY DEF Kept, Closing
  <2> QED BY <1>1, <2>1, FS_Subset
<1>3. /\ DOMAIN q = 1 .. Cardinality(X) /\ Cardinality(X) \in Nat
      /\ \A i \in DOMAIN q : q[i] \in X
      /\ \A x \in X : \E i \in DOMAIN q : q[i] = x
  BY <1>2, SeqOfSet
<1>4. /\ DOMAIN reading = DOMAIN q /\ DOMAIN pnls = DOMAIN q
      /\ \A i \in DOMAIN q : reading[i] = closes[q[i]] /\ pnls[i] = closes[q[i]].pnl
  OBVIOUS
<1>5. \A a, b \in DOMAIN q : a < b => closes[q[a]].at >= closes[q[b]].at
  <2> SUFFICES ASSUME NEW a \in DOMAIN q, NEW b \in DOMAIN q, a < b
               PROVE  closes[q[a]].at >= closes[q[b]].at
    OBVIOUS
  <2>1. closes[q[a]].at > closes[q[b]].at \/ closes[q[a]].at = closes[q[b]].at
    BY DEF Sorted
  <2>2. closes[q[a]].at \in Int /\ closes[q[b]].at \in Int
    BY <1>1, <1>2, <1>3
  <2> QED BY <2>1, <2>2
<1>6. ConsecutiveLosses(pnls) = Cardinality(counted)
  BY DEF ConsecutiveLosses
<1> HIDE DEF X, reading, pnls
<1>7. counted \in SUBSET (1 .. Cardinality(X)) /\ IsFiniteSet(counted)
      /\ Cardinality(counted) \in Nat
  <2>1. IsFiniteSet(1 .. Cardinality(X))
    BY <1>3, FS_Interval
  <2>2. counted \in SUBSET (1 .. Cardinality(X))
    BY <1>3, <1>4
  <2> HIDE DEF counted
  <2> QED BY <2>1, <2>2, FS_Subset, FS_CardinalityType
<1>8. \A a \in DOMAIN q : q[a] \in Streak => a \in counted
  <2> SUFFICES ASSUME NEW a \in DOMAIN q, q[a] \in Streak PROVE a \in counted
    OBVIOUS
  <2>1. pnls[a] < 0
    BY <1>4 DEF Streak
  <2>2. ASSUME NEW j \in 1 .. a PROVE pnls[j] <= 0
    <3>1. j \in DOMAIN q /\ (j < a \/ j = a)
      BY <1>3
    <3>2. q[j] \in DOMAIN closes /\ closes[q[j]].pnl \in Int
      BY <1>1, <1>2, <1>3, <3>1
    <3>3. closes[q[j]].at >= closes[q[a]].at /\ closes[q[j]].at \in Int /\ closes[q[a]].at \in Int
      BY <1>1, <1>2, <1>3, <1>5, <3>1
    <3>4. q[j] \notin Won
      BY <3>3 DEF Streak
    <3>5. closes[q[j]].pnl <= 0
      BY <3>2, <3>4 DEF Won
    <3> QED BY <1>4, <3>1, <3>5
  <2> QED BY <1>4, <2>1, <2>2
<1> HIDE DEF counted
<1>9. Cardinality(Streak \cap X) <= Cardinality(counted) /\ Cardinality(Streak \cap X) \in Nat
  <2> DEFINE T == Streak \cap X
             place == [x \in T |-> CHOOSE a \in DOMAIN q : q[a] = x]
  <2>1. \A x \in T : place[x] \in DOMAIN q /\ q[place[x]] = x
    BY <1>3
  <2> HIDE DEF place
  <2>2. \A x \in T : place[x] \in counted
    BY <1>8, <2>1
  <2>3. place \in Injection(T, counted)
    <3>1. place \in [T -> counted]
      BY <2>2 DEF place
    <3>2. \A x, y \in T : place[x] = place[y] => x = y
      BY <2>1
    <3> QED BY <3>1, <3>2 DEF Injection, IsInjective
  <2>4. IsFiniteSet(T)
    BY <1>2, FS_Subset
  <2> HIDE DEF T
  <2>5. Cardinality(T) <= Cardinality(counted) /\ Cardinality(T) \in Nat
    BY <1>7, <2>3, <2>4, FS_Injection, FS_CardinalityType
  <2> QED BY <2>5 DEF T
<1>10. Cardinality(Streak \cap X) >= After
  BY StreakIsFound DEF X
<1>11. Cardinality(counted) >= After
  BY <1>7, <1>9, <1>10, HaltBounds
<1>12. \E x \in X : closes[x].at >= closes[i0].at
  <2>1. closes[i0].at \in Int
    BY <1>1 DEF Streak
  <2>2. CASE i0 \in X
    BY <2>1, <2>2
  <2>3. CASE i0 \notin X
    <3>1. PICK K \in SUBSET (DOMAIN closes) :
              /\ K \subseteq X /\ Cardinality(K) = StreakWindow
              /\ \A i \in K : closes[i].at >= closes[i0].at
      BY <2>3, LeftOut DEF X
    <3>2. K # {}
      <4>1. Cardinality({}) = 0 /\ StreakWindow # 0
        BY FS_EmptySet, HaltBounds
      <4> QED BY <3>1, <4>1
    <3> QED BY <3>1, <3>2
  <2> QED BY <2>2, <2>3
<1>13. 1 \in DOMAIN q /\ closes[q[1]].at \in Int /\ closes[q[1]].at >= closes[i0].at
  <2>1. PICK a \in DOMAIN q : closes[q[a]].at >= closes[i0].at
    BY <1>3, <1>12
  <2>2. 1 \in DOMAIN q /\ (1 < a \/ 1 = a)
    BY <1>3
  <2>3. closes[q[1]].at \in Int /\ closes[q[a]].at \in Int /\ closes[i0].at \in Int
    BY <1>1, <1>2, <1>3, <2>2 DEF Streak
  <2>4. closes[q[1]].at >= closes[q[a]].at
    BY <1>5, <2>2, <2>3
  <2> QED BY <2>1, <2>2, <2>3, <2>4
<1>14. /\ ConsecutiveLosses(pnls) >= After /\ ConsecutiveLosses(pnls) \in Nat
       /\ 1 \in DOMAIN q /\ reading[1].at \in Int /\ reading[1].at >= closes[i0].at
  BY <1>4, <1>6, <1>7, <1>11, <1>13
<1> QED
  BY <1>14 DEF reading, pnls

-------------------------------------------------------------------------------
(* Losses halt                                                                 *)

\* In any state of the invariant, a streak whose cooldown runs stops approvals.
LEMMA StreakHalts ==
    ASSUME HaltInv, Cardinality(Streak) >= After,
           NEW i0 \in Streak, hour < closes[i0].at + Cooldown
    PROVE  Halted
<1> SUFFICES ASSUME NEW r \in Readings PROVE Halts(r)
  BY DEF Halted
<1> DEFINE Orders(F, S) == {p \in SetToSeqs(F \cup S) : Sorted(p)}
           AllOrders == UNION {Orders(F, S) : F \in Kept(Closing("fill")),
                                              S \in Kept(Closing("settlement"))}
<1>1. Readings = {[i \in DOMAIN q |-> closes[q[i]]] : q \in AllOrders}
  BY DEF Readings
<1>2. PICK q \in AllOrders : r = [i \in DOMAIN q |-> closes[q[i]]]
  <2> HIDE DEF AllOrders
  <2> QED BY <1>1
<1>3. PICK F \in Kept(Closing("fill")), S \in Kept(Closing("settlement")) :
         q \in SetToSeqs(F \cup S) /\ Sorted(q)
  <2>1. \E F \in Kept(Closing("fill")), S \in Kept(Closing("settlement")) : q \in Orders(F, S)
    <3> HIDE DEF Orders
    <3> QED OBVIOUS
  <2> QED BY <2>1
<1> DEFINE streak == ConsecutiveLosses([i \in DOMAIN r |-> r[i].pnl])
<1>4. /\ streak >= After /\ streak \in Nat
      /\ r[1].at \in Int /\ r[1].at >= closes[i0].at
  BY <1>2, <1>3, ReadingHalts
<1>5. CooldownUntil(r, After, Cooldown, 0)
        = IF streak > 0 /\ streak >= After THEN r[1].at + Cooldown ELSE 0
  BY DEF CooldownUntil
<1> HIDE DEF streak
<1>6. CooldownUntil(r, After, Cooldown, 0) = r[1].at + Cooldown
  BY <1>4, <1>5, HaltBounds
<1>7. hour \in Int /\ closes[i0].at \in Int /\ Cooldown \in Int
  BY CloseFacts, HaltBounds DEF HaltInv, HaltTypeOK, Streak
<1>8. hour < CooldownUntil(r, After, Cooldown, 0)
  BY <1>4, <1>6, <1>7
<1> QED
  BY <1>8 DEF Halts

\* A day that lost its limit after fees stops approvals.
LEMMA DayHalts ==
    ASSUME HaltInv, LossLimit > 0, TotalOver(Nets, OfDay(DayAt(hour))) <= -LossLimit
    PROVE  Halted
<1>1. DayAt(hour) \in CloseDays
  BY DayAtMonotone, HaltBounds DEF HaltInv, HaltTypeOK, CloseDays
<1>2. Today.realized - Today.fees <= -LossLimit
  BY <1>1 DEF HaltInv, DayIsItsCloses, Today
<1>3. DailyLossBreached(Today.realized, Today.fees, LossLimit)
  BY <1>2 DEF DailyLossBreached
<1> QED
  BY <1>3 DEF Halted, Halts

\* Losses stop the desk in every reachable state: no approval passes during the
\* cooldown of a streak or on a day that lost its limit.
THEOREM LossesAlwaysHalt == HaltSpec => []LossesHalt
<1>1. ASSUME HaltInv PROVE LossesHalt
  <2>1. (Cardinality(Streak) >= After /\ \E i \in Streak : hour < closes[i].at + Cooldown)
            => Halted
    BY <1>1, StreakHalts
  <2>2. (LossLimit > 0 /\ TotalOver(Nets, OfDay(DayAt(hour))) <= -LossLimit) => Halted
    BY <1>1, DayHalts
  <2> QED BY <2>1, <2>2 DEF LossesHalt, Streak, Won, Nets, OfDay
<1> QED
  BY <1>1, HaltInvariant, PTL

===============================================================================
