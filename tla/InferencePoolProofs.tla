------------------------ MODULE InferencePoolProofs ------------------------
(***************************************************************************)
(* Proofs about the TAP escrow for every set of addresses, roots, spends   *)
(* and amounts.  TypeOK and Solvency are inductive together; the bound on  *)
(* the burn needs BurnWithinTenth, which a growing spend preserves.        *)
(***************************************************************************)
EXTENDS MayhemInferencePool, TLAPS

\* Every call of the pool keeps its records well typed: a proposal is stored for an
\* epoch that exists, and no subtraction of the accounting underflows.
THEOREM PoolTypeCorrect == Spec => []TypeOK
<1>1. Init => TypeOK
  BY PoolAssumption
  DEF Init, TypeOK, NoRoot, NoMaxEpochDelta, NoRescue, RootProposal, RootPending
<1>2. TypeOK /\ [Next]_vars => TypeOK'
  <2> SUFFICES ASSUME TypeOK, [Next]_vars PROVE TypeOK'
    OBVIOUS
  <2> USE PoolAssumption DEF RootProposal, RootPending, ownership, governance,
        distribution, accounting
  <2>1. ASSUME NEW a \in OwnerCandidate, transferOwnership(a) \/ acceptOwnership(a)
        PROVE  TypeOK'
    BY <2>1 DEF TypeOK, transferOwnership, acceptOwnership
  <2>2. CASE Sign
    BY <2>2 DEF TypeOK, Sign, signRootProposal, signMaxEpochDeltaProposal,
                signRescueProposal
  <2>3. ASSUME NEW newMax \in CapChoice, proposeMaxEpochDelta(newMax) PROVE TypeOK'
    BY <2>3 DEF TypeOK, proposeMaxEpochDelta, NoCapOrRootPending, ExecuteAfter
  <2>4. CASE executeMaxEpochDelta
    BY <2>4 DEF TypeOK, executeMaxEpochDelta, NoMaxEpochDelta
  <2>5. ASSUME NEW root \in Roots, NEW e \in Epoch, NEW spent \in Spend,
               proposeRoot(root, e, spent)
        PROVE  TypeOK'
    BY <2>5 DEF TypeOK, proposeRoot, PendingRoot, NoCapOrRootPending, ExecuteAfter
  <2>6. CASE executeRoot
    BY <2>6 DEF TypeOK, executeRoot, NoRoot
  <2>7. ASSUME NEW to \in Address, NEW amount \in Amount, proposeRescue(to, amount)
        PROVE  TypeOK'
    BY <2>7 DEF TypeOK, proposeRescue, ExecuteAfter
  <2>8. CASE executeRescue
    BY <2>8 DEF TypeOK, executeRescue, Transfer, NoRescue
  <2>9. CASE Fund
    <3>1. PICK amount \in Amount : \/ \E fee \in Fee : deposit(amount, amount - fee)
                                  \/ DirectTransfer(amount)
      BY <2>9 DEF Fund
    <3>2. ASSUME NEW fee \in Fee, deposit(amount, amount - fee)
          PROVE  TypeOK'
      <4>1. amount \in Nat /\ fee \in Nat
        BY PoolAssumption
      <4> QED
        BY <3>2, <4>1 DEF TypeOK, deposit, Credit
    <3>3. CASE DirectTransfer(amount)
      BY <3>3, PoolAssumption DEF TypeOK, DirectTransfer
    <3> QED
      BY <3>1, <3>2, <3>3
  <2>10. ASSUME NEW e \in Epoch, NEW leaf \in merkleRootAtEpoch[e],
                claim(e, leaf[1], leaf[2])
         PROVE  TypeOK'
    <3>0. leaf \in Address \X Nat
      BY <2>10 DEF TypeOK
    <3>1. leaf[1] \in Address /\ leaf[2] \in Nat
      BY <3>0
    <3>2. leaf[2] - claimed[leaf[1]] \in Nat
      BY <2>10, <3>1 DEF TypeOK, claim
    <3>3. poolBalance' \in Nat
      BY <2>10, <3>1, <3>2 DEF TypeOK, claim, Transfer
    <3> QED
      BY <2>10, <3>1, <3>2, <3>3 DEF TypeOK, claim
  <2>11. ASSUME NEW to \in Address, NEW amount \in Amount, withdrawOperator(to, amount)
         PROVE  TypeOK'
    BY <2>11 DEF TypeOK, withdrawOperator, Transfer
  <2>12. CASE burn
    <3>1. burnClaimable \in Int
      BY DEF TypeOK, burnClaimable, BurnCap, ProviderCap, OperatorCap, BPS,
             PROVIDER_BPS, OPERATOR_BPS
    <3> QED
      BY <2>12, <3>1 DEF TypeOK, burn
  <2>13. CASE Tick
    BY <2>13 DEF TypeOK, Tick
  <2>14. CASE UNCHANGED vars
    BY <2>14 DEF TypeOK, vars
  <2> QED
    BY <2>1, <2>2, <2>3, <2>4, <2>5, <2>6, <2>7, <2>8, <2>9, <2>10, <2>11, <2>12,
       <2>13, <2>14 DEF Next
<1> QED
  BY <1>1, <1>2, PTL DEF Spec

----------------------------------------------------------------------------
\* The bounds on the shares of a spend that the floors leave.
LEMMA ShareBounds ==
    ASSUME NEW s \in Nat
    PROVE  /\ ProviderCap(s) \in Nat /\ 4 * ProviderCap(s) <= 3 * s
           /\ 3 * s <= 4 * ProviderCap(s) + 3
           /\ OperatorCap(s) \in Nat /\ 20 * OperatorCap(s) <= 3 * s
           /\ 3 * s <= 20 * OperatorCap(s) + 19
           /\ BurnCap(s) \in Int
           /\ 20 * BurnCap(s) >= 2 * s
           /\ 20 * BurnCap(s) <= 2 * s + 34
<1>1. /\ ProviderCap(s) \in Nat /\ 4 * ProviderCap(s) <= 3 * s
      /\ 3 * s <= 4 * ProviderCap(s) + 3
  BY DEF ProviderCap, PROVIDER_BPS, BPS
<1>2. /\ OperatorCap(s) \in Nat /\ 20 * OperatorCap(s) <= 3 * s
      /\ 3 * s <= 20 * OperatorCap(s) + 19
  BY DEF OperatorCap, OPERATOR_BPS, BPS
<1> QED
  BY <1>1, <1>2 DEF BurnCap

\* The operator's cap never falls when the declared spend grows.
LEMMA OperatorCapMonotone ==
    ASSUME NEW s \in Nat, NEW t \in Nat, s <= t
    PROVE  OperatorCap(s) <= OperatorCap(t)
BY DEF OperatorCap, OPERATOR_BPS, BPS

----------------------------------------------------------------------------
\* Strengthening of SplitWithinOneWei: a burn is bounded by the largest BurnCap
\* up to the present spend, and growing the spend keeps the bound.
BurnWithinTenth == 20 * totalBurned <= 2 * cumulativeSpent + 34

SharesInv == Solvency /\ OperatorWithinCap /\ BurnWithinTenth

\* Every step keeps the escrow solvent and its fee and burn within their shares.
LEMMA SharesStep ==
    ASSUME TypeOK, SharesInv, [Next]_vars
    PROVE  SharesInv'
<1> USE PoolAssumption DEF ownership, governance, distribution, accounting
<1> DEFINE Escrow == <<distribution, accounting, poolBalance>>
<1>0. ASSUME UNCHANGED Escrow PROVE SharesInv'
  BY <1>0 DEF SharesInv, Solvency, Outflow, OperatorWithinCap, OperatorCap,
              BurnWithinTenth
<1>1. ASSUME NEW a \in OwnerCandidate, transferOwnership(a) \/ acceptOwnership(a)
      PROVE  SharesInv'
  BY <1>0, <1>1 DEF transferOwnership, acceptOwnership
<1>2. CASE Sign
  BY <1>0, <1>2 DEF Sign, signRootProposal, signMaxEpochDeltaProposal,
                    signRescueProposal
<1>3. ASSUME NEW newMax \in CapChoice, proposeMaxEpochDelta(newMax) PROVE SharesInv'
  BY <1>0, <1>3 DEF proposeMaxEpochDelta, NoCapOrRootPending
<1>4. CASE executeMaxEpochDelta
  BY <1>0, <1>4 DEF executeMaxEpochDelta
<1>5. ASSUME NEW root \in Roots, NEW e \in Epoch, NEW spent \in Spend,
             proposeRoot(root, e, spent)
      PROVE  SharesInv'
  BY <1>0, <1>5 DEF proposeRoot
<1>6. CASE executeRoot
  <2>1. cumulativeSpent' \in Nat /\ cumulativeSpent <= cumulativeSpent'
    BY <1>6 DEF executeRoot, RootExecutable, ValidateRoot, TypeOK, RootProposal
  <2>2. OperatorWithinCap'
    <3>1. OperatorCap(cumulativeSpent) <= OperatorCap(cumulativeSpent')
      BY <2>1, OperatorCapMonotone DEF TypeOK
    <3>2. OperatorCap(cumulativeSpent) \in Nat /\ OperatorCap(cumulativeSpent') \in Nat
      BY <2>1, ShareBounds DEF TypeOK
    <3>3. operatorWithdrawn' <= OperatorCap(cumulativeSpent')
      BY <1>6, <3>1, <3>2 DEF executeRoot, SharesInv, OperatorWithinCap, TypeOK
    <3> QED
      BY <3>3 DEF OperatorWithinCap, OperatorCap
  <2>3. BurnWithinTenth'
    BY <1>6, <2>1 DEF executeRoot, SharesInv, BurnWithinTenth, TypeOK
  <2> QED
    BY <1>6, <2>2, <2>3 DEF SharesInv, executeRoot, Solvency, Outflow
<1>7. ASSUME NEW to \in Address, NEW amount \in Amount, proposeRescue(to, amount)
      PROVE  SharesInv'
  BY <1>0, <1>7 DEF proposeRescue
<1>8. CASE executeRescue
  <2>1. Solvency'
    BY <1>8 DEF executeRescue, Transfer, rescuableSurplus, SharesInv, Solvency, Outflow,
                TypeOK
  <2> QED
    BY <1>8, <2>1 DEF executeRescue, SharesInv, OperatorWithinCap, OperatorCap,
                      BurnWithinTenth
<1>9. CASE Fund
  <2>1. Solvency'
    <3>1. PICK amount \in Amount : \/ \E fee \in Fee : deposit(amount, amount - fee)
                                  \/ DirectTransfer(amount)
      BY <1>9 DEF Fund
    <3>2. ASSUME NEW fee \in Fee, deposit(amount, amount - fee)
          PROVE  Solvency'
      <4>1. amount \in Nat /\ fee \in Nat
        BY PoolAssumption
      <4> QED
        BY <3>2, <4>1 DEF deposit, Credit, SharesInv, Solvency, Outflow, TypeOK
    <3>3. CASE DirectTransfer(amount)
      BY <3>3, PoolAssumption DEF DirectTransfer, SharesInv, Solvency, Outflow, TypeOK
    <3> QED
      BY <3>1, <3>2, <3>3
  <2> QED
    BY <1>9, <2>1 DEF Fund, deposit, Credit, DirectTransfer, SharesInv, OperatorWithinCap,
                      OperatorCap, BurnWithinTenth
<1>10. ASSUME NEW e \in Epoch, NEW leaf \in merkleRootAtEpoch[e],
              claim(e, leaf[1], leaf[2])
       PROVE  SharesInv'
  <2>0. leaf \in Address \X Nat
    BY <1>10 DEF TypeOK
  <2>1. leaf[2] \in Nat /\ claimed[leaf[1]] \in Nat
    BY <2>0 DEF TypeOK
  <2>2. Solvency'
    BY <1>10, <2>1 DEF claim, Backed, Transfer, SharesInv, Solvency, Outflow, TypeOK
  <2> QED
    BY <1>10, <2>2 DEF claim, SharesInv, OperatorWithinCap, OperatorCap, BurnWithinTenth
<1>11. ASSUME NEW to \in Address, NEW amount \in Amount, withdrawOperator(to, amount)
       PROVE  SharesInv'
  <2>1. OperatorCap(cumulativeSpent) \in Nat
    BY ShareBounds DEF TypeOK
  <2>2. Solvency'
    BY <1>11 DEF withdrawOperator, Backed, Transfer, SharesInv, Solvency, Outflow, TypeOK
  <2>3. operatorWithdrawn' <= OperatorCap(cumulativeSpent)
    BY <1>11, <2>1 DEF withdrawOperator, Backed, operatorClaimable, SharesInv,
                       OperatorWithinCap, TypeOK
  <2> QED
    BY <1>11, <2>2, <2>3 DEF withdrawOperator, SharesInv, OperatorWithinCap, OperatorCap,
                             BurnWithinTenth
<1>12. CASE burn
  <2>1. /\ BurnCap(cumulativeSpent) \in Int
        /\ 20 * BurnCap(cumulativeSpent) <= 2 * cumulativeSpent + 34
    BY ShareBounds DEF TypeOK
  <2>2. burnClaimable \in Int
    BY <2>1 DEF burnClaimable, TypeOK
  <2>3. Solvency'
    BY <1>12, <2>2 DEF burn, Backed, SharesInv, Solvency, Outflow, TypeOK
  <2>4. BurnWithinTenth'
    BY <1>12, <2>1 DEF burn, burnClaimable, BurnWithinTenth, TypeOK
  <2> QED
    BY <1>12, <2>3, <2>4 DEF burn, SharesInv, OperatorWithinCap, OperatorCap
<1>13. CASE Tick
  BY <1>0, <1>13 DEF Tick
<1>14. CASE UNCHANGED vars
  BY <1>0, <1>14 DEF vars
<1> QED
  BY <1>1, <1>2, <1>3, <1>4, <1>5, <1>6, <1>7, <1>8, <1>9, <1>10, <1>11, <1>12,
     <1>13, <1>14 DEF Next

\* The shares' invariant holds in every behaviour.
LEMMA SharesInvariant == Spec => []SharesInv
<1>1. Init => SharesInv
  BY DEF Init, SharesInv, Solvency, Outflow, OperatorWithinCap, OperatorCap,
         BurnWithinTenth, BPS, OPERATOR_BPS
<1> QED
  BY <1>1, SharesStep, PoolTypeCorrect, PTL DEF Spec

\* Whatever roots governance signs and however deposits, direct transfers, claims,
\* withdrawals, burns and rescues interleave, outflow never exceeds deposits and
\* the tokens held cover the escrow.
THEOREM PoolSolvent == Spec => []Solvency
BY SharesInvariant, PTL DEF SharesInv

\* The operator never takes more than 15% of the declared spend (operatorClaimable).
THEOREM OperatorCapped == Spec => []OperatorWithinCap
BY SharesInvariant, PTL DEF SharesInv

\* The three shares of a spend overlap by at most one wei (burnClaimable).
THEOREM SharesNearlyDisjoint == Spec => []SplitWithinOneWei
<1>1. TypeOK /\ SharesInv => SplitWithinOneWei
  <2> SUFFICES ASSUME TypeOK, SharesInv PROVE SplitWithinOneWei
    OBVIOUS
  <2>1. /\ ProviderCap(cumulativeSpent) \in Nat /\ OperatorCap(cumulativeSpent) \in Nat
        /\ 4 * ProviderCap(cumulativeSpent) <= 3 * cumulativeSpent
        /\ 20 * OperatorCap(cumulativeSpent) <= 3 * cumulativeSpent
    BY ShareBounds DEF TypeOK
  <2> QED
    BY <2>1 DEF SharesInv, BurnWithinTenth, SplitWithinOneWei, TypeOK
<1> QED
  BY <1>1, SharesInvariant, PoolTypeCorrect, PTL
----------------------------------------------------------------------------
\* A step that leaves proposals, distribution and deposits alone, and only lets
\* value out of the accounted escrow, keeps every pending proposal executable.
LEMMA StallsFrame ==
    ASSUME TypeOK, GovernanceNeverStalls,
           UNCHANGED <<governance, distribution>>,
           totalDeposited' >= totalDeposited, totalDeposited' \in Nat,
           rescuableSurplus' >= rescuableSurplus, rescuableSurplus \in Nat,
           rescuableSurplus' \in Nat, rescuableSurplus' <= poolBalance',
           poolBalance' \in Nat
    PROVE  GovernanceNeverStalls'
<1> USE DEF TypeOK, RootProposal, governance, distribution, RootPending,
        MaxEpochDeltaPending, RescuePending
<1>1. (RootPending => RootExecutable /\ ~MaxEpochDeltaPending)'
  BY DEF GovernanceNeverStalls, RootExecutable, ValidateRoot
<1>2. (MaxEpochDeltaPending => ValidMaxEpochDelta(pendingMaxEpochDelta.newMaxEpochDelta))'
  BY DEF GovernanceNeverStalls, ValidMaxEpochDelta
<1>3. (RescuePending => /\ pendingRescue.amount <= rescuableSurplus
                        /\ pendingRescue.amount <= poolBalance)'
  <2> SUFFICES ASSUME RescuePending'
      PROVE /\ pendingRescue.amount <= rescuableSurplus'
            /\ pendingRescue.amount <= poolBalance'
    BY DEF GovernanceNeverStalls
  <2>1. pendingRescue.amount <= rescuableSurplus /\ pendingRescue.amount \in Nat
    BY DEF GovernanceNeverStalls
  <2> QED
    BY <2>1
<1> QED
  BY <1>1, <1>2, <1>3 DEF GovernanceNeverStalls

\* Solvency makes the surplus the plain difference of balance and escrow.
LEMMA SurplusIsDifference ==
    ASSUME TypeOK, Solvency
    PROVE  /\ rescuableSurplus = poolBalance - (totalDeposited - Outflow)
           /\ rescuableSurplus \in Nat
           /\ rescuableSurplus <= poolBalance
BY DEF TypeOK, Solvency, Outflow, rescuableSurplus

\* Every step, a new proposal included, keeps every pending proposal executable.
LEMMA StallsStep ==
    ASSUME TypeOK, TypeOK', Solvency, Solvency', GovernanceNeverStalls, [Next]_vars
    PROVE  GovernanceNeverStalls'
<1> USE PoolAssumption DEF ownership, governance, distribution, accounting
<1> DEFINE Surplus == poolBalance - (totalDeposited - Outflow)
<1>a. /\ rescuableSurplus = Surplus /\ rescuableSurplus \in Nat
      /\ rescuableSurplus <= poolBalance
  BY SurplusIsDifference
<1>b. /\ rescuableSurplus' = Surplus' /\ rescuableSurplus' \in Nat
      /\ rescuableSurplus' <= poolBalance'
  <2>1. (TypeOK /\ Solvency => /\ rescuableSurplus = Surplus /\ rescuableSurplus \in Nat
                              /\ rescuableSurplus <= poolBalance)'
    BY SurplusIsDifference, PTL
  <2> QED
    BY <2>1
<1>f. ASSUME UNCHANGED <<governance, distribution>>, totalDeposited' >= totalDeposited,
             Surplus' >= Surplus
      PROVE  GovernanceNeverStalls'
  <2>1. totalDeposited' \in Nat /\ poolBalance' \in Nat
    BY DEF TypeOK
  <2>2. rescuableSurplus' >= rescuableSurplus
    BY <1>a, <1>b, <1>f
  <2> QED
    BY <1>a, <1>b, <1>f, <2>1, <2>2, StallsFrame
<1>z. ASSUME UNCHANGED <<governance, distribution, accounting, poolBalance>>
      PROVE  GovernanceNeverStalls'
  BY <1>f, <1>z, <1>a, <1>b DEF Outflow, TypeOK
<1>1. ASSUME NEW a \in OwnerCandidate, transferOwnership(a) \/ acceptOwnership(a)
      PROVE  GovernanceNeverStalls'
  BY <1>z, <1>1 DEF transferOwnership, acceptOwnership
<1>2. CASE Sign
  BY <1>z, <1>2 DEF Sign, signRootProposal, signMaxEpochDeltaProposal,
                    signRescueProposal
<1>3. ASSUME NEW newMax \in CapChoice, proposeMaxEpochDelta(newMax)
      PROVE  GovernanceNeverStalls'
  <2>1. UNCHANGED <<rescuableSurplus, poolBalance, pendingRescue>>
    BY <1>3 DEF proposeMaxEpochDelta, NoCapOrRootPending, rescuableSurplus
  <2>2. ~RootPending' /\ ValidMaxEpochDelta(newMax) /\ newMax \in Nat
    BY <1>3 DEF proposeMaxEpochDelta, NoCapOrRootPending, RootPending
  <2>3. pendingMaxEpochDelta'.newMaxEpochDelta = newMax
    BY <1>3 DEF proposeMaxEpochDelta, NoCapOrRootPending
  <2> QED
    BY <2>1, <2>2, <2>3 DEF GovernanceNeverStalls, ValidMaxEpochDelta, RescuePending
<1>4. CASE executeMaxEpochDelta
  <2>1. UNCHANGED <<rescuableSurplus, poolBalance, pendingRescue>>
    BY <1>4 DEF executeMaxEpochDelta, rescuableSurplus
  <2>2. ~RootPending' /\ ~MaxEpochDeltaPending'
    BY <1>4 DEF executeMaxEpochDelta, RootPending, MaxEpochDeltaPending, NoMaxEpochDelta
  <2> QED
    BY <2>1, <2>2 DEF GovernanceNeverStalls, RescuePending
<1>5. ASSUME NEW root \in Roots, NEW e \in Epoch, NEW spent \in Spend,
             proposeRoot(root, e, spent)
      PROVE  GovernanceNeverStalls'
  <2>1. UNCHANGED <<rescuableSurplus, poolBalance, pendingRescue>>
    BY <1>5 DEF proposeRoot, PendingRoot, NoCapOrRootPending, rescuableSurplus
  <2>2. ~MaxEpochDeltaPending'
    BY <1>5 DEF proposeRoot, PendingRoot, NoCapOrRootPending, MaxEpochDeltaPending
  <2>3. RootExecutable'
    BY <1>5 DEF proposeRoot, PendingRoot, NoCapOrRootPending, RootExecutable, ValidateRoot
  <2> QED
    BY <2>1, <2>2, <2>3 DEF GovernanceNeverStalls, RescuePending
<1>6. CASE executeRoot
  <2>1. UNCHANGED <<rescuableSurplus, poolBalance, pendingRescue, pendingMaxEpochDelta>>
    BY <1>6 DEF executeRoot, rescuableSurplus
  <2>2. ~RootPending'
    BY <1>6 DEF executeRoot, RootPending, NoRoot
  <2> QED
    BY <2>1, <2>2 DEF GovernanceNeverStalls, RescuePending, MaxEpochDeltaPending,
                      ValidMaxEpochDelta
<1>7. ASSUME NEW to \in Address, NEW amount \in Amount, proposeRescue(to, amount)
      PROVE  GovernanceNeverStalls'
  <2>1. UNCHANGED <<rescuableSurplus, poolBalance, pendingRoot, pendingMaxEpochDelta,
                    RootPending, RootExecutable, MaxEpochDeltaPending>>
    BY <1>7 DEF proposeRescue, rescuableSurplus, RootPending, MaxEpochDeltaPending,
                RootExecutable, ValidateRoot
  <2>2. amount <= rescuableSurplus /\ amount \in Nat /\ pendingRescue'.amount = amount
    BY <1>7 DEF proposeRescue
  <2>3. amount <= poolBalance
    BY <1>a, <2>2 DEF TypeOK
  <2> QED
    BY <2>1, <2>2, <2>3 DEF GovernanceNeverStalls, ValidMaxEpochDelta
<1>8. CASE executeRescue
  <2>1. UNCHANGED <<pendingRoot, pendingMaxEpochDelta, RootPending, RootExecutable,
                    MaxEpochDeltaPending>>
    BY <1>8 DEF executeRescue, RootPending, MaxEpochDeltaPending, RootExecutable,
                ValidateRoot
  <2>2. ~RescuePending'
    BY <1>8 DEF executeRescue, RescuePending, NoRescue
  <2> QED
    BY <2>1, <2>2 DEF GovernanceNeverStalls, ValidMaxEpochDelta
<1>9. CASE Fund
  <2>1. PICK amount \in Amount : \/ \E fee \in Fee : deposit(amount, amount - fee)
                                \/ DirectTransfer(amount)
    BY <1>9 DEF Fund
  <2>2. UNCHANGED <<governance, distribution, Outflow>>
    BY <2>1 DEF deposit, Credit, DirectTransfer, Outflow
  <2>3. totalDeposited' >= totalDeposited /\ Surplus' >= Surplus
    <3>1. amount \in Nat /\ Outflow \in Nat
      BY DEF TypeOK, Outflow
    <3>2. ASSUME NEW fee \in Fee, deposit(amount, amount - fee)
          PROVE  totalDeposited' >= totalDeposited /\ Surplus' >= Surplus
      BY <2>2, <3>1, <3>2, PoolAssumption DEF deposit, Credit, TypeOK
    <3>3. ASSUME DirectTransfer(amount)
          PROVE  totalDeposited' >= totalDeposited /\ Surplus' >= Surplus
      BY <2>2, <3>1, <3>3 DEF DirectTransfer, TypeOK
    <3> QED
      BY <2>1, <3>2, <3>3
  <2> QED
    BY <1>f, <2>2, <2>3
<1>10. ASSUME NEW e \in Epoch, NEW leaf \in merkleRootAtEpoch[e],
              claim(e, leaf[1], leaf[2])
       PROVE  GovernanceNeverStalls'
  <2>0. leaf \in Address \X Nat
    BY <1>10 DEF TypeOK
  <2>1. leaf[2] \in Nat /\ claimed[leaf[1]] \in Nat
    BY <2>0 DEF TypeOK
  <2> QED
    BY <1>f, <1>10, <2>1 DEF claim, Backed, Transfer, Outflow, TypeOK
<1>11. ASSUME NEW to \in Address, NEW amount \in Amount, withdrawOperator(to, amount)
       PROVE  GovernanceNeverStalls'
  BY <1>f, <1>11 DEF withdrawOperator, Backed, Transfer, Outflow, TypeOK
<1>12. CASE burn
  <2>1. burnClaimable \in Int
    BY ShareBounds DEF burnClaimable, TypeOK
  <2> QED
    BY <1>f, <1>12, <2>1 DEF burn, Outflow, TypeOK
<1>13. CASE Tick
  BY <1>z, <1>13 DEF Tick
<1>14. CASE UNCHANGED vars
  BY <1>z, <1>14 DEF vars
<1> QED
  BY <1>1, <1>2, <1>3, <1>4, <1>5, <1>6, <1>7, <1>8, <1>9, <1>10, <1>11, <1>12,
     <1>13, <1>14 DEF Next

\* No sequence of deposits, payouts, owner rotations and other proposals makes a
\* pending proposal unexecutable: the pool has no cancel and needs none.
THEOREM PendingStaysExecutable == Spec => []GovernanceNeverStalls
<1>1. Init => GovernanceNeverStalls
  BY DEF Init, GovernanceNeverStalls, RootPending, MaxEpochDeltaPending, RescuePending,
         NoRoot, NoMaxEpochDelta, NoRescue
<1> QED
  BY <1>1, StallsStep, PoolTypeCorrect, PoolSolvent, PTL DEF Spec
----------------------------------------------------------------------------
\* Strengthening of ClaimsMatchRoots: only epochs up to the present one are posted, so
\* executeRoot, which moves the epoch up, never replaces a root somebody claimed under.
PostedInv ==
    /\ \A e \in Epoch : merkleRootAtEpoch[e] # {} => e <= epoch
    /\ ClaimsMatchRoots

\* Every step keeps each account's claim the amount of a posted leaf.
LEMMA PostedStep ==
    ASSUME TypeOK, PostedInv, [Next]_vars
    PROVE  PostedInv'
<1> USE DEF ownership, governance, distribution, accounting
<1>z. ASSUME UNCHANGED <<distribution, claimed>> PROVE PostedInv'
  BY <1>z DEF PostedInv, ClaimsMatchRoots
<1>1. CASE executeRoot
  <2>1. pendingRoot.newEpoch > epoch /\ pendingRoot.newEpoch \in Epoch /\ Epoch \subseteq Nat
    BY <1>1, PoolAssumption DEF executeRoot, RootExecutable, ValidateRoot, TypeOK
  <2>2. /\ epoch' = pendingRoot.newEpoch /\ UNCHANGED claimed
        /\ merkleRootAtEpoch' =
               [merkleRootAtEpoch EXCEPT ![pendingRoot.newEpoch] = pendingRoot.merkleRoot]
    BY <1>1 DEF executeRoot
  <2>3. ASSUME NEW e \in Epoch, merkleRootAtEpoch[e] # {}
        PROVE  e <= epoch /\ merkleRootAtEpoch'[e] = merkleRootAtEpoch[e]
    BY <2>1, <2>2, <2>3 DEF PostedInv, TypeOK
  <2>4. ASSUME NEW e \in Epoch, merkleRootAtEpoch'[e] # {} PROVE e <= epoch'
    <3>1. CASE e = pendingRoot.newEpoch
      BY <2>1, <2>2, <3>1
    <3>2. CASE e # pendingRoot.newEpoch
      <4>1. merkleRootAtEpoch[e] # {}
        BY <2>2, <2>4, <3>2 DEF TypeOK
      <4>2. e <= epoch /\ e \in Nat /\ epoch \in Nat /\ pendingRoot.newEpoch \in Nat
        BY <4>1, <2>1, <2>3 DEF TypeOK
      <4> QED
        BY <4>2, <2>1, <2>2
    <3> QED
      BY <3>1, <3>2
  <2>5. ClaimsMatchRoots'
    <3> SUFFICES ASSUME NEW a \in Address, claimed[a] # 0
                 PROVE  \E e \in Epoch : <<a, claimed[a]>> \in merkleRootAtEpoch'[e]
      BY <2>2 DEF ClaimsMatchRoots
    <3>1. PICK e \in Epoch : <<a, claimed[a]>> \in merkleRootAtEpoch[e]
      BY DEF PostedInv, ClaimsMatchRoots
    <3> QED
      BY <3>1, <2>3
  <2> QED
    BY <2>4, <2>5 DEF PostedInv
<1>2. ASSUME NEW e \in Epoch, NEW leaf \in merkleRootAtEpoch[e], claim(e, leaf[1], leaf[2])
      PROVE  PostedInv'
  <2>1. leaf \in Address \X Nat
    BY DEF TypeOK
  <2>2. leaf = <<leaf[1], leaf[2]>> /\ leaf[1] \in Address
    BY <2>1
  <2>3. claimed' = [claimed EXCEPT ![leaf[1]] = leaf[2]] /\ UNCHANGED distribution
    BY <1>2 DEF claim
  <2>4. ClaimsMatchRoots'
    <3> SUFFICES ASSUME NEW a \in Address, claimed'[a] # 0
                 PROVE  \E d \in Epoch : <<a, claimed'[a]>> \in merkleRootAtEpoch[d]
      BY <2>3 DEF ClaimsMatchRoots
    <3>1. CASE a = leaf[1]
      BY <2>2, <2>3, <3>1 DEF TypeOK
    <3>2. CASE a # leaf[1]
      BY <2>2, <2>3, <3>2 DEF TypeOK, PostedInv, ClaimsMatchRoots
    <3> QED
      BY <3>1, <3>2
  <2> QED
    BY <2>3, <2>4 DEF PostedInv
<1>3. ASSUME ~executeRoot,
             ~(\E e \in Epoch : \E leaf \in merkleRootAtEpoch[e] : claim(e, leaf[1], leaf[2]))
      PROVE  UNCHANGED <<distribution, claimed>>
  BY <1>3 DEF Next, vars, transferOwnership, acceptOwnership, Sign, signRootProposal,
     signMaxEpochDeltaProposal, signRescueProposal, proposeMaxEpochDelta,
     executeMaxEpochDelta, proposeRoot, proposeRescue, executeRescue, Fund, deposit,
     DirectTransfer, withdrawOperator, burn, Tick
<1> QED
  BY <1>1, <1>2, <1>3, <1>z

\* Whatever roots are posted, and through whichever of them an account claims in whatever
\* order, it has claimed exactly the amount of some posted leaf.
THEOREM ClaimsAreRooted == Spec => []ClaimsMatchRoots
<1>1. Init => PostedInv
  BY DEF Init, PostedInv, ClaimsMatchRoots
<1>2. PostedInv => ClaimsMatchRoots
  BY DEF PostedInv
<1> QED
  BY <1>1, <1>2, PostedStep, PoolTypeCorrect, PTL DEF Spec
=============================================================================
