------------------------ MODULE MayhemInferencePool ------------------------
(***************************************************************************)
(* The TAP escrow contract, contracts/src/MayhemInferencePool.sol: buyers  *)
(* prepay TAP, the owner posts cumulative distribution roots that carry an *)
(* independent governance signature and execute after a delay, and value   *)
(* leaves by three legs only: claims, the operator fee and the burn.       *)
(*                                                                         *)
(* A transaction that reverts changes nothing, so every `require` is a     *)
(* conjunct of the action's guard.  A Merkle root is the set of leaves     *)
(* <<account, cumulativeAmount>> it commits to (the empty set stands for   *)
(* bytes32(0)); a proof verifies exactly when the leaf is in the set.      *)
(* The public merkleRoot is merkleRootAtEpoch[epoch].  Amounts are uint256:*)
(* the token's supply keeps them far below 2^256.  Definitions marked      *)
(* "Mutant" are faulty variants that the named properties must catch; no   *)
(* action uses them.                                                       *)
(***************************************************************************)
EXTENDS Integers, FiniteSets

CONSTANTS
    Address,              \* every address a call may name
    ZeroAddress,          \* address(0)
    PoolAddress,          \* address(this)
    GovernanceSigner,     \* immutable governanceSigner
    InitialOwner,         \* constructor argument _owner
    GovernanceDelay,      \* immutable governanceDelay
    InitialMaxEpochDelta, \* constructor argument _maxEpochDelta
    LocalChain,           \* _isLocalDevelopmentChain()
    MaxTime,              \* the last representable executeAfter
    Epoch,                \* the epochs a root may be posted for
    Roots,                \* the roots a proposal may carry
    Spend,                \* the cumulative spends a proposal may declare
    CapChoice,            \* the caps a proposal may set
    Amount,               \* the amounts of deposits, transfers, withdrawals, rescues
    Fee,                  \* what a fee-on-transfer token may keep of a deposit
    OwnerCandidate,       \* the addresses ownership may be offered to
    MaxInflow,            \* bound on the tokens that ever reach the pool
    MaxSigned             \* bound on the signatures the governance key makes

ASSUME PoolAssumption ==
    /\ {ZeroAddress, PoolAddress, GovernanceSigner, InitialOwner} \subseteq Address
    /\ ZeroAddress # PoolAddress
    /\ GovernanceSigner # ZeroAddress
    /\ GovernanceSigner # InitialOwner
    /\ GovernanceDelay \in Nat /\ InitialMaxEpochDelta \in Nat
    /\ LocalChain \in BOOLEAN
    /\ ~LocalChain => InitialMaxEpochDelta > 0
    /\ MaxTime \in Nat
    /\ Epoch \subseteq Nat
    /\ Spend \subseteq Nat /\ CapChoice \subseteq Nat
    /\ Amount \subseteq Nat /\ Fee \subseteq Nat
    /\ OwnerCandidate \subseteq Address
    /\ MaxInflow \in Nat /\ MaxSigned \in Nat
    /\ \A root \in Roots : root \subseteq Address \X Nat

OPERATOR_BPS == 1500
PROVIDER_BPS == 7500
BPS == 10000

VARIABLES
    owner, pendingOwner,  \* Ownable2Step
    maxEpochDelta, governanceNonce,
    pendingRoot, pendingMaxEpochDelta, pendingRescue,
    merkleRootAtEpoch, epoch, cumulativeSpent,
    claimed, totalDeposited, totalClaimed, operatorWithdrawn, totalBurned,
    poolBalance,          \* token.balanceOf(address(this))
    now,                  \* block.timestamp
    signed                \* messages the governance key has signed

ownership == <<owner, pendingOwner>>
governance == <<maxEpochDelta, governanceNonce, pendingRoot, pendingMaxEpochDelta,
                pendingRescue>>
distribution == <<merkleRootAtEpoch, epoch, cumulativeSpent>>
accounting == <<claimed, totalDeposited, totalClaimed, operatorWithdrawn, totalBurned>>
vars == <<ownership, governance, distribution, accounting, poolBalance, now, signed>>

(***************************************************************************)
(* What Solidity's `delete` leaves: executeAfter = 0 means "none pending". *)
(***************************************************************************)
NoRoot ==
    [merkleRoot |-> {}, newEpoch |-> 0, newCumulativeSpent |-> 0, previousEpoch |-> 0,
     previousCumulativeSpent |-> 0, nonce |-> 0, executeAfter |-> 0]
NoMaxEpochDelta == [newMaxEpochDelta |-> 0, nonce |-> 0, executeAfter |-> 0]
NoRescue == [to |-> ZeroAddress, amount |-> 0, nonce |-> 0, executeAfter |-> 0]

RootMessage(root, newEpoch, spent) ==
    <<"RootProposal", root, newEpoch, spent, epoch, cumulativeSpent, governanceNonce>>
MaxEpochDeltaMessage(newMax) == <<"MaxEpochDeltaProposal", newMax, governanceNonce>>
RescueMessage(to, amount) == <<"RescueProposal", to, amount, governanceNonce>>

Init ==
    /\ owner = InitialOwner /\ pendingOwner = ZeroAddress
    /\ maxEpochDelta = InitialMaxEpochDelta
    /\ governanceNonce = 0
    /\ pendingRoot = NoRoot
    /\ pendingMaxEpochDelta = NoMaxEpochDelta
    /\ pendingRescue = NoRescue
    /\ merkleRootAtEpoch = [e \in Epoch |-> {}]
    /\ epoch = 0 /\ cumulativeSpent = 0
    /\ claimed = [a \in Address |-> 0]
    /\ totalDeposited = 0 /\ totalClaimed = 0
    /\ operatorWithdrawn = 0 /\ totalBurned = 0
    /\ poolBalance = 0
    /\ now = 1
    /\ signed = {}

(***************************************************************************)
(* Views.                                                                  *)
(***************************************************************************)
Outflow == totalClaimed + operatorWithdrawn + totalBurned

OperatorCap(spent) == (spent * OPERATOR_BPS) \div BPS
ProviderCap(spent) == (spent * PROVIDER_BPS) \div BPS
BurnCap(spent) == spent - ProviderCap(spent) - OperatorCap(spent)

operatorClaimable ==
    LET cap == OperatorCap(cumulativeSpent)
    IN  IF cap > operatorWithdrawn THEN cap - operatorWithdrawn ELSE 0

\* Mutant: the burn already made is not deducted.
burnClaimableGross == BurnCap(cumulativeSpent)

burnClaimable ==
    LET cap == BurnCap(cumulativeSpent)
    IN  IF cap > totalBurned THEN cap - totalBurned ELSE 0

rescuableSurplus ==
    LET accounted == totalDeposited - totalClaimed - operatorWithdrawn - totalBurned
    IN  IF poolBalance > accounted THEN poolBalance - accounted ELSE 0

ValidMaxEpochDelta(value) == LocalChain \/ value > 0

\* Mutant: the epoch may repeat.
ValidateRootSameEpoch(root, newEpoch, spent) ==
    /\ root # {}
    /\ newEpoch >= epoch
    /\ spent >= cumulativeSpent
    /\ spent <= totalDeposited
    /\ maxEpochDelta > 0 => spent - cumulativeSpent <= maxEpochDelta

ValidateRoot(root, newEpoch, spent) ==
    /\ root # {}
    /\ newEpoch > epoch
    /\ spent >= cumulativeSpent
    /\ spent <= totalDeposited
    /\ maxEpochDelta > 0 => spent - cumulativeSpent <= maxEpochDelta

RootPending == pendingRoot.executeAfter # 0
MaxEpochDeltaPending == pendingMaxEpochDelta.executeAfter # 0
RescuePending == pendingRescue.executeAfter # 0

\* Mutant: a proposal is refused only while both a root and a cap change wait.
CapPendingUnchecked == ~RootPending \/ ~MaxEpochDeltaPending

NoCapOrRootPending == ~MaxEpochDeltaPending /\ ~RootPending

ExecuteAfter == now + GovernanceDelay

(***************************************************************************)
(* Ownership (OpenZeppelin Ownable2Step with the pool's overrides).        *)
(***************************************************************************)
transferOwnership(newOwner) ==
    /\ newOwner # GovernanceSigner
    /\ pendingOwner' = newOwner
    /\ UNCHANGED <<owner, governance, distribution, accounting, poolBalance, now, signed>>

acceptOwnership(caller) ==
    /\ caller = pendingOwner
    /\ caller # ZeroAddress
    /\ owner' = caller
    /\ pendingOwner' = ZeroAddress
    /\ UNCHANGED <<governance, distribution, accounting, poolBalance, now, signed>>

(***************************************************************************)
(* The governance key signs off chain, over the nonce and the base it      *)
(* reads from the pool; a signature outlives the state it was made in.     *)
(***************************************************************************)
signRootProposal(root, newEpoch, spent) ==
    /\ signed' = signed \cup {RootMessage(root, newEpoch, spent)}
    /\ UNCHANGED <<ownership, governance, distribution, accounting, poolBalance, now>>

signMaxEpochDeltaProposal(newMax) ==
    /\ signed' = signed \cup {MaxEpochDeltaMessage(newMax)}
    /\ UNCHANGED <<ownership, governance, distribution, accounting, poolBalance, now>>

signRescueProposal(to, amount) ==
    /\ signed' = signed \cup {RescueMessage(to, amount)}
    /\ UNCHANGED <<ownership, governance, distribution, accounting, poolBalance, now>>

(***************************************************************************)
(* Governed actions: the owner proposes, anyone executes after the delay.  *)
(***************************************************************************)
proposeMaxEpochDelta(newMax) ==
    /\ NoCapOrRootPending
    /\ newMax # maxEpochDelta
    /\ ValidMaxEpochDelta(newMax)
    /\ MaxEpochDeltaMessage(newMax) \in signed
    /\ ExecuteAfter <= MaxTime
    /\ governanceNonce' = governanceNonce + 1
    /\ pendingMaxEpochDelta' = [newMaxEpochDelta |-> newMax, nonce |-> governanceNonce,
                                executeAfter |-> ExecuteAfter]
    /\ UNCHANGED <<ownership, maxEpochDelta, pendingRoot, pendingRescue, distribution,
                   accounting, poolBalance, now, signed>>

executeMaxEpochDelta ==
    /\ MaxEpochDeltaPending
    /\ now >= pendingMaxEpochDelta.executeAfter
    /\ ~RootPending
    /\ ValidMaxEpochDelta(pendingMaxEpochDelta.newMaxEpochDelta)
    /\ pendingMaxEpochDelta' = NoMaxEpochDelta
    /\ maxEpochDelta' = pendingMaxEpochDelta.newMaxEpochDelta
    /\ UNCHANGED <<ownership, governanceNonce, pendingRoot, pendingRescue, distribution,
                   accounting, poolBalance, now, signed>>

PendingRoot(root, newEpoch, spent) ==
    [merkleRoot |-> root, newEpoch |-> newEpoch, newCumulativeSpent |-> spent,
     previousEpoch |-> epoch, previousCumulativeSpent |-> cumulativeSpent,
     nonce |-> governanceNonce, executeAfter |-> ExecuteAfter]

proposeRoot(root, newEpoch, spent) ==
    /\ NoCapOrRootPending
    /\ ValidateRoot(root, newEpoch, spent)
    /\ RootMessage(root, newEpoch, spent) \in signed
    /\ ExecuteAfter <= MaxTime
    /\ governanceNonce' = governanceNonce + 1
    /\ pendingRoot' = PendingRoot(root, newEpoch, spent)
    /\ UNCHANGED <<ownership, maxEpochDelta, pendingMaxEpochDelta, pendingRescue,
                   distribution, accounting, poolBalance, now, signed>>

\* Mutant: a root executes only while its nonce is the last one used.
RootExecutableAtNonce ==
    /\ epoch = pendingRoot.previousEpoch
    /\ cumulativeSpent = pendingRoot.previousCumulativeSpent
    /\ governanceNonce = pendingRoot.nonce + 1
    /\ ValidateRoot(pendingRoot.merkleRoot, pendingRoot.newEpoch,
                    pendingRoot.newCumulativeSpent)

\* The part of executeRoot's guard that time alone cannot make true.
RootExecutable ==
    /\ epoch = pendingRoot.previousEpoch
    /\ cumulativeSpent = pendingRoot.previousCumulativeSpent
    /\ ValidateRoot(pendingRoot.merkleRoot, pendingRoot.newEpoch,
                    pendingRoot.newCumulativeSpent)

executeRoot ==
    /\ RootPending
    /\ now >= pendingRoot.executeAfter
    /\ RootExecutable
    /\ pendingRoot' = NoRoot
    /\ merkleRootAtEpoch' =
           [merkleRootAtEpoch EXCEPT ![pendingRoot.newEpoch] = pendingRoot.merkleRoot]
    /\ epoch' = pendingRoot.newEpoch
    /\ cumulativeSpent' = pendingRoot.newCumulativeSpent
    /\ UNCHANGED <<ownership, maxEpochDelta, governanceNonce, pendingMaxEpochDelta,
                   pendingRescue, accounting, poolBalance, now, signed>>

proposeRescue(to, amount) ==
    /\ ~RescuePending
    /\ to # ZeroAddress
    /\ amount > 0 /\ amount <= rescuableSurplus
    /\ RescueMessage(to, amount) \in signed
    /\ ExecuteAfter <= MaxTime
    /\ governanceNonce' = governanceNonce + 1
    /\ pendingRescue' = [to |-> to, amount |-> amount, nonce |-> governanceNonce,
                         executeAfter |-> ExecuteAfter]
    /\ UNCHANGED <<ownership, maxEpochDelta, pendingRoot, pendingMaxEpochDelta,
                   distribution, accounting, poolBalance, now, signed>>

\* token.safeTransfer(to, amount): reverts without the balance, and a transfer
\* to the pool itself leaves the balance where it was.
Transfer(to, amount) ==
    /\ amount <= poolBalance
    /\ poolBalance' = IF to = PoolAddress THEN poolBalance ELSE poolBalance - amount

executeRescue ==
    /\ RescuePending
    /\ now >= pendingRescue.executeAfter
    /\ pendingRescue.amount <= rescuableSurplus
    /\ pendingRescue' = NoRescue
    /\ Transfer(pendingRescue.to, pendingRescue.amount)
    /\ UNCHANGED <<ownership, maxEpochDelta, governanceNonce, pendingRoot,
                   pendingMaxEpochDelta, distribution, accounting, now, signed>>

(***************************************************************************)
(* Value in.  The credit is the measured balance delta, which a            *)
(* fee-on-transfer token makes smaller than the requested amount.          *)
(***************************************************************************)
Credit(amount, received) == received

deposit(amount, received) ==
    /\ amount > 0
    /\ received > 0 /\ received <= amount
    /\ poolBalance' = poolBalance + received
    /\ totalDeposited' = totalDeposited + Credit(amount, received)
    /\ UNCHANGED <<ownership, governance, distribution, claimed, totalClaimed,
                   operatorWithdrawn, totalBurned, now, signed>>

\* Tokens sent straight to the pool, which no call of the contract sees.
DirectTransfer(amount) ==
    /\ poolBalance' = poolBalance + amount
    /\ UNCHANGED <<ownership, governance, distribution, accounting, now, signed>>

(***************************************************************************)
(* Value out.  Every leg re-checks the conservation backstop.              *)
(***************************************************************************)
\* Mutant: the backstop is missing.
BackedAlways(amount) == TRUE

Backed(amount) == Outflow + amount <= totalDeposited

claim(rootEpoch, account, cumulativeAmount) ==
    /\ account # ZeroAddress /\ account # PoolAddress
    /\ merkleRootAtEpoch[rootEpoch] # {}
    /\ <<account, cumulativeAmount>> \in merkleRootAtEpoch[rootEpoch]
    /\ cumulativeAmount > claimed[account]
    /\ Backed(cumulativeAmount - claimed[account])
    /\ claimed' = [claimed EXCEPT ![account] = cumulativeAmount]
    /\ totalClaimed' = totalClaimed + (cumulativeAmount - claimed[account])
    /\ Transfer(account, cumulativeAmount - claimed[account])
    /\ UNCHANGED <<ownership, governance, distribution, totalDeposited, operatorWithdrawn,
                   totalBurned, now, signed>>

withdrawOperator(to, amount) ==
    /\ to # ZeroAddress
    /\ amount > 0 /\ amount <= operatorClaimable
    /\ Backed(amount)
    /\ operatorWithdrawn' = operatorWithdrawn + amount
    /\ Transfer(to, amount)
    /\ UNCHANGED <<ownership, governance, distribution, claimed, totalDeposited,
                   totalClaimed, totalBurned, now, signed>>

burn ==
    /\ burnClaimable > 0
    /\ Backed(burnClaimable)
    /\ totalBurned' = totalBurned + burnClaimable
    /\ burnClaimable <= poolBalance
    /\ poolBalance' = poolBalance - burnClaimable
    /\ UNCHANGED <<ownership, governance, distribution, claimed, totalDeposited,
                   totalClaimed, operatorWithdrawn, now, signed>>

Tick ==
    /\ now < MaxTime
    /\ now' = now + 1
    /\ UNCHANGED <<ownership, governance, distribution, accounting, poolBalance, signed>>

Sign ==
    /\ Cardinality(signed) < MaxSigned
    /\ \/ \E root \in Roots, e \in Epoch, spent \in Spend : signRootProposal(root, e, spent)
       \/ \E newMax \in CapChoice : signMaxEpochDeltaProposal(newMax)
       \/ \E to \in Address, amount \in Amount : signRescueProposal(to, amount)

Fund ==
    \E amount \in Amount :
        /\ poolBalance + Outflow + amount <= MaxInflow
        /\ \/ \E fee \in Fee : deposit(amount, amount - fee)
           \/ DirectTransfer(amount)

Next ==
    \/ \E a \in OwnerCandidate : transferOwnership(a) \/ acceptOwnership(a)
    \/ Sign
    \/ \E newMax \in CapChoice : proposeMaxEpochDelta(newMax)
    \/ executeMaxEpochDelta
    \/ \E root \in Roots, e \in Epoch, spent \in Spend : proposeRoot(root, e, spent)
    \/ executeRoot
    \/ \E to \in Address, amount \in Amount : proposeRescue(to, amount)
    \/ executeRescue
    \/ Fund
    \/ \E e \in Epoch : \E leaf \in merkleRootAtEpoch[e] : claim(e, leaf[1], leaf[2])
    \/ \E to \in Address, amount \in Amount : withdrawOperator(to, amount)
    \/ burn
    \/ Tick

Spec == Init /\ [][Next]_vars

\* Execution is permissionless and the settlement roller calls it every epoch;
\* block time advances by itself.
LiveSpec ==
    /\ Spec
    /\ WF_vars(Tick)
    /\ WF_vars(executeRoot) /\ WF_vars(executeMaxEpochDelta) /\ WF_vars(executeRescue)

(***************************************************************************)
(* Properties.                                                             *)
(***************************************************************************)
RootProposal ==
    [merkleRoot : SUBSET (Address \X Nat), newEpoch : Nat, newCumulativeSpent : Nat,
     previousEpoch : Nat, previousCumulativeSpent : Nat, nonce : Nat, executeAfter : Nat]

\* Every storage variable holds a value of its Solidity type, and a pending root is
\* for an epoch that may be posted.
TypeOK ==
    /\ owner \in Address /\ pendingOwner \in Address
    /\ maxEpochDelta \in Nat /\ governanceNonce \in Nat
    /\ pendingRoot \in RootProposal
    /\ RootPending => pendingRoot.newEpoch \in Epoch
    /\ pendingMaxEpochDelta \in [newMaxEpochDelta : Nat, nonce : Nat, executeAfter : Nat]
    /\ pendingRescue \in [to : Address, amount : Nat, nonce : Nat, executeAfter : Nat]
    /\ merkleRootAtEpoch \in [Epoch -> SUBSET (Address \X Nat)]
    /\ epoch \in Nat /\ cumulativeSpent \in Nat
    /\ claimed \in [Address -> Nat]
    /\ totalDeposited \in Nat /\ totalClaimed \in Nat
    /\ operatorWithdrawn \in Nat /\ totalBurned \in Nat
    /\ poolBalance \in Nat /\ now \in Nat

\* Total outflow (claims, operator fee and burn) never exceeds total deposits,
\* and the tokens held always cover what is accounted for, so no transfer of an
\* accepted payout can fail: the conservation backstop of claim,
\* withdrawOperator and burn, with direct transfers and rescues interleaved.
Solvency ==
    /\ Outflow <= totalDeposited
    /\ poolBalance >= totalDeposited - Outflow

\* The operator never holds more than 15% of the declared spend
\* (operatorClaimable), whatever roots are posted between withdrawals.
OperatorWithinCap == operatorWithdrawn <= OperatorCap(cumulativeSpent)

\* What the three legs may take of the declared spend exceeds it by at most one
\* wei.  BurnCap is not monotonic in the spend (it falls from 2 to 1 when the
\* spend grows from 6 to 7), so the bound is not zero.
SplitWithinOneWei ==
    ProviderCap(cumulativeSpent) + OperatorCap(cumulativeSpent) + totalBurned
        <= cumulativeSpent + 1

\* What pool-property.mjs asserts after every step and the comment on burn says:
\* the burn stays within its tenth, the remainder of the spend after the provider
\* and operator shares.
BurnWithinCap == totalBurned <= BurnCap(cumulativeSpent)

\* A pending root, cap change or rescue can always execute once its delay has
\* passed.  The contract has no cancel, so a proposal that deposits, claims or
\* another proposal could invalidate would block every later one for ever.
GovernanceNeverStalls ==
    /\ RootPending => RootExecutable /\ ~MaxEpochDeltaPending
    /\ MaxEpochDeltaPending => ValidMaxEpochDelta(pendingMaxEpochDelta.newMaxEpochDelta)
    /\ RescuePending => /\ pendingRescue.amount <= rescuableSurplus
                        /\ pendingRescue.amount <= poolBalance

\* An account has claimed nothing, or exactly the amount of a leaf that some
\* posted root holds for it: claims through old and new roots in any order never
\* add up to more than the largest rooted entitlement.
ClaimsMatchRoots ==
    \A a \in Address :
        claimed[a] # 0 => \E e \in Epoch : <<a, claimed[a]>> \in merkleRootAtEpoch[e]

\* Every accepted proposal of executeRoot's kind eventually lands.
RootLands == RootPending ~> ~RootPending
=============================================================================
