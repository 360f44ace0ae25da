---------------------------- MODULE SpendLedger ----------------------------
(***************************************************************************)
(* The spend and settlement ledger of intercom/contract/contract.js, the   *)
(* replicated contract every peer executes: buyers deposit credit, a       *)
(* reservation holds part of it for one attempt of one billing id, the     *)
(* provider's usage receipts raise what the attempt owes, and the admin    *)
(* settles the receipts of an epoch page by page into provider earnings,   *)
(* the operator fee and the burn.                                          *)
(*                                                                         *)
(* Operations are applied one at a time, in consensus order, and one that  *)
(* returns an Error writes nothing, so every such return is a conjunct of  *)
(* a guard.  An exact resubmission returns `idempotent: true` and writes   *)
(* nothing: it is a stuttering step.  One payment rail is modelled (the    *)
(* records of the rails are disjoint); session ids are one to one with     *)
(* reservation ids; vouchers and receipts that carry a bad signature,      *)
(* shape, price or serve term are refused before any state is read.        *)
(* Timestamps are the admin's inputs and can always be chosen late enough. *)
(* Definitions marked "Mutant" are faulty variants that the properties     *)
(* must catch; no action uses them.                                        *)
(***************************************************************************)
EXTENDS Integers, Sequences, FiniteSets, FiniteSetsExt

CONSTANTS
    User, Provider, Billing,
    Reservation,        \* the reservation ids vouchers may name
    Deposit,            \* the references deposits are credited under
    DepositTerms,       \* for each of them, the account and the amount it proves
    Reversible,         \* the deposits a chargeback or a chain reorganisation may hit
    Dispute,            \* the references chargebacks are recorded under
    DisputedAu,         \* the amounts a chargeback may dispute
    Rail,               \* "tap" or "fiat"
    FeeBps,             \* the fee_bps parameter
    MaxSpend,           \* the amounts a voucher may allow (max_spend_au)
    Owed,               \* the cumulative amounts a receipt may carry (au_owed_cum)
    Baseline,           \* the prior cumulative amounts a voucher may claim
    ExpiryEpochs, GraceEpochs, \* expires_after_epoch - epoch, receipt_grace_epochs
    MaxApplyBatch,      \* the max_apply_batch parameter
    IndexPageSize,      \* RECEIPT_EPOCH_INDEX_PAGE_SIZE
    Churning,           \* the providers whose registration changes
    MaxAttempt, MaxSeq, MaxRevision, MaxEpoch, \* bounds on unbounded counters
    LastReserveEpoch    \* bound: no reservation is made after this epoch

ASSUME LedgerAssumption ==
    /\ IsFiniteSet(User) /\ IsFiniteSet(Provider) /\ IsFiniteSet(Billing)
    /\ IsFiniteSet(Reservation) /\ IsFiniteSet(Deposit)
    /\ DepositTerms \in [Deposit -> [user : User, au : Nat \ {0}]]
    /\ Reversible \subseteq Deposit
    /\ DisputedAu \subseteq Nat \ {0}
    /\ Rail \in {"tap", "fiat"}
    /\ FeeBps \in 0..1500
    /\ MaxSpend \subseteq Nat \ {0}
    /\ Owed \subseteq Nat /\ Baseline \subseteq Nat
    /\ ExpiryEpochs \in Nat \ {0} /\ GraceEpochs \in Nat
    /\ MaxApplyBatch \in Nat /\ IndexPageSize \in Nat \ {0}
    /\ Churning \subseteq Provider
    /\ MaxAttempt \in Nat /\ MaxSeq \in Nat /\ MaxRevision \in Nat
    /\ MaxEpoch \in Nat \ {0} /\ LastReserveEpoch \in Nat

TAP_BURN_BPS == 1000

Attempt == 0..MaxAttempt
Identity == Billing \X Attempt   \* what a receipt head is kept under
Epoch == 1..(MaxEpoch + 1)

VARIABLES
    balance,      \* bal/<user>: spendable credit
    reserved,     \* the targeted spend summary: credit held by outstanding sessions
    clawed,       \* the clawback_au of a user's disputes: credit taken back
    absorbed,     \* their network_absorbed_au: disputed credit that was already spent
    deposit,      \* dep/<ref>: has it been credited, and how much of it is disputed
    disputed,     \* the dispute references already recorded
    anchor,       \* receipt_billing_anchor of a billing id
    reservation,  \* receipt_reservation_identity
    session,      \* the targeted spend session that holds the credit
    head,         \* canonical_receipt_head of a billing attempt
    consumed,     \* the billing attempts that have a consumption record
    index,        \* canonical_receipt_epoch_index and its pages
    frozen,       \* epoch_receipt_freeze: the count it recorded
    ingress,      \* receipt_ingress
    updated_epoch, pending,    \* epoch/apply/state
    gross,        \* epoch_provider_earning.gross_au
    earned, feeCum, burnCum,   \* earning totals of the providers, fee and burn
    registration, \* prov/<id> and its serve record
    pointer       \* the provider's payout binding pointer

accounts == <<balance, reserved, clawed, absorbed, deposit, disputed>>
sessions == <<anchor, reservation, session, head>>
epochs == <<consumed, index, frozen, ingress, updated_epoch, pending>>
settled == <<gross, earned, feeCum, burnCum>>
providers == <<registration, pointer>>
vars == <<accounts, sessions, epochs, settled, providers>>

(***************************************************************************)
(* What `get` returns null for.                                            *)
(***************************************************************************)
NoAnchor == [latest |-> -1]
NoReservation == [status |-> "free"]
NoSession == [max_spend |-> 0, settlement_ready |-> FALSE]
NoHead == [seq |-> 0]
NoPending == [epoch |-> 0]
NoPointer == [latest |-> 0, current |-> 0, pending |-> 0, activation |-> 0]
NoIngress == [next |-> 0, activated |-> 0]
NotFrozen == -1

Init ==
    /\ balance = [u \in User |-> 0] /\ reserved = [u \in User |-> 0]
    /\ clawed = [u \in User |-> 0] /\ absorbed = 0
    /\ deposit = [d \in Deposit |-> [credited |-> FALSE, disputed |-> 0]]
    /\ disputed = {}
    /\ anchor = [b \in Billing |-> NoAnchor]
    /\ reservation = [r \in Reservation |-> NoReservation]
    /\ session = [r \in Reservation |-> NoSession]
    /\ head = [id \in Identity |-> NoHead]
    /\ consumed = {}
    /\ index = [e \in Epoch |-> <<>>]
    /\ frozen = [e \in Epoch |-> NotFrozen]
    /\ ingress = NoIngress
    /\ updated_epoch = 0 /\ pending = NoPending
    /\ gross = [e \in Epoch |-> [p \in Provider |-> 0]]
    /\ earned = [p \in Provider |-> 0] /\ feeCum = 0 /\ burnCum = 0
    /\ registration = [p \in Provider |->
                          [status |-> "active", serving |-> TRUE, accepts |-> TRUE]]
    /\ pointer = [p \in Provider |-> NoPointer]

(***************************************************************************)
(* Deposits, chargebacks and reversals (tapDeposit, fiatDeposit,           *)
(* fiatChargeback, tapDepositReversal).  A dispute takes what is left of   *)
(* the balance, whether or not sessions hold it; the network absorbs the   *)
(* rest.                                                                   *)
(***************************************************************************)
creditDeposit(d) ==
    LET who == DepositTerms[d].user
    IN  /\ ~deposit[d].credited
        /\ deposit' = [deposit EXCEPT ![d].credited = TRUE]
        /\ balance' = [balance EXCEPT ![who] = @ + DepositTerms[d].au]
        /\ UNCHANGED <<reserved, clawed, absorbed, disputed, sessions, epochs, settled,
                       providers>>

Clawback(u, au) == IF balance[u] < au THEN balance[u] ELSE au

\* Mutant: the whole disputed amount is booked as taken back.
TakeBackInFull(d, au) ==
    LET who == DepositTerms[d].user
    IN  /\ deposit' = [deposit EXCEPT ![d].disputed = @ + au]
        /\ balance' = [balance EXCEPT ![who] = @ - Clawback(who, au)]
        /\ clawed' = [clawed EXCEPT ![who] = @ + au]
        /\ absorbed' = absorbed

TakeBack(d, au) ==
    LET who == DepositTerms[d].user
    IN  /\ deposit' = [deposit EXCEPT ![d].disputed = @ + au]
        /\ balance' = [balance EXCEPT ![who] = @ - Clawback(who, au)]
        /\ clawed' = [clawed EXCEPT ![who] = @ + Clawback(who, au)]
        /\ absorbed' = absorbed + (au - Clawback(who, au))

fiatChargeback(d, dispute, au) ==
    /\ Rail = "fiat"
    /\ deposit[d].credited
    /\ <<d, dispute>> \notin disputed
    /\ deposit[d].disputed + au <= DepositTerms[d].au
    /\ TakeBack(d, au)
    /\ disputed' = disputed \cup {<<d, dispute>>}
    /\ UNCHANGED <<reserved, sessions, epochs, settled, providers>>

tapDepositReversal(d) ==
    /\ Rail = "tap"
    /\ deposit[d].credited
    /\ deposit[d].disputed = 0
    /\ TakeBack(d, DepositTerms[d].au)
    /\ UNCHANGED <<reserved, disputed, sessions, epochs, settled, providers>>

(***************************************************************************)
(* Provider registration and payout bindings.                              *)
(***************************************************************************)
Reregister(p, changes) ==
    /\ registration' = [registration EXCEPT ![p] = changes]
    /\ UNCHANGED <<accounts, sessions, epochs, settled, pointer>>

banProvider(p) ==
    /\ registration[p].status = "active"
    /\ Reregister(p, [registration[p] EXCEPT !.status = "banned", !.serving = FALSE])

unban(p) ==
    /\ registration[p].status = "banned"
    /\ Reregister(p, [registration[p] EXCEPT !.status = "active"])

joinEnclave(p) ==
    /\ registration[p].status = "active" /\ ~registration[p].serving
    /\ Reregister(p, [registration[p] EXCEPT !.serving = TRUE])

leaveEnclave(p) ==
    /\ registration[p].serving
    /\ Reregister(p, [registration[p] EXCEPT !.serving = FALSE])

setProviderRails(p) ==
    /\ registration[p].status = "active"
    /\ Reregister(p, [registration[p] EXCEPT !.accepts = ~@])

(***************************************************************************)
(* providerPayoutBindingForEpoch: the one revision an epoch pays.          *)
(***************************************************************************)
ActiveRevision(p, e) ==
    IF pointer[p].pending # 0 /\ pointer[p].activation <= e
    THEN pointer[p].pending
    ELSE pointer[p].current

\* A first binding pays at once; a rotation from the epoch after the billed one.
bindProviderPayout(p) ==
    LET revision == pointer[p].latest + 1
    IN  /\ registration[p].status = "active" /\ registration[p].accepts
        /\ pending = NoPending
        /\ revision <= MaxRevision
        /\ pointer' = [pointer EXCEPT ![p] =
                IF pointer[p] = NoPointer
                THEN [latest |-> revision, current |-> revision, pending |-> 0, activation |-> 0]
                ELSE [latest |-> revision, current |-> ActiveRevision(p, updated_epoch + 1),
                      pending |-> revision, activation |-> updated_epoch + 2]]
        /\ UNCHANGED <<accounts, sessions, epochs, settled, registration>>

(***************************************************************************)
(* Epochs: the base is the last epoch whose settlement has begun, the next *)
(* one is billed, and receipts go to the first epoch that is not frozen.   *)
(***************************************************************************)
base == IF pending # NoPending THEN pending.epoch ELSE updated_epoch
ActiveBillingEpoch == base + 1

ValidCursor == ingress # NoIngress => /\ ingress.activated < ingress.next
                                      /\ ingress.next <= base + 2

receiptSettlementEpoch ==
    IF ingress.next > base + 1 THEN ingress.next ELSE base + 1

(***************************************************************************)
(* spendReserveTargeted: a buyer's voucher, countersigned by the provider, *)
(* holds credit for one attempt of a billing id.                           *)
(***************************************************************************)
AttemptHasSession(u, b, a) ==
    \E r \in Reservation :
        /\ session[r] # NoSession
        /\ reservation[r].user = u
        /\ reservation[r].billing = b /\ reservation[r].attempt = a

\* prepareBillingReservation; its branch for a renewed attempt (a = latest)
\* does not look at the baseline.
BillingMayReserve(u, b, a, prior) ==
    IF anchor[b] = NoAnchor
    THEN a = 0
    ELSE /\ anchor[b].user = u /\ anchor[b].epoch = ActiveBillingEpoch
         /\ \/ a = anchor[b].latest /\ head[<<b, a>>] = NoHead
            \/ /\ a = anchor[b].latest + 1
               /\ head[<<b, a - 1>>] # NoHead
               /\ prior = head[<<b, a - 1>>].cum

\* Mutant: the hold is compared with the balance alone.
HoldFitsAlone(u, spend) == spend <= balance[u]

HoldFits(u, spend) == reserved[u] + spend <= balance[u]

\* The baselines a voucher for an attempt may claim: a first attempt's is empty,
\* a later one's is any amount that the buyer signs (normalizeSpendVoucher).
VoucherBaselines(a) == IF a = 0 THEN {0} ELSE Baseline

spendReserveTargeted(r, u, p, b, a, prior, spend) ==
    /\ ActiveBillingEpoch <= LastReserveEpoch
    /\ registration[p] = [status |-> "active", serving |-> TRUE, accepts |-> TRUE]
    /\ pointer[p] # NoPointer
    /\ ~AttemptHasSession(u, b, a)
    /\ BillingMayReserve(u, b, a, prior)
    /\ reservation[r] = NoReservation
    /\ HoldFits(u, spend)
    /\ reserved' = [reserved EXCEPT ![u] = @ + spend]
    /\ session' = [session EXCEPT ![r] = [max_spend |-> spend, settlement_ready |-> FALSE]]
    /\ anchor' = [anchor EXCEPT ![b] = [user |-> u, epoch |-> ActiveBillingEpoch, latest |-> a]]
    /\ reservation' = [reservation EXCEPT ![r] =
                          [status |-> "active", user |-> u, provider |-> p,
                           revision |-> ActiveRevision(p, ActiveBillingEpoch),
                           billing |-> b, attempt |-> a, prior |-> prior,
                           epoch |-> ActiveBillingEpoch]]
    /\ UNCHANGED <<balance, clawed, absorbed, deposit, disputed, head, epochs, settled,
                   providers>>

(***************************************************************************)
(* Closing a reservation.  With a head the session keeps exactly what the  *)
(* head owes and the attempt joins the open epoch's index; without one the *)
(* session is deleted and the whole hold is released.                      *)
(***************************************************************************)
IdentityOf(r) == <<reservation[r].billing, reservation[r].attempt>>

\* nextReceiptEpochIndex: duplicates are looked for in the last index page only.
LastIndexPage(e) ==
    {index[e][i] : i \in (Len(index[e]) - (Len(index[e]) % IndexPageSize) + 1)..Len(index[e])}

MayIndex(e, id) == frozen[e] = NotFrozen /\ id \notin LastIndexPage(e)

\* Mutant: what the receipt leaves of the hold is forgotten.
NothingReleased(r, h) == 0

Released(r, h) == session[r].max_spend - h.incremental

\* Mutant: the attempt joins the epoch it was billed in.
EpochOfBilling(r) == reservation[r].epoch

EpochOfReceipt(r) == receiptSettlementEpoch

\* Mutant: the head names the epoch being billed, whatever the index was.
ReadyAtBillingEpoch(h, e) == [h EXCEPT !.settlement_epoch = ActiveBillingEpoch]

ReadyAt(h, e) == [h EXCEPT !.settlement_epoch = e]

RetainAndIndex(r, h) ==
    LET e == EpochOfReceipt(r) IN
    /\ Released(r, h) \in 0..reserved[reservation[r].user]
    /\ MayIndex(e, IdentityOf(r))
    /\ index' = [index EXCEPT ![e] = Append(@, IdentityOf(r))]
    /\ head' = [head EXCEPT ![IdentityOf(r)] = ReadyAt(h, e)]
    /\ session' = [session EXCEPT ![r] =
                      [max_spend |-> h.incremental, settlement_ready |-> TRUE]]
    /\ reserved' = [reserved EXCEPT ![reservation[r].user] = @ - Released(r, h)]

ReleaseAll(r) ==
    /\ session[r].max_spend <= reserved[reservation[r].user]
    /\ session' = [session EXCEPT ![r] = NoSession]
    /\ reserved' = [reserved EXCEPT ![reservation[r].user] = @ - session[r].max_spend]
    /\ UNCHANGED <<head, index>>

CloseReservation(r) == reservation' = [reservation EXCEPT ![r].status = "closed"]

(***************************************************************************)
(* recordUsageReceipt: a provider's receipt, signed by buyer and enclave,  *)
(* raises the attempt's head; a final one closes the reservation.          *)
(***************************************************************************)
\* Mutant: an attempt that a later one has replaced still advances.
AnyAttemptMayAdvance(b, a) == anchor[b].latest >= a

AttemptMayAdvance(b, a) == anchor[b].latest = a

HeadMayAdvance(id, r, seq, cum) ==
    head[id] # NoHead =>
        /\ id \notin consumed
        /\ head[id].settlement_epoch = 0
        /\ head[id].reservation = r
        /\ seq > head[id].seq
        /\ cum >= head[id].cum

NewHead(r, seq, cum) ==
    [seq |-> seq, cum |-> cum, incremental |-> cum - reservation[r].prior,
     reservation |-> r, settlement_epoch |-> 0]

IncrementFits(r, cum) == cum - reservation[r].prior \in 1..session[r].max_spend

ReceiptFits(r, seq, cum) ==
    /\ session[r] # NoSession
    /\ IncrementFits(r, cum)
    /\ HeadMayAdvance(IdentityOf(r), r, seq, cum)
    /\ AttemptMayAdvance(reservation[r].billing, reservation[r].attempt)
    /\ reservation[r].status = "active"
    /\ ValidCursor
    /\ reservation[r].epoch <= receiptSettlementEpoch

recordUsageReceipt(r, seq, cum) ==
    /\ ReceiptFits(r, seq, cum)
    /\ head' = [head EXCEPT ![IdentityOf(r)] = NewHead(r, seq, cum)]
    /\ UNCHANGED <<accounts, anchor, reservation, session, epochs, settled, providers>>

recordFinalReceipt(r, seq, cum) ==
    /\ ReceiptFits(r, seq, cum)
    /\ RetainAndIndex(r, NewHead(r, seq, cum))
    /\ CloseReservation(r)
    /\ UNCHANGED <<balance, clawed, absorbed, deposit, disputed, anchor, consumed, frozen,
                   ingress, updated_epoch, pending, settled, providers>>

(***************************************************************************)
(* closeUsageReservation (the provider) and expireUsageReservation (the    *)
(* buyer, once expiry and receipt grace have passed).                      *)
(***************************************************************************)
CloseUsage(r) ==
    LET id == IdentityOf(r) IN
    /\ reservation[r].status = "active"
    /\ session[r] # NoSession
    /\ ValidCursor
    /\ reservation[r].epoch <= receiptSettlementEpoch
    /\ \/ head[id] = NoHead /\ ReleaseAll(r)
       \/ /\ head[id] # NoHead
          /\ head[id].reservation = r
          /\ head[id].settlement_epoch = 0 /\ id \notin consumed
          /\ RetainAndIndex(r, head[id])
    /\ CloseReservation(r)
    /\ UNCHANGED <<balance, clawed, absorbed, deposit, disputed, anchor, consumed, frozen,
                   ingress, updated_epoch, pending, settled, providers>>

closeUsageReservation(r) == CloseUsage(r)

\* Mutant: expiry waits one epoch longer than the signed terms.
LongPastExpiry(r) == updated_epoch > reservation[r].epoch + ExpiryEpochs + GraceEpochs

PastExpiry(r) == updated_epoch >= reservation[r].epoch + ExpiryEpochs + GraceEpochs

expireUsageReservation(r) ==
    /\ reservation[r].status = "active"
    /\ PastExpiry(r)
    /\ CloseUsage(r)

(***************************************************************************)
(* epochFreeze closes the open receipt batch before it is settled.         *)
(***************************************************************************)
\* Mutant: the ingress cursor stays on the epoch that was frozen.
FreezeInPlace(e) ==
    /\ frozen' = [frozen EXCEPT ![e] = Len(index[e])]
    /\ ingress' = [next |-> e, activated |-> e]

Freeze(e) ==
    /\ frozen' = [frozen EXCEPT ![e] = Len(index[e])]
    /\ ingress' = [next |-> e + 1, activated |-> IF ingress = NoIngress THEN e
                                                 ELSE ingress.activated]

epochFreeze(e) ==
    /\ frozen[e] = NotFrozen
    /\ pending = NoPending /\ e = updated_epoch + 1
    /\ ValidCursor /\ receiptSettlementEpoch = e
    /\ Freeze(e)
    /\ UNCHANGED <<accounts, sessions, consumed, index, updated_epoch, pending, settled,
                   providers>>

validateFrozenEpoch(e) ==
    IF frozen[e] = NotFrozen
    THEN ~(ingress # NoIngress /\ e >= ingress.activated)
    ELSE frozen[e] = Len(index[e])

(***************************************************************************)
(* Settlement.  A page allocates a set of ready receipts of the epoch; the *)
(* page that completes the epoch's index is the last one.                  *)
(***************************************************************************)
HeadUser(id) == reservation[head[id].reservation].user
HeadProvider(id) == reservation[head[id].reservation].provider
HeadRevision(id) == reservation[head[id].reservation].revision

SumIncremental(ids) == SumFunction([id \in ids |-> head[id].incremental])
Debits(ids) == [u \in User |-> SumIncremental({id \in ids : HeadUser(id) = u})]
Earnings(ids) == [p \in Provider |-> SumIncremental({id \in ids : HeadProvider(id) = p})]

FeeOf(au) == (au * FeeBps) \div 10000
BurnOf(au) == IF Rail = "tap" THEN (au * TAP_BURN_BPS) \div 10000 ELSE 0

\* Mutant: fee and burn are rounded down page by page.
PerPageDelta(priorGross, au) ==
    [fee |-> FeeOf(au), burn |-> BurnOf(au), provider |-> au - FeeOf(au) - BurnOf(au)]

\* Fee and burn are those of the provider's gross for the epoch, so far less before.
providerSettlementPageDelta(priorGross, au) ==
    LET fee == FeeOf(priorGross + au) - FeeOf(priorGross)
        burn == BurnOf(priorGross + au) - BurnOf(priorGross)
    IN  [fee |-> fee, burn |-> burn, provider |-> au - fee - burn]

\* The commit the settlement builder derives from the epoch's complete index.
Indexed(e) == {index[e][i] : i \in 1..Len(index[e])}

\* Mutant: the builder rounds the fee of the epoch's total, not each provider's.
EpochCommitOfTotal(e) ==
    LET use == SumIncremental(Indexed(e))
    IN  [count |-> Len(index[e]), use |-> use, fee |-> FeeOf(use), burn |-> BurnOf(use)]

EpochCommit(e) ==
    LET whole == Earnings(Indexed(e))
    IN  [count |-> Len(index[e]), use |-> SumIncremental(Indexed(e)),
         fee |-> SumFunction([p \in Provider |-> FeeOf(whole[p])]),
         burn |-> SumFunction([p \in Provider |-> BurnOf(whole[p])])]

\* validateTargetedEpochReservationBindings
Allocatable(id, e) ==
    /\ head[id] # NoHead
    /\ head[id].settlement_epoch = e
    /\ id \notin consumed
    /\ session[head[id].reservation] =
          [max_spend |-> head[id].incremental, settlement_ready |-> TRUE]

ProviderPayable(id, e) ==
    /\ HeadRevision(id) = ActiveRevision(HeadProvider(id), e)
    /\ registration[HeadProvider(id)].status = "active"
    /\ registration[HeadProvider(id)].accepts

BatchFits(ids) ==
    Cardinality({HeadUser(id) : id \in ids}) + Cardinality({HeadProvider(id) : id \in ids})
        + Cardinality(ids) <= MaxApplyBatch

Deltas(e, earnings) ==
    [p \in Provider |-> providerSettlementPageDelta(gross[e][p], earnings[p])]

\* The pending state after a page, from the one before it.
Accumulated(before, e, ids, deltas) ==
    [epoch |-> e, count |-> before.count + Cardinality(ids),
     debit |-> before.debit + SumIncremental(ids),
     fee |-> before.fee + SumFunction([p \in Provider |-> deltas[p].fee]),
     burn |-> before.burn + SumFunction([p \in Provider |-> deltas[p].burn]),
     commit |-> before.commit]

MarkGross(e, earnings) ==
    gross' = [gross EXCEPT ![e] = [p \in Provider |-> @[p] + earnings[p]]]

\* Mutant: the holds of the settled sessions are not taken off the summary.
DebitBalancesOnly(debits) ==
    /\ balance' = [u \in User |-> balance[u] - debits[u]]
    /\ reserved' = reserved

DebitAccounts(debits) ==
    /\ balance' = [u \in User |-> balance[u] - debits[u]]
    /\ reserved' = [u \in User |-> reserved[u] - debits[u]]

\* Mutant: settled receipts get no consumption record.
ConsumeNothing(ids) ==
    /\ consumed' = consumed
    /\ session' = [r \in Reservation |->
                      IF r \in {head[id].reservation : id \in ids} THEN NoSession ELSE session[r]]

Consume(ids) ==
    /\ consumed' = consumed \cup ids
    /\ session' = [r \in Reservation |->
                      IF r \in {head[id].reservation : id \in ids} THEN NoSession ELSE session[r]]

\* A pending payout revision that is paid becomes the current one.
PromoteRevisions(e, ids) ==
    pointer' = [p \in Provider |->
        IF /\ pointer[p].pending # 0 /\ pointer[p].activation <= e
           /\ \E id \in ids : HeadProvider(id) = p /\ HeadRevision(id) = pointer[p].pending
        THEN [pointer[p] EXCEPT !.current = pointer[p].pending, !.pending = 0, !.activation = 0]
        ELSE pointer[p]]

\* Mutant: the admin's last_page flag is believed.
AnyPageCompletes(done) == done.count <= done.commit.count

Completes(done) ==
    /\ done.count = done.commit.count
    /\ done.debit = done.commit.use
    /\ done.fee = done.commit.fee /\ done.burn = done.commit.burn

FinishPage(done) ==
    \/ /\ Completes(done)
       /\ updated_epoch' = done.epoch /\ pending' = NoPending
    \/ /\ done.count < done.commit.count
       /\ pending' = done /\ UNCHANGED updated_epoch

applyPage(e, ids, before) ==
    LET debits == Debits(ids)
        earnings == Earnings(ids)
        deltas == Deltas(e, earnings)
    IN  /\ ids # {}
        /\ \A id \in ids : Allocatable(id, e) /\ ProviderPayable(id, e)
        /\ BatchFits(ids)
        /\ validateFrozenEpoch(e)
        /\ before.commit.count = Len(index[e])
        /\ debits \in [User -> Nat]
        /\ \A u \in User : debits[u] <= balance[u] /\ debits[u] <= reserved[u]
        /\ \A p \in {HeadProvider(id) : id \in ids} : deltas[p].provider > 0
        /\ FinishPage(Accumulated(before, e, ids, deltas))
        /\ DebitAccounts(debits)
        /\ Consume(ids)
        /\ MarkGross(e, earnings)
        /\ earned' = [p \in Provider |-> earned[p] + deltas[p].provider]
        /\ feeCum' = feeCum + SumFunction([p \in Provider |-> deltas[p].fee])
        /\ burnCum' = burnCum + SumFunction([p \in Provider |-> deltas[p].burn])
        /\ PromoteRevisions(e, ids)
        /\ UNCHANGED <<clawed, absorbed, deposit, disputed, anchor, reservation, head,
                       index, frozen, ingress, registration>>

commitApplyTargetedEpochPage0(ids) ==
    LET e == updated_epoch + 1 IN
    /\ pending = NoPending /\ e <= MaxEpoch
    /\ index[e] # <<>>
    /\ applyPage(e, ids, [epoch |-> e, count |-> 0, debit |-> 0, fee |-> 0, burn |-> 0,
                          commit |-> EpochCommit(e)])

applyTargetedEpoch(ids) ==
    /\ pending # NoPending
    /\ applyPage(pending.epoch, ids, pending)

epochSealEmpty(e) ==
    /\ pending = NoPending /\ e = updated_epoch + 1
    /\ index[e] = <<>>
    /\ validateFrozenEpoch(e)
    /\ updated_epoch' = e
    /\ UNCHANGED <<accounts, sessions, consumed, index, frozen, ingress, pending, settled,
                   providers>>

-----------------------------------------------------------------------------
Deposits == \E d \in Deposit : creditDeposit(d)

Disputes ==
    \/ \E d \in Reversible, dispute \in Dispute, au \in DisputedAu :
          fiatChargeback(d, dispute, au)
    \/ \E d \in Reversible : tapDepositReversal(d)

Registrations ==
    \E p \in Churning : \/ banProvider(p) \/ unban(p)
                        \/ joinEnclave(p) \/ leaveEnclave(p)
                        \/ setProviderRails(p)

Bindings == \E p \in Provider : bindProviderPayout(p)

Reserve ==
    \E r \in Reservation, u \in User, p \in Provider, b \in Billing, a \in Attempt,
       spend \in MaxSpend :
        \E prior \in VoucherBaselines(a) : spendReserveTargeted(r, u, p, b, a, prior, spend)

Receipts ==
    \E r \in Reservation, seq \in 1..MaxSeq, cum \in Owed :
        recordUsageReceipt(r, seq, cum) \/ recordFinalReceipt(r, seq, cum)

Close == \E r \in Reservation : closeUsageReservation(r)
Expire == \E r \in Reservation : expireUsageReservation(r)
FreezeEpoch == \E e \in 1..MaxEpoch : epochFreeze(e)
SealEpoch == \E e \in 1..MaxEpoch : epochSealEmpty(e)
SettlePage ==
    \E ids \in SUBSET Identity : commitApplyTargetedEpochPage0(ids) \/ applyTargetedEpoch(ids)

Next ==
    \/ Deposits \/ Disputes \/ Registrations \/ Bindings
    \/ Reserve \/ Receipts \/ Close \/ Expire
    \/ FreezeEpoch \/ SealEpoch \/ SettlePage

Spec == Init /\ [][Next]_vars

\* The admin keeps freezing and settling, and buyers expire what providers left open.
Fairness ==
    /\ WF_vars(FreezeEpoch) /\ WF_vars(SealEpoch) /\ WF_vars(SettlePage)
    /\ WF_vars(Expire)

LiveSpec == Spec /\ Fairness

-----------------------------------------------------------------------------
(***************************************************************************)
(* Types.                                                                  *)
(***************************************************************************)
Anchors == [user : User, epoch : Nat, latest : Attempt]
Reservations ==
    [status : {"active", "closed"}, user : User, provider : Provider, revision : Nat,
     billing : Billing, attempt : Attempt, prior : Nat, epoch : Nat]
Heads ==
    [seq : Nat \ {0}, cum : Nat, incremental : Nat \ {0}, reservation : Reservation,
     settlement_epoch : Nat]
Commits == [count : Nat, use : Int, fee : Int, burn : Int]
Pendings ==
    [epoch : Nat \ {0}, count : Nat, debit : Int, fee : Int, burn : Int, commit : Commits]
Registered == [status : {"active", "banned"}, serving : BOOLEAN, accepts : BOOLEAN]
Pointers == [latest : Nat, current : Nat, pending : Nat, activation : Nat]

AccountsTypeOK ==
    /\ balance \in [User -> Nat] /\ reserved \in [User -> Nat] /\ clawed \in [User -> Nat]
    /\ absorbed \in Nat
    /\ deposit \in [Deposit -> [credited : BOOLEAN, disputed : Nat]]
    /\ disputed \subseteq Deposit \X Dispute

SessionsTypeOK ==
    /\ anchor \in [Billing -> Anchors \cup {NoAnchor}]
    /\ reservation \in [Reservation -> Reservations \cup {NoReservation}]
    /\ session \in [Reservation -> [max_spend : Nat, settlement_ready : BOOLEAN]]
    /\ head \in [Identity -> Heads \cup {NoHead}]

EpochsTypeOK ==
    /\ consumed \subseteq Identity
    /\ index \in [Epoch -> Seq(Identity)]
    /\ frozen \in [Epoch -> Nat \cup {NotFrozen}]
    /\ ingress \in [next : Nat, activated : Nat]
    /\ updated_epoch \in 0..MaxEpoch
    /\ pending # NoPending => pending.epoch \in 1..MaxEpoch

ProvidersTypeOK ==
    /\ registration \in [Provider -> Registered]
    /\ pointer \in [Provider -> Pointers]

SettledTypeOK ==
    /\ pending \in Pendings \cup {NoPending}
    /\ gross \in [Epoch -> [Provider -> Int]]
    /\ earned \in [Provider -> Int] /\ feeCum \in Int /\ burnCum \in Int

\* Every record holds what the code's normalisers accept; no amount is negative.
TypeOK ==
    AccountsTypeOK /\ SessionsTypeOK /\ EpochsTypeOK /\ ProvidersTypeOK /\ SettledTypeOK

(***************************************************************************)
(* Safety.                                                                 *)
(***************************************************************************)
\* The spend summary of a user is the sum of the user's session records at all
\* times: reserve, final receipt, close, expiry and settlement page keep the
\* two in step, so no credit is stranded in a hold nobody can release.
ReservedIsOutstanding ==
    \A u \in User :
        LET own == {r \in Reservation : reservation[r] # NoReservation
                                        /\ reservation[r].user = u}
        IN  reserved[u] = SumFunction([r \in own |-> session[r].max_spend])

\* Credit is promised once: the holds of a user never exceed the balance, except
\* by what chargebacks and deposit reversals have since taken from under them.
ReservedBacked == \A u \in User : reserved[u] <= balance[u] + clawed[u]

Spent == SumIncremental(consumed)

\* Every credited amount is in a balance, taken back, or paid out as earning,
\* fee or burn, and what was paid out is what the consumed receipts owed; a
\* dispute is either taken back or absorbed.
ValueConserved ==
    /\ SumFunction([d \in Deposit |-> IF deposit[d].credited THEN DepositTerms[d].au ELSE 0])
          = SumFunction(balance) + SumFunction(clawed) + Spent
    /\ SumFunction(earned) + feeCum + burnCum = Spent
    /\ SumFunction(clawed) + absorbed = SumFunction([d \in Deposit |-> deposit[d].disputed])

ReservationsOf(b, a) ==
    {r \in Reservation : /\ reservation[r] # NoReservation
                         /\ reservation[r].billing = b /\ reservation[r].attempt = a}

\* A reservation closed with nothing to settle.
ClosedUnused(r) ==
    /\ reservation[r].status = "closed" /\ session[r] = NoSession
    /\ head[IdentityOf(r)] # NoHead => head[IdentityOf(r)].reservation # r

\* A later attempt was opened from the cumulative amount its predecessor reached,
\* which no late receipt of the predecessor moves any more, and an attempt is only
\* renewed after its reservation was closed with nothing to settle: at most one
\* reservation of an attempt is ever charged.
AttemptChain ==
    \A b \in Billing, a \in Attempt :
        LET of == ReservationsOf(b, a)
        IN  /\ of # {} /\ a > 0 =>
                /\ head[<<b, a - 1>>] # NoHead
                /\ \E r \in of : reservation[r].prior = head[<<b, a - 1>>].cum
            /\ \A r, s \in of : r # s => ClosedUnused(r) \/ ClosedUnused(s)

\* "redispatch attempts must exactly chain" (contract-receipt-settlement.test.js:966),
\* said of every voucher.  The branch for a renewed attempt does not compare the
\* baseline, so TLC refutes it; no run checks it.
ExactChain ==
    \A b \in Billing, a \in Attempt \ {0} : \A r \in ReservationsOf(b, a) :
        head[<<b, a - 1>>] # NoHead /\ reservation[r].prior = head[<<b, a - 1>>].cum

\* The buyer's vouchers for one attempt of the billing id all claim one baseline.
SameBaselines(b) ==
    \A a \in Attempt : \A r, s \in ReservationsOf(b, a) :
        reservation[r].prior = reservation[s].prior

\* However often a billing id is redispatched, all its attempts together are
\* charged no more than the highest cumulative amount a receipt ever stated,
\* unless the buyer renewed an attempt under another baseline.
BilledOnce ==
    \A b \in Billing :
        LET heads == {a \in Attempt : head[<<b, a>>] # NoHead}
        IN  heads # {} /\ SameBaselines(b) =>
                SumIncremental({<<b, a>> : a \in heads})
                    <= Max({head[<<b, a>>].cum : a \in heads})

\* An epoch closes over all of its receipts: a receipt indexed in a settled epoch
\* has been consumed, and no receipt is consumed before its epoch is being settled.
NoReceiptLeftBehind ==
    \A id \in Identity : head[id] # NoHead /\ head[id].settlement_epoch # 0 =>
        /\ head[id].settlement_epoch <= updated_epoch => id \in consumed
        /\ id \in consumed => head[id].settlement_epoch <= base

\* A receipt that is ready to settle is in exactly one epoch's index, once, and
\* its head names that epoch, although duplicates are only looked for in the
\* last index page; nothing else is indexed.
IndexedOnce ==
    /\ \A e \in Epoch : \A i, j \in 1..Len(index[e]) : index[e][i] = index[e][j] => i = j
    /\ \A e \in Epoch, id \in Identity :
          id \in Indexed(e) <=> head[id] # NoHead /\ head[id].settlement_epoch = e

\* A receipt or a close always finds an open epoch: the ingress cursor is never
\* out of step with the apply state and never points at a frozen epoch.
IngressAlwaysOpen == ValidCursor /\ frozen[receiptSettlementEpoch] = NotFrozen

\* How an epoch is cut into pages changes nobody's share: each provider has
\* exactly the net of its whole gross per epoch, and fee and burn are theirs too.
PagingIsNeutral ==
    LET Net(au) == au - FeeOf(au) - BurnOf(au)
        Overall(f(_)) ==
            SumFunction([e \in Epoch |-> SumFunction([p \in Provider |-> f(gross[e][p])])])
    IN  /\ \A p \in Provider : earned[p] = SumFunction([e \in Epoch |-> Net(gross[e][p])])
        /\ feeCum = Overall(FeeOf) /\ burnCum = Overall(BurnOf)

\* Page zero fixes an epoch's commit for good, and no page takes it out of reach:
\* the receipts not yet consumed carry exactly what its count and its total still
\* miss, and fee and burn, rounded over each provider's gross so far, come out at
\* the commit's once they are added.  (A page may still be refused for a balance
\* or a provider; this is about the totals.)
CommitReachable ==
    pending # NoPending =>
        LET rest == {id \in Indexed(pending.epoch) : id \notin consumed}
            whole == [p \in Provider |-> gross[pending.epoch][p] + Earnings(rest)[p]]
        IN  /\ pending.fee = SumFunction([p \in Provider |-> FeeOf(gross[pending.epoch][p])])
            /\ pending.burn = SumFunction([p \in Provider |-> BurnOf(gross[pending.epoch][p])])
            /\ pending.count + Cardinality(rest) = pending.commit.count
            /\ pending.debit + SumIncremental(rest) = pending.commit.use
            /\ pending.commit.fee = SumFunction([p \in Provider |-> FeeOf(whole[p])])
            /\ pending.commit.burn = SumFunction([p \in Provider |-> BurnOf(whole[p])])

(***************************************************************************)
(* Action properties.                                                      *)
(***************************************************************************)
KeepsBatches == \A e \in Epoch : frozen[e] # NotFrozen \/ e <= base => index'[e] = index[e]

\* The receipts an epoch will be settled over are fixed once the epoch is frozen,
\* being settled, or settled.
SettledBatchFixed == [][KeepsBatches]_vars

KeepsEvidence ==
    \A b \in Billing, a \in Attempt :
        LET id == <<b, a>> IN
        /\ head[id] # NoHead /\ head[id].settlement_epoch # 0 => head'[id] = head[id]
        /\ anchor[b].latest > a /\ head[id] # NoHead => head'[id].cum = head[id].cum

\* A head that is ready to settle never changes again, and one that a later
\* attempt has built on never changes what it owes.
EvidenceFixed == [][KeepsEvidence]_vars

(***************************************************************************)
(* Liveness, within the epochs of the instance.                            *)
(***************************************************************************)
\* Every reservation is eventually closed, by a final receipt, by the provider,
\* or by the buyer after expiry and grace.
ReservationsResolve ==
    \A r \in Reservation :
        /\ reservation[r].status = "active"
        /\ reservation[r].epoch + ExpiryEpochs + GraceEpochs <= MaxEpoch
        ~> reservation[r].status = "closed"

\* Every receipt that is ready to settle is eventually settled.
ReceiptsSettle ==
    \A id \in Identity :
        head[id] # NoHead /\ head[id].settlement_epoch \in 1..MaxEpoch ~> id \in consumed
=============================================================================
