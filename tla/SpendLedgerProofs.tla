------------------------- MODULE SpendLedgerProofs -------------------------
(***************************************************************************)
(* What TLAPS proves about the spend ledger, for any sets of users,        *)
(* providers, billing ids, reservations and deposits and any bounds.       *)
(***************************************************************************)
EXTENDS SpendLedger, SumProofs, TLAPS

\* The parts of the type invariant that do not depend on a sum over receipts.
Typed == AccountsTypeOK /\ SessionsTypeOK /\ EpochsTypeOK /\ ProvidersTypeOK

-----------------------------------------------------------------------------
(***************************************************************************)
(* Type correctness.                                                       *)
(***************************************************************************)
\* The base epoch is one that exists, so the epochs derived from it are numbers.
LEMMA EpochNumbers ==
    ASSUME EpochsTypeOK
    PROVE  /\ base \in 0..MaxEpoch
           /\ ActiveBillingEpoch \in 1..(MaxEpoch + 1)
           /\ receiptSettlementEpoch \in Nat /\ receiptSettlementEpoch > base
  BY LedgerAssumption DEF EpochsTypeOK, base, ActiveBillingEpoch, receiptSettlementEpoch

\* The revision an epoch pays is a number.
LEMMA RevisionNumber ==
    ASSUME ProvidersTypeOK, NEW p \in Provider, NEW e \in Int
    PROVE  ActiveRevision(p, e) \in Nat
  BY DEF ProvidersTypeOK, Pointers, ActiveRevision

\* The initial state is well typed.
LEMMA InitTyped == Init => Typed
  <1> SUFFICES ASSUME Init PROVE Typed
    OBVIOUS
  <1>1. AccountsTypeOK
    BY DEF Init, AccountsTypeOK
  <1>2. SessionsTypeOK
    BY DEF Init, SessionsTypeOK, NoAnchor, NoReservation, NoSession, NoHead
  <1>3. EpochsTypeOK
    BY LedgerAssumption DEF Init, EpochsTypeOK, NoIngress, NoPending, Epoch, Identity
  <1>4. ProvidersTypeOK
    BY DEF Init, ProvidersTypeOK, NoPointer, Pointers, Registered
  <1> QED
    BY <1>1, <1>2, <1>3, <1>4 DEF Typed

\* Registrations and payout bindings leave the ledger alone.
LEMMA ProviderFrame ==
    ASSUME Registrations \/ Bindings
    PROVE  UNCHANGED <<accounts, sessions, epochs, settled>>
  <1>1. CASE Bindings
    BY <1>1 DEF Bindings, bindProviderPayout
  <1>2. CASE Registrations
    <2>1. \E p \in Churning : \E changes : Reregister(p, changes)
      BY <1>2 DEF Registrations, banProvider, unban, joinEnclave, leaveEnclave, setProviderRails
    <2> QED
      BY <2>1 DEF Reregister
  <1> QED
    BY <1>1, <1>2

\* Freezing and sealing an epoch move no credit and no receipt.
LEMMA EpochFrame ==
    ASSUME FreezeEpoch \/ SealEpoch
    PROVE  UNCHANGED <<accounts, sessions, consumed, index, pending, settled, providers>>
  BY DEF FreezeEpoch, SealEpoch, epochFreeze, epochSealEmpty

\* Deposits and disputes touch the account records only.
LEMMA DepositFrame ==
    ASSUME Deposits \/ Disputes
    PROVE  UNCHANGED <<reserved, sessions, epochs, settled, providers>>
  BY DEF Deposits, creditDeposit, Disputes, fiatChargeback, tapDepositReversal

\* A record that is not the sentinel has the fields of a reservation, a head, an anchor.
LEMMA Present ==
    ASSUME SessionsTypeOK
    PROVE  /\ \A r \in Reservation :
                 reservation[r].status \in {"active", "closed"} => reservation[r] \in Reservations
           /\ \A r \in Reservation :
                 reservation[r] # NoReservation => reservation[r] \in Reservations
           /\ \A id \in Identity : head[id] # NoHead => head[id] \in Heads
           /\ \A b \in Billing : anchor[b] # NoAnchor => anchor[b] \in Anchors
  BY DEF SessionsTypeOK, NoReservation

\* A deposit's terms name a user and an amount.
LEMMA TermsTyped ==
    ASSUME NEW d \in Deposit
    PROVE  DepositTerms[d].user \in User /\ DepositTerms[d].au \in Nat
  BY LedgerAssumption

\* A dispute takes from a balance at most what is there.
LEMMA TakeBackTyped ==
    ASSUME AccountsTypeOK, NEW d \in Deposit, NEW au \in Nat, TakeBack(d, au)
    PROVE  /\ balance' \in [User -> Nat] /\ clawed' \in [User -> Nat] /\ absorbed' \in Nat
           /\ deposit' \in [Deposit -> [credited : BOOLEAN, disputed : Nat]]
           /\ \A u \in User : balance'[u] + clawed'[u] = balance[u] + clawed[u]
  <1> DEFINE who == DepositTerms[d].user
  <1>1. /\ who \in User
        /\ Clawback(who, au) \in 0..balance[who] /\ Clawback(who, au) <= au
    BY TermsTyped DEF AccountsTypeOK, Clawback
  <1>2. balance' \in [User -> Nat] /\ clawed' \in [User -> Nat] /\ absorbed' \in Nat
    BY <1>1 DEF AccountsTypeOK, TakeBack
  <1>3. deposit' \in [Deposit -> [credited : BOOLEAN, disputed : Nat]]
    BY DEF AccountsTypeOK, TakeBack
  <1>4. \A u \in User : balance'[u] + clawed'[u] = balance[u] + clawed[u]
    BY <1>1 DEF AccountsTypeOK, TakeBack
  <1> QED
    BY <1>2, <1>3, <1>4

\* A close releases part of the hold, and of nobody else's.
LEMMA CloseTyped ==
    ASSUME Typed, NEW r \in Reservation, reservation[r] \in Reservations,
           \/ ReleaseAll(r)
           \/ \E h : RetainAndIndex(r, h)
    PROVE  reserved' \in [User -> Nat] /\ \A u \in User : reserved'[u] <= reserved[u]
  <1>1. reservation[r].user \in User /\ session[r].max_spend \in Nat
    BY DEF Typed, SessionsTypeOK, Reservations
  <1>2. CASE ReleaseAll(r)
    BY <1>1, <1>2 DEF Typed, AccountsTypeOK, ReleaseAll
  <1>3. ASSUME NEW h, RetainAndIndex(r, h)
        PROVE  reserved' \in [User -> Nat] /\ \A u \in User : reserved'[u] <= reserved[u]
    BY <1>1, <1>3 DEF Typed, AccountsTypeOK, RetainAndIndex
  <1> QED
    BY <1>2, <1>3

\* Every step keeps the account records well typed: a balance is never debited,
\* and a hold never released, beyond what it holds.
LEMMA AccountsTyped == Typed /\ [Next]_vars => AccountsTypeOK'
  <1> SUFFICES ASSUME Typed, [Next]_vars PROVE AccountsTypeOK'
    OBVIOUS
  <1>0. AccountsTypeOK
    BY DEF Typed
  <1>1. CASE Deposits
    <2> PICK d \in Deposit : creditDeposit(d)
      BY <1>1 DEF Deposits
    <2>1. balance' \in [User -> Nat]
      BY <1>0, TermsTyped DEF AccountsTypeOK, creditDeposit
    <2>2. deposit' \in [Deposit -> [credited : BOOLEAN, disputed : Nat]]
      BY <1>0 DEF AccountsTypeOK, creditDeposit
    <2> QED
      BY <1>0, <2>1, <2>2 DEF AccountsTypeOK, creditDeposit
  <1>2. CASE Disputes
    <2>1. ASSUME NEW d \in Reversible, NEW dispute \in Dispute, NEW au \in DisputedAu,
                 fiatChargeback(d, dispute, au)
          PROVE  AccountsTypeOK'
      <3>1. d \in Deposit /\ au \in Nat
        BY LedgerAssumption
      <3> QED
        BY <1>0, <2>1, <3>1, TakeBackTyped DEF AccountsTypeOK, fiatChargeback
    <2>2. ASSUME NEW d \in Reversible, tapDepositReversal(d)
          PROVE  AccountsTypeOK'
      <3>1. d \in Deposit /\ DepositTerms[d].au \in Nat
        BY LedgerAssumption, TermsTyped
      <3> QED
        BY <1>0, <2>2, <3>1, TakeBackTyped DEF AccountsTypeOK, tapDepositReversal
    <2> QED
      BY <1>2, <2>1, <2>2 DEF Disputes
  <1>3. CASE Registrations \/ Bindings \/ FreezeEpoch \/ SealEpoch \/ UNCHANGED vars
    <2>1. UNCHANGED accounts
      BY <1>3, ProviderFrame, EpochFrame DEF vars
    <2> QED
      BY <1>0, <2>1 DEF AccountsTypeOK, accounts
  <1>4. CASE Reserve
    BY <1>0, <1>4, LedgerAssumption DEF Reserve, spendReserveTargeted, AccountsTypeOK
  <1>5. CASE Receipts
    <2> PICK r \in Reservation, seq \in 1..MaxSeq, cum \in Owed :
                recordUsageReceipt(r, seq, cum) \/ recordFinalReceipt(r, seq, cum)
      BY <1>5 DEF Receipts
    <2>1. CASE recordUsageReceipt(r, seq, cum)
      BY <1>0, <2>1 DEF recordUsageReceipt, AccountsTypeOK, accounts
    <2>2. CASE recordFinalReceipt(r, seq, cum)
      <3>1. reservation[r] \in Reservations
        BY <2>2, Present DEF recordFinalReceipt, ReceiptFits, Typed
      <3>2. reserved' \in [User -> Nat]
        BY <2>2, <3>1, CloseTyped DEF recordFinalReceipt
      <3> QED
        BY <1>0, <2>2, <3>2 DEF recordFinalReceipt, AccountsTypeOK
    <2> QED
      BY <2>1, <2>2
  <1>6. CASE Close \/ Expire
    <2> SUFFICES ASSUME NEW r \in Reservation, CloseUsage(r) PROVE AccountsTypeOK'
      BY <1>6 DEF Close, Expire, closeUsageReservation, expireUsageReservation
    <2>1. reservation[r] \in Reservations
      BY Present DEF CloseUsage, Typed
    <2>2. reserved' \in [User -> Nat]
      BY <2>1, CloseTyped DEF CloseUsage
    <2> QED
      BY <1>0, <2>2 DEF CloseUsage, AccountsTypeOK
  <1>7. CASE SettlePage
    <2> PICK e, ids, before : applyPage(e, ids, before)
      BY <1>7 DEF SettlePage, commitApplyTargetedEpochPage0, applyTargetedEpoch
    <2>1. PICK debits \in [User -> Nat] :
             /\ \A u \in User : debits[u] <= balance[u] /\ debits[u] <= reserved[u]
             /\ DebitAccounts(debits)
      BY DEF applyPage
    <2>2. balance' \in [User -> Nat] /\ reserved' \in [User -> Nat]
      BY <1>0, <2>1 DEF DebitAccounts, AccountsTypeOK
    <2> QED
      BY <1>0, <2>2 DEF applyPage, AccountsTypeOK
  <1> QED
    BY <1>1, <1>2, <1>3, <1>4, <1>5, <1>6, <1>7 DEF Next

\* Replacing some values of a function by another of its type keeps its type.
LEMMA ReplacedTyped ==
    ASSUME NEW S, NEW T, NEW f \in [S -> T], NEW v \in T, NEW D
    PROVE  [x \in S |-> IF x \in D THEN v ELSE f[x]] \in [S -> T]
  OBVIOUS

\* Closing a reservation changes its status only.
LEMMA ClosedTyped ==
    ASSUME SessionsTypeOK, NEW r \in Reservation, reservation[r] \in Reservations,
           CloseReservation(r)
    PROVE  /\ reservation' \in [Reservation -> Reservations \cup {NoReservation}]
           /\ reservation' = [reservation EXCEPT ![r] = reservation'[r]]
           /\ reservation'[r] = [reservation[r] EXCEPT !.status = "closed"]
  <1>1. [reservation[r] EXCEPT !.status = "closed"] \in Reservations
    BY DEF Reservations
  <1> QED
    BY <1>1 DEF SessionsTypeOK, CloseReservation

\* Every step keeps anchors, reservations, sessions and receipt heads well typed.
LEMMA SessionsTyped == Typed /\ [Next]_vars => SessionsTypeOK'
  <1> SUFFICES ASSUME Typed, [Next]_vars PROVE SessionsTypeOK'
    OBVIOUS
  <1> USE LedgerAssumption DEF Typed
  <1>1. CASE Deposits \/ Disputes \/ Registrations \/ Bindings \/ FreezeEpoch \/ SealEpoch
             \/ UNCHANGED vars
    <2>1. UNCHANGED sessions
      BY <1>1, DepositFrame, ProviderFrame, EpochFrame DEF vars
    <2> QED
      BY <2>1 DEF sessions, SessionsTypeOK
  <1>2. CASE Reserve
    <2> PICK r \in Reservation, u \in User, p \in Provider, b \in Billing, a \in Attempt,
             spend \in MaxSpend : \E prior \in VoucherBaselines(a) :
                 spendReserveTargeted(r, u, p, b, a, prior, spend)
      BY <1>2 DEF Reserve
    <2> PICK prior \in VoucherBaselines(a) : spendReserveTargeted(r, u, p, b, a, prior, spend)
      OBVIOUS
    <2>1. ActiveBillingEpoch \in Nat /\ ActiveRevision(p, ActiveBillingEpoch) \in Nat
      BY EpochNumbers, RevisionNumber
    <2>2. prior \in Nat
      BY DEF VoucherBaselines
    <2> QED
      BY <2>1, <2>2 DEF spendReserveTargeted, SessionsTypeOK, Reservations, Anchors
  <1>3. CASE Receipts
    <2> PICK r \in Reservation, seq \in 1..MaxSeq, cum \in Owed :
                recordUsageReceipt(r, seq, cum) \/ recordFinalReceipt(r, seq, cum)
      BY <1>3 DEF Receipts
    <2>1. /\ ReceiptFits(r, seq, cum)
          /\ reservation[r] \in Reservations
          /\ IdentityOf(r) \in Identity
      BY Present DEF recordUsageReceipt, recordFinalReceipt, ReceiptFits, IdentityOf,
                     Reservations, Identity
    <2>2. NewHead(r, seq, cum) \in Heads
      BY <2>1 DEF ReceiptFits, IncrementFits, NewHead, Heads, Reservations, SessionsTypeOK
    <2>3. CASE recordUsageReceipt(r, seq, cum)
      BY <2>1, <2>2, <2>3 DEF recordUsageReceipt, SessionsTypeOK
    <2>4. CASE recordFinalReceipt(r, seq, cum)
      <3> DEFINE h == NewHead(r, seq, cum)
      <3>0. CloseReservation(r)
        BY <2>4 DEF recordFinalReceipt
      <3>1. RetainAndIndex(r, h) /\ UNCHANGED anchor
        BY <2>4 DEF recordFinalReceipt
      <3>2. h \in Heads
        BY <2>2
      <3> HIDE DEF h
      <3>3. ReadyAt(h, EpochOfReceipt(r)) \in Heads
        BY <3>2, EpochNumbers DEF ReadyAt, EpochOfReceipt, Heads
      <3>4. head' \in [Identity -> Heads \cup {NoHead}]
        BY <2>1, <3>1, <3>3 DEF RetainAndIndex, SessionsTypeOK
      <3>5. session' \in [Reservation -> [max_spend : Nat, settlement_ready : BOOLEAN]]
        BY <3>1, <3>2 DEF RetainAndIndex, SessionsTypeOK, Heads
      <3>6. reservation' \in [Reservation -> Reservations \cup {NoReservation}]
        <4>1. reservation[r] \in Reservations
          BY <2>1
        <4> HIDE LedgerAssumption
        <4> QED
          BY <3>0, <4>1, ClosedTyped
      <3>7. anchor' \in [Billing -> Anchors \cup {NoAnchor}]
        BY <3>1 DEF SessionsTypeOK
      <3> QED
        BY <3>4, <3>5, <3>6, <3>7 DEF SessionsTypeOK
    <2> QED
      BY <2>3, <2>4
  <1>4. CASE Close \/ Expire
    <2> SUFFICES ASSUME NEW r \in Reservation, CloseUsage(r) PROVE SessionsTypeOK'
      BY <1>4 DEF Close, Expire, closeUsageReservation, expireUsageReservation
    <2>1. reservation[r] \in Reservations /\ IdentityOf(r) \in Identity
      BY Present DEF CloseUsage, IdentityOf, Reservations, Identity
    <2>2. CASE ReleaseAll(r)
      BY <2>1, <2>2 DEF CloseUsage, ReleaseAll, CloseReservation, NoSession, SessionsTypeOK,
                        Reservations
    <2>3. CASE head[IdentityOf(r)] # NoHead /\ RetainAndIndex(r, head[IdentityOf(r)])
      <3>1. head[IdentityOf(r)] \in Heads
        BY <2>1, <2>3, Present
      <3>2. ReadyAt(head[IdentityOf(r)], EpochOfReceipt(r)) \in Heads
        BY <3>1, EpochNumbers DEF ReadyAt, EpochOfReceipt, Heads
      <3>3. head' \in [Identity -> Heads \cup {NoHead}]
        BY <2>1, <2>3, <3>2 DEF RetainAndIndex, SessionsTypeOK
      <3>4. session' \in [Reservation -> [max_spend : Nat, settlement_ready : BOOLEAN]]
        BY <2>3, <3>1 DEF RetainAndIndex, SessionsTypeOK, Heads
      <3>5. CloseReservation(r) /\ UNCHANGED anchor
        BY DEF CloseUsage
      <3>6. reservation' \in [Reservation -> Reservations \cup {NoReservation}]
        <4>1. SessionsTypeOK
          OBVIOUS
        <4> HIDE LedgerAssumption DEF Typed
        <4> QED
          BY <2>1, <3>5, <4>1, ClosedTyped
      <3>7. anchor' \in [Billing -> Anchors \cup {NoAnchor}]
        BY <3>5 DEF SessionsTypeOK
      <3> QED
        BY <3>3, <3>4, <3>6, <3>7 DEF SessionsTypeOK
    <2> QED
      BY <2>2, <2>3 DEF CloseUsage
  <1>5. CASE SettlePage
    <2> PICK e, ids, before : applyPage(e, ids, before)
      BY <1>5 DEF SettlePage, commitApplyTargetedEpochPage0, applyTargetedEpoch
    <2>1. session' \in [Reservation -> [max_spend : Nat, settlement_ready : BOOLEAN]]
      <3>1. NoSession \in [max_spend : Nat, settlement_ready : BOOLEAN]
        BY DEF NoSession
      <3> QED
        BY <3>1, ReplacedTyped DEF applyPage, Consume, SessionsTypeOK
    <2> QED
      BY <2>1 DEF applyPage, SessionsTypeOK
  <1> QED
    BY <1>1, <1>2, <1>3, <1>4, <1>5 DEF Next

\* A receipt or a close appends at most one attempt, to the open epoch's index.
LEMMA IndexStep ==
    ASSUME Typed, Receipts \/ Close \/ Expire
    PROVE  /\ UNCHANGED <<consumed, frozen, ingress, updated_epoch, pending>>
           /\ \/ UNCHANGED index
              \/ \E id \in Identity :
                    /\ frozen[receiptSettlementEpoch] = NotFrozen
                    /\ index' = [index EXCEPT ![receiptSettlementEpoch] = Append(@, id)]
           /\ index' \in [Epoch -> Seq(Identity)]
  <1>1. PICK r \in Reservation :
           /\ reservation[r] \in Reservations
           /\ UNCHANGED <<consumed, frozen, ingress, updated_epoch, pending>>
           /\ UNCHANGED index \/ \E h : RetainAndIndex(r, h)
    <2>1. ASSUME NEW r \in Reservation, NEW seq \in 1..MaxSeq, NEW cum \in Owed,
                 recordUsageReceipt(r, seq, cum)
          PROVE  /\ reservation[r] \in Reservations /\ UNCHANGED epochs
      BY <2>1, Present DEF recordUsageReceipt, ReceiptFits, Typed
    <2>2. ASSUME NEW r \in Reservation, NEW seq \in 1..MaxSeq, NEW cum \in Owed,
                 recordFinalReceipt(r, seq, cum)
          PROVE  /\ reservation[r] \in Reservations
                 /\ UNCHANGED <<consumed, frozen, ingress, updated_epoch, pending>>
                 /\ \E h : RetainAndIndex(r, h)
      BY <2>2, Present DEF recordFinalReceipt, ReceiptFits, Typed
    <2>3. ASSUME NEW r \in Reservation, CloseUsage(r)
          PROVE  /\ reservation[r] \in Reservations
                 /\ UNCHANGED <<consumed, frozen, ingress, updated_epoch, pending>>
                 /\ UNCHANGED index \/ \E h : RetainAndIndex(r, h)
      BY <2>3, Present DEF CloseUsage, ReleaseAll, Typed
    <2>4. CASE Receipts
      BY <2>1, <2>2, <2>4 DEF Receipts, epochs
    <2>5. CASE Close \/ Expire
      BY <2>3, <2>5 DEF Close, Expire, closeUsageReservation, expireUsageReservation
    <2> QED
      BY <2>4, <2>5
  <1>2. IdentityOf(r) \in Identity
    BY <1>1 DEF IdentityOf, Identity, Reservations
  <1>3. CASE UNCHANGED index
    BY <1>1, <1>3 DEF Typed, EpochsTypeOK
  <1>4. ASSUME NEW h, RetainAndIndex(r, h)
        PROVE  /\ frozen[receiptSettlementEpoch] = NotFrozen
               /\ index' = [index EXCEPT ![receiptSettlementEpoch] = Append(@, IdentityOf(r))]
               /\ index' \in [Epoch -> Seq(Identity)]
    <2>1. /\ frozen[receiptSettlementEpoch] = NotFrozen
          /\ index' = [index EXCEPT ![receiptSettlementEpoch] = Append(@, IdentityOf(r))]
      BY <1>4 DEF RetainAndIndex, EpochOfReceipt, MayIndex
    <2>2. index \in [Epoch -> Seq(Identity)]
      BY DEF Typed, EpochsTypeOK
    <2>3. CASE receiptSettlementEpoch \in Epoch
      <3>1. Append(index[receiptSettlementEpoch], IdentityOf(r)) \in Seq(Identity)
        BY <1>2, <2>2, <2>3
      <3> QED
        BY <2>1, <2>2, <3>1
    <2>4. CASE receiptSettlementEpoch \notin Epoch
      BY <2>1, <2>2, <2>4
    <2> QED
      BY <2>1, <2>3, <2>4
  <1> QED
    BY <1>1, <1>2, <1>3, <1>4

\* The epoch of a page is the one being settled or the next one, and the page
\* leaves the apply state with this epoch settled or pending.
LEMMA PageEpoch ==
    ASSUME Typed, SettlePage
    PROVE  \E e \in 1..MaxEpoch, ids \in SUBSET Identity :
              /\ \E before : applyPage(e, ids, before)
              /\ \/ pending = NoPending /\ e = updated_epoch + 1
                 \/ pending # NoPending /\ e = pending.epoch
              /\ \/ updated_epoch' = e /\ pending' = NoPending
                 \/ pending'.epoch = e /\ UNCHANGED updated_epoch
  <1> PICK ids \in SUBSET Identity : commitApplyTargetedEpochPage0(ids) \/ applyTargetedEpoch(ids)
    BY DEF SettlePage
  <1>1. ASSUME NEW e, NEW before, applyPage(e, ids, before)
        PROVE  \/ updated_epoch' = e /\ pending' = NoPending
               \/ pending'.epoch = e /\ UNCHANGED updated_epoch
    BY <1>1 DEF applyPage, FinishPage, Accumulated
  <1>2. CASE commitApplyTargetedEpochPage0(ids)
    <2>1. updated_epoch + 1 \in 1..MaxEpoch
      BY <1>2 DEF commitApplyTargetedEpochPage0, Typed, EpochsTypeOK
    <2> QED
      BY <1>1, <1>2, <2>1 DEF commitApplyTargetedEpochPage0
  <1>3. CASE applyTargetedEpoch(ids)
    <2>1. pending.epoch \in 1..MaxEpoch
      BY <1>3 DEF applyTargetedEpoch, Typed, EpochsTypeOK
    <2> QED
      BY <1>1, <1>3, <2>1 DEF applyTargetedEpoch
  <1> QED
    BY <1>2, <1>3

\* Every step keeps the index, the freezes, the cursor and the apply state well typed.
LEMMA EpochsTyped == Typed /\ [Next]_vars => EpochsTypeOK'
  <1> SUFFICES ASSUME Typed, [Next]_vars PROVE EpochsTypeOK'
    OBVIOUS
  <1>0. EpochsTypeOK
    BY DEF Typed
  <1>1. CASE Deposits \/ Disputes \/ Registrations \/ Bindings \/ Reserve \/ UNCHANGED vars
    <2>1. UNCHANGED epochs
      <3>1. CASE Reserve
        BY <3>1 DEF Reserve, spendReserveTargeted
      <3> QED
        BY <1>1, <3>1, DepositFrame, ProviderFrame DEF vars
    <2> QED
      BY <1>0, <2>1 DEF epochs, EpochsTypeOK
  <1>2. CASE Receipts \/ Close \/ Expire
    <2>1. /\ UNCHANGED <<consumed, frozen, ingress, updated_epoch, pending>>
          /\ index' \in [Epoch -> Seq(Identity)]
      BY <1>0, <1>2, IndexStep DEF EpochsTypeOK
    <2> QED
      BY <1>0, <2>1 DEF EpochsTypeOK
  <1>3. CASE FreezeEpoch
    <2> PICK e \in 1..MaxEpoch : epochFreeze(e)
      BY <1>3 DEF FreezeEpoch
    <2>1. e \in Epoch /\ Len(index[e]) \in Nat
      BY <1>0, LedgerAssumption DEF EpochsTypeOK, Epoch
    <2>2. frozen' \in [Epoch -> Nat \cup {NotFrozen}]
      BY <1>0, <2>1 DEF epochFreeze, Freeze, EpochsTypeOK
    <2>3. ingress' \in [next : Nat, activated : Nat]
      <3>1. ingress.activated \in Nat /\ e \in Nat /\ e + 1 \in Nat
        BY <1>0 DEF EpochsTypeOK
      <3> QED
        BY <3>1 DEF epochFreeze, Freeze
    <2> QED
      BY <1>0, <2>2, <2>3 DEF epochFreeze, EpochsTypeOK
  <1>4. CASE SealEpoch
    <2>1. updated_epoch' \in 0..MaxEpoch /\ UNCHANGED <<consumed, index, frozen, ingress, pending>>
      BY <1>4, LedgerAssumption DEF SealEpoch, epochSealEmpty
    <2> QED
      BY <1>0, <2>1 DEF EpochsTypeOK
  <1>5. CASE SettlePage
    <2> PICK e \in 1..MaxEpoch, ids \in SUBSET Identity :
           /\ \E before : applyPage(e, ids, before)
           /\ \/ updated_epoch' = e /\ pending' = NoPending
              \/ pending'.epoch = e /\ UNCHANGED updated_epoch
      BY <1>5, PageEpoch
    <2> PICK before : applyPage(e, ids, before)
      OBVIOUS
    <2>1. UNCHANGED <<index, frozen, ingress>> /\ consumed' \subseteq Identity
      BY <1>0 DEF applyPage, Consume, EpochsTypeOK
    <2>2. updated_epoch' \in 0..MaxEpoch /\ (pending' # NoPending => pending'.epoch \in 1..MaxEpoch)
      BY <1>0, LedgerAssumption DEF EpochsTypeOK
    <2> QED
      BY <1>0, <2>1, <2>2 DEF EpochsTypeOK
  <1> QED
    BY <1>1, <1>2, <1>3, <1>4, <1>5 DEF Next

\* A registration that is replaced by a well-typed one stays well typed.
LEMMA ReregisterTyped ==
    ASSUME ProvidersTypeOK, NEW p \in Provider, NEW changes \in Registered,
           Reregister(p, changes)
    PROVE  ProvidersTypeOK'
  BY DEF ProvidersTypeOK, Reregister

\* Every step keeps registrations and payout pointers well typed.
LEMMA ProvidersTyped == Typed /\ [Next]_vars => ProvidersTypeOK'
  <1> SUFFICES ASSUME Typed, [Next]_vars PROVE ProvidersTypeOK'
    OBVIOUS
  <1>0. ProvidersTypeOK
    BY DEF Typed
  <1>1. CASE Deposits \/ Disputes \/ FreezeEpoch \/ SealEpoch \/ UNCHANGED vars
    BY <1>0, <1>1, DepositFrame, EpochFrame DEF vars, providers, ProvidersTypeOK
  <1>2. CASE Reserve \/ Receipts \/ Close \/ Expire
    <2>1. UNCHANGED providers
      BY <1>2 DEF Reserve, spendReserveTargeted, Receipts, recordUsageReceipt,
                  recordFinalReceipt, Close, Expire, closeUsageReservation,
                  expireUsageReservation, CloseUsage
    <2> QED
      BY <1>0, <2>1 DEF providers, ProvidersTypeOK
  <1>3. CASE Registrations
    <2> PICK p \in Churning : \/ banProvider(p) \/ unban(p) \/ joinEnclave(p)
                              \/ leaveEnclave(p) \/ setProviderRails(p)
      BY <1>3 DEF Registrations
    <2>0. p \in Provider /\ registration[p] \in Registered
      BY <1>0, LedgerAssumption DEF ProvidersTypeOK
    <2>1. CASE banProvider(p)
      <3>1. [registration[p] EXCEPT !.status = "banned", !.serving = FALSE] \in Registered
        BY <2>0 DEF Registered
      <3> QED
        BY <1>0, <2>0, <2>1, <3>1, ReregisterTyped DEF banProvider
    <2>2. CASE unban(p)
      <3>1. [registration[p] EXCEPT !.status = "active"] \in Registered
        BY <2>0 DEF Registered
      <3> QED
        BY <1>0, <2>0, <2>2, <3>1, ReregisterTyped DEF unban
    <2>3. CASE joinEnclave(p)
      <3>1. [registration[p] EXCEPT !.serving = TRUE] \in Registered
        BY <2>0 DEF Registered
      <3> QED
        BY <1>0, <2>0, <2>3, <3>1, ReregisterTyped DEF joinEnclave
    <2>4. CASE leaveEnclave(p)
      <3>1. [registration[p] EXCEPT !.serving = FALSE] \in Registered
        BY <2>0 DEF Registered
      <3> QED
        BY <1>0, <2>0, <2>4, <3>1, ReregisterTyped DEF leaveEnclave
    <2>5. CASE setProviderRails(p)
      <3>1. [registration[p] EXCEPT !.accepts = ~@] \in Registered
        BY <2>0 DEF Registered
      <3> QED
        BY <1>0, <2>0, <2>5, <3>1, ReregisterTyped DEF setProviderRails
    <2> QED
      BY <2>1, <2>2, <2>3, <2>4, <2>5
  <1>4. CASE Bindings
    <2> PICK p \in Provider : bindProviderPayout(p)
      BY <1>4 DEF Bindings
    <2>1. ActiveRevision(p, updated_epoch + 1) \in Nat /\ updated_epoch \in Nat
      BY <1>0, RevisionNumber, SMTT(30) DEF Typed, EpochsTypeOK
    <2>2. pointer[p].latest + 1 \in Nat
      BY <1>0 DEF ProvidersTypeOK, Pointers
    <2>3. pointer' \in [Provider -> Pointers]
      <3> DEFINE first == [latest |-> pointer[p].latest + 1, current |-> pointer[p].latest + 1,
                           pending |-> 0, activation |-> 0]
                 rotated == [latest |-> pointer[p].latest + 1,
                             current |-> ActiveRevision(p, updated_epoch + 1),
                             pending |-> pointer[p].latest + 1,
                             activation |-> updated_epoch + 2]
      <3>1. first \in Pointers /\ rotated \in Pointers
        BY <2>1, <2>2 DEF Pointers
      <3>2. pointer' = [pointer EXCEPT ![p] = IF pointer[p] = NoPointer THEN first ELSE rotated]
        BY DEF bindProviderPayout
      <3> HIDE DEF first, rotated
      <3> QED
        BY <1>0, <3>1, <3>2 DEF ProvidersTypeOK
    <2> QED
      BY <1>0, <2>3 DEF bindProviderPayout, ProvidersTypeOK
  <1>5. CASE SettlePage
    <2> PICK e, ids, before : applyPage(e, ids, before)
      BY <1>5 DEF SettlePage, commitApplyTargetedEpochPage0, applyTargetedEpoch
    <2>1. pointer' \in [Provider -> Pointers]
      BY <1>0 DEF applyPage, PromoteRevisions, ProvidersTypeOK, Pointers
    <2> QED
      BY <1>0, <2>1 DEF applyPage, ProvidersTypeOK
  <1> QED
    BY <1>1, <1>2, <1>3, <1>4, <1>5 DEF Next

\* The records of the ledger are well typed in every behaviour: no operation of
\* the contract drives a balance, a hold or a clawback below zero, or leaves a
\* reservation, a receipt head or a payout pointer with a field missing.
THEOREM LedgerTyped == Spec => []Typed
  <1>1. Init => Typed
    BY InitTyped
  <1>2. Typed /\ [Next]_vars => Typed'
    BY AccountsTyped, SessionsTyped, EpochsTyped, ProvidersTyped DEF Typed
  <1> QED
    BY <1>1, <1>2, PTL DEF Spec

-----------------------------------------------------------------------------
(***************************************************************************)
(* Holds are backed.                                                       *)
(***************************************************************************)
\* Every step keeps the holds of a user within the balance and what was taken
\* back from it: a reservation compares the sum, a page debits both alike.
LEMMA BackedStep == Typed /\ Typed' /\ ReservedBacked /\ [Next]_vars => ReservedBacked'
  <1> SUFFICES ASSUME Typed, Typed', ReservedBacked, [Next]_vars PROVE ReservedBacked'
    OBVIOUS
  <1>0. AccountsTypeOK /\ AccountsTypeOK'
    BY DEF Typed
  <1>1. CASE Deposits
    <2> PICK d \in Deposit : creditDeposit(d)
      BY <1>1 DEF Deposits
    <2>1. UNCHANGED <<reserved, clawed>> /\ \A u \in User : balance[u] <= balance'[u]
      BY <1>0, TermsTyped DEF creditDeposit, AccountsTypeOK
    <2> QED
      BY <1>0, <2>1 DEF ReservedBacked, AccountsTypeOK
  <1>2. CASE Disputes
    <2>1. PICK d \in Deposit, au \in Nat : TakeBack(d, au)
      <3>1. CASE \E d \in Reversible, dispute \in Dispute, au \in DisputedAu :
                    fiatChargeback(d, dispute, au)
        BY <3>1, LedgerAssumption DEF fiatChargeback
      <3>2. CASE \E d \in Reversible : tapDepositReversal(d)
        BY <3>2, LedgerAssumption, TermsTyped DEF tapDepositReversal
      <3> QED
        BY <1>2, <3>1, <3>2 DEF Disputes
    <2>2. UNCHANGED reserved
      BY <1>2, DepositFrame
    <2> QED
      BY <1>0, <2>1, <2>2, TakeBackTyped DEF ReservedBacked
  <1>3. CASE Registrations \/ Bindings \/ FreezeEpoch \/ SealEpoch \/ UNCHANGED vars
    <2>1. UNCHANGED accounts
      BY <1>3, ProviderFrame, EpochFrame DEF vars
    <2> QED
      BY <2>1 DEF ReservedBacked, accounts
  <1>4. CASE Reserve
    <2> PICK r \in Reservation, u \in User, p \in Provider, b \in Billing, a \in Attempt,
             spend \in MaxSpend : \E prior \in VoucherBaselines(a) :
                 spendReserveTargeted(r, u, p, b, a, prior, spend)
      BY <1>4 DEF Reserve
    <2> PICK prior \in VoucherBaselines(a) : spendReserveTargeted(r, u, p, b, a, prior, spend)
      OBVIOUS
    <2>1. /\ reserved' = [reserved EXCEPT ![u] = @ + spend]
          /\ reserved[u] + spend <= balance[u]
          /\ UNCHANGED <<balance, clawed>>
      BY DEF spendReserveTargeted, HoldFits
    <2> QED
      BY <1>0, <2>1, LedgerAssumption DEF ReservedBacked, AccountsTypeOK
  <1>5. CASE Receipts \/ Close \/ Expire
    <2>1. UNCHANGED <<balance, clawed>> /\ \A u \in User : reserved'[u] <= reserved[u]
      <3>1. ASSUME NEW r \in Reservation, NEW seq \in 1..MaxSeq, NEW cum \in Owed,
                   recordUsageReceipt(r, seq, cum)
            PROVE  UNCHANGED accounts
        BY <3>1 DEF recordUsageReceipt
      <3>2. ASSUME NEW r \in Reservation, NEW seq \in 1..MaxSeq, NEW cum \in Owed,
                   recordFinalReceipt(r, seq, cum)
            PROVE  UNCHANGED <<balance, clawed>> /\ \A u \in User : reserved'[u] <= reserved[u]
        <4>1. reservation[r] \in Reservations
          BY <3>2, Present DEF recordFinalReceipt, ReceiptFits, Typed
        <4> QED
          BY <3>2, <4>1, CloseTyped DEF recordFinalReceipt
      <3>3. ASSUME NEW r \in Reservation, CloseUsage(r)
            PROVE  UNCHANGED <<balance, clawed>> /\ \A u \in User : reserved'[u] <= reserved[u]
        <4>1. reservation[r] \in Reservations
          BY <3>3, Present DEF CloseUsage, Typed
        <4> QED
          BY <3>3, <4>1, CloseTyped DEF CloseUsage
      <3>4. CASE Receipts
        <4>1. ASSUME UNCHANGED accounts
              PROVE  UNCHANGED <<balance, clawed>> /\ \A u \in User : reserved'[u] <= reserved[u]
          BY <1>0, <4>1 DEF accounts, AccountsTypeOK
        <4> QED
          BY <3>1, <3>2, <3>4, <4>1 DEF Receipts
      <3>5. CASE Close \/ Expire
        BY <3>3, <3>5 DEF Close, Expire, closeUsageReservation, expireUsageReservation
      <3> QED
        BY <1>5, <3>4, <3>5
    <2> QED
      BY <1>0, <2>1 DEF ReservedBacked, AccountsTypeOK
  <1>6. CASE SettlePage
    <2> PICK e, ids, before : applyPage(e, ids, before)
      BY <1>6 DEF SettlePage, commitApplyTargetedEpochPage0, applyTargetedEpoch
    <2>1. PICK debits \in [User -> Nat] : DebitAccounts(debits)
      BY DEF applyPage
    <2>2. UNCHANGED clawed
      BY DEF applyPage
    <2> QED
      BY <1>0, <2>1, <2>2 DEF DebitAccounts, ReservedBacked, AccountsTypeOK
  <1> QED
    BY <1>1, <1>2, <1>3, <1>4, <1>5, <1>6 DEF Next

\* Credit is promised once, whatever sessions, receipts, disputes and settlement
\* pages interleave: the holds of a user never exceed the balance by more than
\* disputes have taken from it.
THEOREM HoldsBacked == Spec => []ReservedBacked
  <1>1. Init => ReservedBacked
    BY DEF Init, ReservedBacked
  <1>2. Typed /\ Typed' /\ ReservedBacked /\ [Next]_vars => ReservedBacked'
    BY BackedStep
  <1> QED
    BY <1>1, <1>2, LedgerTyped, PTL DEF Spec

-----------------------------------------------------------------------------
(***************************************************************************)
(* The epoch cursor.                                                       *)
(***************************************************************************)
\* The inductive invariant behind IngressAlwaysOpen: once receipts are frozen by
\* epoch, exactly the epochs from the first frozen one up to the cursor are
\* frozen, and the cursor is one ahead of the base, or two until a frozen epoch
\* has begun to be settled.
CursorInStep ==
    /\ pending # NoPending => pending.epoch = updated_epoch + 1
    /\ ingress # NoIngress =>
          /\ ingress.activated \in 1..(ingress.next - 1)
          /\ ingress.next \in {updated_epoch + 1, updated_epoch + 2}
          /\ ingress.next <= MaxEpoch + 1
          /\ pending # NoPending => ingress.next = updated_epoch + 2
    /\ \A e \in Epoch : frozen[e] # NotFrozen
                           <=> ingress # NoIngress /\ e \in ingress.activated..(ingress.next - 1)

\* No receipt moves the cursor, and freezing, sealing and settling move it in step.
LEMMA CursorStep == Typed /\ CursorInStep /\ [Next]_vars => CursorInStep'
  <1> SUFFICES ASSUME Typed, CursorInStep, [Next]_vars PROVE CursorInStep'
    OBVIOUS
  <1>0. EpochsTypeOK
    BY DEF Typed
  <1>1. CASE Deposits \/ Disputes \/ Registrations \/ Bindings \/ Reserve
             \/ Receipts \/ Close \/ Expire \/ UNCHANGED vars
    <2>1. UNCHANGED <<frozen, ingress, updated_epoch, pending>>
      <3>1. CASE Reserve
        BY <3>1 DEF Reserve, spendReserveTargeted, epochs
      <3> QED
        BY <1>1, <3>1, DepositFrame, ProviderFrame, IndexStep DEF vars, epochs
    <2> QED
      BY <2>1 DEF CursorInStep
  <1>2. CASE FreezeEpoch
    <2> PICK e \in 1..MaxEpoch : epochFreeze(e)
      BY <1>2 DEF FreezeEpoch
    <2>1. /\ e = updated_epoch + 1 /\ pending = NoPending /\ e \in Epoch
          /\ UNCHANGED <<updated_epoch, pending>>
          /\ frozen' = [frozen EXCEPT ![e] = Len(index[e])]
          /\ ingress'.next = e + 1 /\ ingress' # NoIngress
          /\ ingress'.activated = IF ingress = NoIngress THEN e ELSE ingress.activated
          /\ ingress # NoIngress => ingress.next = e
      <3>1. /\ e = updated_epoch + 1 /\ pending = NoPending /\ e \in Epoch
            /\ UNCHANGED <<updated_epoch, pending>>
            /\ frozen' = [frozen EXCEPT ![e] = Len(index[e])]
        BY <1>0, LedgerAssumption DEF epochFreeze, Freeze, EpochsTypeOK, Epoch
      <3>2. /\ ingress'.next = e + 1
            /\ ingress'.activated = IF ingress = NoIngress THEN e ELSE ingress.activated
        BY DEF epochFreeze, Freeze
      <3>3. ingress' # NoIngress
        <4>1. NoIngress.next = 0
          BY DEF NoIngress
        <4> QED
          BY <3>2, <4>1
      <3>4. ASSUME ingress # NoIngress PROVE ingress.next = e
        <4>1. base = updated_epoch
          BY <3>1 DEF base
        <4>2. receiptSettlementEpoch = e
          BY DEF epochFreeze
        <4>3. ingress.next \in {updated_epoch + 1, updated_epoch + 2} /\ updated_epoch \in Nat
          BY <1>0, <3>4 DEF CursorInStep, EpochsTypeOK
        <4> QED
          BY <3>1, <4>1, <4>2, <4>3 DEF receiptSettlementEpoch
      <3> QED
        BY <3>1, <3>2, <3>3, <3>4
    <2>2. Len(index[e]) \in Nat
      BY <1>0, <2>1 DEF EpochsTypeOK
    <2>3. \A x \in Epoch : frozen'[x] # NotFrozen
                              <=> ingress' # NoIngress
                                  /\ x \in ingress'.activated..(ingress'.next - 1)
      <3> SUFFICES ASSUME NEW x \in Epoch
                   PROVE  frozen'[x] # NotFrozen <=> x \in ingress'.activated..e
        BY <2>1
      <3>1. CASE x = e
        BY <1>0, <2>1, <2>2, <3>1 DEF EpochsTypeOK, NotFrozen, CursorInStep
      <3>2. CASE x # e
        BY <1>0, <2>1, <3>2 DEF EpochsTypeOK, CursorInStep, Epoch
      <3> QED
        BY <3>1, <3>2
    <2> QED
      BY <1>0, <2>1, <2>3, LedgerAssumption DEF CursorInStep, EpochsTypeOK
  <1>3. CASE SealEpoch
    <2> PICK e \in 1..MaxEpoch : epochSealEmpty(e)
      BY <1>3 DEF SealEpoch
    <2>1. /\ e = updated_epoch + 1 /\ pending = NoPending /\ updated_epoch' = e
          /\ UNCHANGED <<frozen, ingress, pending>> /\ validateFrozenEpoch(e)
          /\ e \in Epoch
      BY LedgerAssumption DEF epochSealEmpty, Epoch
    <2>2. ingress # NoIngress => ingress.next = e + 1
      BY <1>0, <2>1 DEF validateFrozenEpoch, CursorInStep, EpochsTypeOK
    <2> QED
      BY <1>0, <2>1, <2>2 DEF CursorInStep, EpochsTypeOK
  <1>4. CASE SettlePage
    <2> PICK e \in 1..MaxEpoch, ids \in SUBSET Identity :
           /\ \E before : applyPage(e, ids, before)
           /\ \/ pending = NoPending /\ e = updated_epoch + 1
              \/ pending # NoPending /\ e = pending.epoch
           /\ \/ updated_epoch' = e /\ pending' = NoPending
              \/ pending'.epoch = e /\ UNCHANGED updated_epoch
      BY <1>4, PageEpoch
    <2> PICK before : applyPage(e, ids, before)
      OBVIOUS
    <2>1. /\ UNCHANGED <<frozen, ingress>> /\ validateFrozenEpoch(e) /\ e \in Epoch
          /\ e = updated_epoch + 1
      BY LedgerAssumption DEF applyPage, Epoch, CursorInStep
    <2>2. ingress # NoIngress => ingress.next = e + 1
      BY <1>0, <2>1 DEF validateFrozenEpoch, CursorInStep, EpochsTypeOK
    <2> QED
      BY <1>0, <2>1, <2>2 DEF CursorInStep, EpochsTypeOK
  <1> QED
    BY <1>1, <1>2, <1>3, <1>4 DEF Next

\* A receipt or a close is never refused for want of an open epoch: whatever the
\* order of freezes, seals and pages, the cursor is valid and the epoch it names
\* is not frozen.
THEOREM IngressOpen == Spec => []IngressAlwaysOpen
  <1>1. Init => CursorInStep
    BY DEF Init, CursorInStep
  <1>2. Typed /\ CursorInStep /\ [Next]_vars => CursorInStep'
    BY CursorStep
  <1>3. Typed /\ CursorInStep => IngressAlwaysOpen
    <2> SUFFICES ASSUME Typed, CursorInStep PROVE IngressAlwaysOpen
      OBVIOUS
    <2>0. EpochsTypeOK
      BY DEF Typed
    <2>1. ValidCursor
      BY <2>0 DEF CursorInStep, ValidCursor, base, EpochsTypeOK
    <2>2. receiptSettlementEpoch \in Epoch
      BY <2>0, LedgerAssumption
         DEF CursorInStep, receiptSettlementEpoch, base, EpochsTypeOK, Epoch, NoIngress
    <2>3. ingress # NoIngress => receiptSettlementEpoch >= ingress.next
      BY <2>0 DEF receiptSettlementEpoch, base, EpochsTypeOK
    <2> QED
      BY <2>0, <2>1, <2>2, <2>3 DEF CursorInStep, IngressAlwaysOpen, EpochsTypeOK, Epoch
  <1> QED
    BY <1>1, <1>2, <1>3, LedgerTyped, PTL DEF Spec

\* What an epoch is settled over does not move once it is frozen or being settled:
\* a receipt joins the index of an open epoch beyond the base.
THEOREM BatchesFixed == Spec => SettledBatchFixed
  <1>1. Typed /\ [Next]_vars => [KeepsBatches]_vars
    <2> SUFFICES ASSUME Typed, [Next]_vars PROVE KeepsBatches \/ UNCHANGED vars
      OBVIOUS
    <2>1. CASE UNCHANGED index
      BY <2>1 DEF KeepsBatches
    <2>2. CASE Receipts \/ Close \/ Expire
      <3>1. CASE \E id \in Identity :
                    /\ frozen[receiptSettlementEpoch] = NotFrozen
                    /\ index' = [index EXCEPT ![receiptSettlementEpoch] = Append(@, id)]
        <4>1. receiptSettlementEpoch \in Nat /\ base \in Nat /\ receiptSettlementEpoch > base
          BY EpochNumbers DEF Typed
        <4> QED
          BY <3>1, <4>1 DEF KeepsBatches, Typed, EpochsTypeOK, Epoch
      <3> QED
        BY <2>1, <2>2, <3>1, IndexStep
    <2>3. CASE Deposits \/ Disputes \/ Registrations \/ Bindings \/ FreezeEpoch \/ SealEpoch
      BY <2>1, <2>3, DepositFrame, ProviderFrame, EpochFrame DEF epochs
    <2>4. CASE Reserve
      BY <2>1, <2>4 DEF Reserve, spendReserveTargeted, epochs
    <2>5. CASE SettlePage
      BY <2>1, <2>5 DEF SettlePage, commitApplyTargetedEpochPage0, applyTargetedEpoch, applyPage
    <2> QED
      BY <2>2, <2>3, <2>4, <2>5 DEF Next
  <1> QED
    BY <1>1, LedgerTyped, PTL DEF Spec, SettledBatchFixed

-----------------------------------------------------------------------------
(***************************************************************************)
(* Billing attempts.                                                       *)
(***************************************************************************)
\* How a step may change the receipt heads: it leaves them alone, or raises the
\* head of the latest attempt of a billing id while it is not ready to settle, or
\* marks a head ready without changing what it owes.
LEMMA HeadStep ==
    ASSUME Typed, [Next]_vars
    PROVE  \/ UNCHANGED head
           \/ \E id \in Identity, h \in Heads :
                 /\ head' = [head EXCEPT ![id] = h]
                 /\ head[id] # NoHead => head[id].settlement_epoch = 0
                 /\ \/ anchor[id[1]].latest = id[2]
                    \/ head[id] # NoHead /\ h.cum = head[id].cum
  <1>1. CASE Deposits \/ Disputes \/ Registrations \/ Bindings \/ FreezeEpoch \/ SealEpoch
             \/ UNCHANGED vars
    BY <1>1, DepositFrame, ProviderFrame, EpochFrame DEF vars, sessions
  <1>2. CASE Reserve
    BY <1>2 DEF Reserve, spendReserveTargeted
  <1>3. CASE SettlePage
    BY <1>3 DEF SettlePage, commitApplyTargetedEpochPage0, applyTargetedEpoch, applyPage
  <1>4. CASE Receipts
    <2> PICK r \in Reservation, seq \in 1..MaxSeq, cum \in Owed :
                recordUsageReceipt(r, seq, cum) \/ recordFinalReceipt(r, seq, cum)
      BY <1>4 DEF Receipts
    <2>1. /\ ReceiptFits(r, seq, cum)
          /\ reservation[r] \in Reservations
          /\ IdentityOf(r) \in Identity
      BY Present DEF recordUsageReceipt, recordFinalReceipt, ReceiptFits, IdentityOf,
                     Reservations, Identity, Typed
    <2>2. NewHead(r, seq, cum) \in Heads
      BY <2>1, LedgerAssumption
         DEF ReceiptFits, IncrementFits, NewHead, Heads, Reservations, SessionsTypeOK, Typed
    <2>3. ReadyAt(NewHead(r, seq, cum), EpochOfReceipt(r)) \in Heads
      BY <2>2, EpochNumbers DEF ReadyAt, EpochOfReceipt, Heads, Typed
    <2>4. /\ head[IdentityOf(r)] # NoHead => head[IdentityOf(r)].settlement_epoch = 0
          /\ anchor[IdentityOf(r)[1]].latest = IdentityOf(r)[2]
      BY <2>1 DEF ReceiptFits, HeadMayAdvance, AttemptMayAdvance, IdentityOf
    <2>5. \/ head' = [head EXCEPT ![IdentityOf(r)] = NewHead(r, seq, cum)]
          \/ head' = [head EXCEPT ![IdentityOf(r)] = ReadyAt(NewHead(r, seq, cum), EpochOfReceipt(r))]
      BY DEF recordUsageReceipt, recordFinalReceipt, RetainAndIndex
    <2> QED
      BY <2>1, <2>2, <2>3, <2>4, <2>5
  <1>5. CASE Close \/ Expire
    <2> PICK r \in Reservation : CloseUsage(r)
      BY <1>5 DEF Close, Expire, closeUsageReservation, expireUsageReservation
    <2>1. IdentityOf(r) \in Identity
      BY Present DEF CloseUsage, IdentityOf, Reservations, Identity, Typed
    <2>2. CASE ReleaseAll(r)
      BY <2>2 DEF ReleaseAll
    <2>3. CASE /\ head[IdentityOf(r)] # NoHead /\ head[IdentityOf(r)].settlement_epoch = 0
               /\ RetainAndIndex(r, head[IdentityOf(r)])
      <3> DEFINE h == ReadyAt(head[IdentityOf(r)], EpochOfReceipt(r))
      <3>1. head[IdentityOf(r)] \in Heads
        BY <2>1, <2>3, Present DEF Typed
      <3>2. h \in Heads /\ h.cum = head[IdentityOf(r)].cum
        BY <3>1, EpochNumbers DEF ReadyAt, EpochOfReceipt, Heads, Typed
      <3>3. head' = [head EXCEPT ![IdentityOf(r)] = h]
        BY <2>3 DEF RetainAndIndex
      <3> HIDE DEF h
      <3> QED
        BY <2>1, <2>3, <3>2, <3>3
    <2> QED
      BY <2>2, <2>3 DEF CloseUsage
  <1> QED
    BY <1>1, <1>2, <1>3, <1>4, <1>5 DEF Next

\* Evidence that settlement or a later attempt relies on is immutable: a head
\* ready to settle never changes, and one that a later attempt has built on keeps
\* its cumulative amount.
THEOREM EvidenceImmutable == Spec => EvidenceFixed
  <1>1. Typed /\ [Next]_vars => [KeepsEvidence]_vars
    <2> SUFFICES ASSUME Typed, [Next]_vars, NEW b \in Billing, NEW a \in Attempt
                 PROVE  /\ head[<<b, a>>] # NoHead /\ head[<<b, a>>].settlement_epoch # 0
                              => head'[<<b, a>>] = head[<<b, a>>]
                        /\ anchor[b].latest > a /\ head[<<b, a>>] # NoHead
                              => head'[<<b, a>>].cum = head[<<b, a>>].cum
      BY DEF KeepsEvidence
    <2>1. <<b, a>> \in Identity /\ a \in Int
      BY LedgerAssumption DEF Identity, Attempt
    <2>2. head \in [Identity -> Heads \cup {NoHead}]
      BY DEF Typed, SessionsTypeOK
    <2>3. CASE UNCHANGED head
      BY <2>3
    <2>4. ASSUME NEW id \in Identity, NEW h \in Heads,
                 head' = [head EXCEPT ![id] = h],
                 head[id] # NoHead => head[id].settlement_epoch = 0,
                 \/ anchor[id[1]].latest = id[2]
                 \/ head[id] # NoHead /\ h.cum = head[id].cum
          PROVE  /\ head[<<b, a>>] # NoHead /\ head[<<b, a>>].settlement_epoch # 0
                       => head'[<<b, a>>] = head[<<b, a>>]
                 /\ anchor[b].latest > a /\ head[<<b, a>>] # NoHead
                       => head'[<<b, a>>].cum = head[<<b, a>>].cum
      <3>1. CASE id = <<b, a>>
        BY <2>1, <2>2, <2>4, <3>1
      <3>2. CASE id # <<b, a>>
        BY <2>1, <2>2, <2>4, <3>2
      <3> QED
        BY <3>1, <3>2
    <2> QED
      BY <2>3, <2>4, HeadStep
  <1> QED
    BY <1>1, LedgerTyped, PTL DEF Spec, EvidenceFixed

\* Only a new reservation touches an anchor; otherwise a reservation keeps its
\* billing id, its attempt and its baseline.
LEMMA ReservationStep ==
    ASSUME Typed, [Next]_vars, ~Reserve
    PROVE  /\ UNCHANGED anchor
           /\ \A x \in Reservation : reservation'[x] # NoReservation =>
                 /\ reservation[x] # NoReservation
                 /\ reservation'[x].billing = reservation[x].billing
                 /\ reservation'[x].attempt = reservation[x].attempt
                 /\ reservation'[x].prior = reservation[x].prior
  <1>1. CASE UNCHANGED <<anchor, reservation>>
    BY <1>1
  <1>2. ASSUME NEW r \in Reservation, UNCHANGED anchor, CloseReservation(r),
               reservation[r].status = "active"
        PROVE  /\ UNCHANGED anchor
               /\ \A x \in Reservation : reservation'[x] # NoReservation =>
                     /\ reservation[x] # NoReservation
                     /\ reservation'[x].billing = reservation[x].billing
                     /\ reservation'[x].attempt = reservation[x].attempt
                     /\ reservation'[x].prior = reservation[x].prior
    <2>1. reservation[r] \in Reservations /\ reservation[r] # NoReservation
      BY <1>2, Present DEF Typed, NoReservation
    <2>2. /\ reservation' = [reservation EXCEPT ![r] = reservation'[r]]
          /\ reservation'[r] = [reservation[r] EXCEPT !.status = "closed"]
      BY <1>2, <2>1, ClosedTyped DEF Typed
    <2>3. /\ reservation'[r].billing = reservation[r].billing
          /\ reservation'[r].attempt = reservation[r].attempt
          /\ reservation'[r].prior = reservation[r].prior
      BY <2>1, <2>2 DEF Reservations
    <2>4. \A x \in Reservation : x # r => reservation'[x] = reservation[x]
      BY <2>2 DEF Typed, SessionsTypeOK
    <2> QED
      BY <1>2, <2>1, <2>3, <2>4
  <1>3. CASE Deposits \/ Disputes \/ Registrations \/ Bindings \/ FreezeEpoch \/ SealEpoch
             \/ UNCHANGED vars
    BY <1>1, <1>3, DepositFrame, ProviderFrame, EpochFrame DEF vars, sessions
  <1>4. CASE SettlePage
    BY <1>1, <1>4 DEF SettlePage, commitApplyTargetedEpochPage0, applyTargetedEpoch, applyPage
  <1>5. CASE Receipts
    <2> PICK r \in Reservation, seq \in 1..MaxSeq, cum \in Owed :
                recordUsageReceipt(r, seq, cum) \/ recordFinalReceipt(r, seq, cum)
      BY <1>5 DEF Receipts
    <2>1. CASE recordUsageReceipt(r, seq, cum)
      BY <1>1, <2>1 DEF recordUsageReceipt
    <2>2. CASE recordFinalReceipt(r, seq, cum)
      BY <1>2, <2>2 DEF recordFinalReceipt, ReceiptFits
    <2> QED
      BY <2>1, <2>2
  <1>6. CASE Close \/ Expire
    BY <1>2, <1>6 DEF Close, Expire, closeUsageReservation, expireUsageReservation, CloseUsage
  <1> QED
    BY <1>3, <1>4, <1>5, <1>6 DEF Next

-----------------------------------------------------------------------------
(***************************************************************************)
(* Receipts, their reservations and the epoch index.                       *)
(***************************************************************************)
SameTerms(x, y) ==
    /\ x.user = y.user /\ x.provider = y.provider /\ x.revision = y.revision
    /\ x.billing = y.billing /\ x.attempt = y.attempt /\ x.prior = y.prior

\* A reservation that was made stays, with its terms.
LEMMA ReservationKept ==
    ASSUME Typed, [Next]_vars, NEW x \in Reservation, reservation[x] # NoReservation
    PROVE  reservation'[x] # NoReservation /\ SameTerms(reservation'[x], reservation[x])
  <1>0. reservation[x] \in Reservations /\ NoReservation \notin Reservations
    BY Present DEF Typed, NoReservation, Reservations
  <1>1. CASE UNCHANGED reservation
    BY <1>1 DEF SameTerms
  <1>2. ASSUME NEW r \in Reservation, CloseReservation(r)
        PROVE  reservation'[x] # NoReservation /\ SameTerms(reservation'[x], reservation[x])
    <2>1. CASE x = r
      <3>1. reservation'[x] = [reservation[x] EXCEPT !.status = "closed"]
        BY <1>2, <2>1 DEF CloseReservation, Typed, SessionsTypeOK
      <3> QED
        BY <1>0, <3>1 DEF Reservations, SameTerms, NoReservation
    <2>2. CASE x # r
      BY <1>2, <2>2 DEF CloseReservation, Typed, SessionsTypeOK, SameTerms
    <2> QED
      BY <2>1, <2>2
  <1>3. CASE Reserve
    <2> PICK r \in Reservation, u \in User, p \in Provider, b \in Billing, a \in Attempt,
             spend \in MaxSpend : \E prior \in VoucherBaselines(a) :
                 spendReserveTargeted(r, u, p, b, a, prior, spend)
      BY <1>3 DEF Reserve
    <2> QED
      BY DEF spendReserveTargeted, Typed, SessionsTypeOK, SameTerms
  <1>4. CASE Deposits \/ Disputes \/ Registrations \/ Bindings \/ FreezeEpoch \/ SealEpoch
             \/ UNCHANGED vars
    BY <1>1, <1>4, DepositFrame, ProviderFrame, EpochFrame DEF vars, sessions
  <1>5. CASE SettlePage
    BY <1>1, <1>5 DEF SettlePage, commitApplyTargetedEpochPage0, applyTargetedEpoch, applyPage
  <1>6. CASE Receipts
    BY <1>1, <1>2, <1>6 DEF Receipts, recordUsageReceipt, recordFinalReceipt
  <1>7. CASE Close \/ Expire
    BY <1>2, <1>7 DEF Close, Expire, closeUsageReservation, expireUsageReservation, CloseUsage
  <1> QED
    BY <1>3, <1>4, <1>5, <1>6, <1>7 DEF Next

\* The head of r's attempt may be replaced: it is r's own and not ready to settle.
MayReplace(r) ==
    head[IdentityOf(r)] # NoHead =>
        /\ head[IdentityOf(r)].settlement_epoch = 0
        /\ IdentityOf(r) \notin consumed
        /\ head[IdentityOf(r)].reservation = r

\* What h owes follows from r's baseline, or is what the present head owes.
Priced(r, h) ==
    \/ h.incremental = h.cum - reservation[r].prior
    \/ /\ head[IdentityOf(r)] # NoHead
       /\ h.cum = head[IdentityOf(r)].cum
       /\ h.incremental = head[IdentityOf(r)].incremental

\* The head that a receipt or a close leaves for r.
Leaves(r, h, e) ==
    /\ head' = [head EXCEPT ![IdentityOf(r)] = h]
    /\ h.reservation = r /\ h.settlement_epoch = e
    /\ MayReplace(r) /\ Priced(r, h)

Raises(r, h) == Leaves(r, h, 0) /\ UNCHANGED <<reserved, session, index, reservation>>

Retains(r, h) ==
    /\ Leaves(r, h, receiptSettlementEpoch)
    /\ CloseReservation(r)
    /\ frozen[receiptSettlementEpoch] = NotFrozen
    /\ index' = [index EXCEPT ![receiptSettlementEpoch] = Append(@, IdentityOf(r))]
    /\ session' = [session EXCEPT ![r] = [max_spend |-> h.incremental, settlement_ready |-> TRUE]]
    /\ session[r].max_spend - h.incremental \in 0..reserved[reservation[r].user]
    /\ reserved' = [reserved EXCEPT ![reservation[r].user] =
                       @ - (session[r].max_spend - h.incremental)]

Releases(r) == ReleaseAll(r) /\ CloseReservation(r)

\* A receipt, a close or an expiry raises a head, retains one for settlement, or
\* releases a hold that has none; it moves nothing else.
LEMMA ReceiptStep ==
    ASSUME Typed, Receipts \/ Close \/ Expire
    PROVE  \E r \in Reservation :
              /\ reservation[r] \in Reservations /\ IdentityOf(r) \in Identity
              /\ reservation[r].status = "active"
              /\ UNCHANGED <<balance, clawed, absorbed, deposit, disputed, anchor, consumed,
                             frozen, ingress, updated_epoch, pending, settled, providers>>
              /\ Releases(r) \/ \E h \in Heads : Raises(r, h) \/ Retains(r, h)
  <1>1. ASSUME NEW r \in Reservation, NEW h \in Heads, h.reservation = r, RetainAndIndex(r, h),
               IdentityOf(r) \in Identity, MayReplace(r), Priced(r, h), CloseReservation(r)
        PROVE  \E g \in Heads : Retains(r, g)
    <2> DEFINE g == ReadyAt(h, EpochOfReceipt(r))
    <2>1. /\ g \in Heads /\ g.reservation = r /\ g.settlement_epoch = receiptSettlementEpoch
          /\ g.incremental = h.incremental /\ g.cum = h.cum
      BY <1>1, EpochNumbers DEF ReadyAt, EpochOfReceipt, Heads, Typed
    <2>2. head' = [head EXCEPT ![IdentityOf(r)] = g]
      BY <1>1 DEF RetainAndIndex
    <2> HIDE DEF g
    <2>3. Priced(r, g)
      BY <1>1, <2>1 DEF Priced
    <2>4. Leaves(r, g, receiptSettlementEpoch)
      BY <1>1, <2>1, <2>2, <2>3 DEF Leaves
    <2>5. Retains(r, g)
      BY <1>1, <2>1, <2>4 DEF Retains, RetainAndIndex, EpochOfReceipt, MayIndex, Released
    <2> QED
      BY <2>1, <2>5
  <1>2. CASE Receipts
    <2> PICK r \in Reservation, seq \in 1..MaxSeq, cum \in Owed :
                recordUsageReceipt(r, seq, cum) \/ recordFinalReceipt(r, seq, cum)
      BY <1>2 DEF Receipts
    <2>1. /\ ReceiptFits(r, seq, cum)
          /\ reservation[r] \in Reservations
          /\ IdentityOf(r) \in Identity
          /\ reservation[r].status = "active"
      BY Present DEF recordUsageReceipt, recordFinalReceipt, ReceiptFits, IdentityOf,
                     Reservations, Identity, Typed
    <2> DEFINE h == NewHead(r, seq, cum)
    <2>2. /\ h \in Heads /\ h.reservation = r /\ h.settlement_epoch = 0
          /\ h.incremental = h.cum - reservation[r].prior
      BY <2>1, LedgerAssumption
         DEF ReceiptFits, IncrementFits, NewHead, Heads, Reservations, SessionsTypeOK, Typed
    <2>3. MayReplace(r) /\ Priced(r, h)
      BY <2>1, <2>2 DEF ReceiptFits, HeadMayAdvance, MayReplace, Priced
    <2>4. CASE recordUsageReceipt(r, seq, cum)
      <3>1. /\ head' = [head EXCEPT ![IdentityOf(r)] = h]
            /\ UNCHANGED <<accounts, anchor, reservation, session, epochs, settled, providers>>
        BY <2>4 DEF recordUsageReceipt
      <3> HIDE DEF h
      <3>2. Raises(r, h)
        BY <2>2, <2>3, <3>1 DEF Raises, Leaves, accounts, epochs
      <3> QED
        BY <2>1, <2>2, <3>1, <3>2 DEF accounts, epochs
    <2>5. CASE recordFinalReceipt(r, seq, cum)
      <3>1. \E g \in Heads : Retains(r, g)
        <4> HIDE DEF h
        <4>1. RetainAndIndex(r, h) /\ CloseReservation(r)
          BY <2>5 DEF recordFinalReceipt, h
        <4> QED
          BY <1>1, <2>1, <2>2, <2>3, <4>1
      <3> QED
        BY <2>1, <2>5, <3>1 DEF recordFinalReceipt
    <2> QED
      BY <2>4, <2>5
  <1>3. CASE Close \/ Expire
    <2> PICK r \in Reservation : CloseUsage(r)
      BY <1>3 DEF Close, Expire, closeUsageReservation, expireUsageReservation
    <2>1. /\ reservation[r] \in Reservations /\ IdentityOf(r) \in Identity
          /\ reservation[r].status = "active"
      BY Present DEF CloseUsage, IdentityOf, Reservations, Identity, Typed
    <2>2. CASE ReleaseAll(r)
      BY <2>1, <2>2 DEF CloseUsage, Releases
    <2>3. CASE /\ head[IdentityOf(r)] # NoHead /\ head[IdentityOf(r)].reservation = r
               /\ head[IdentityOf(r)].settlement_epoch = 0 /\ IdentityOf(r) \notin consumed
               /\ RetainAndIndex(r, head[IdentityOf(r)])
      <3>1. head[IdentityOf(r)] \in Heads
        BY <2>1, <2>3, Present DEF Typed
      <3>2. MayReplace(r) /\ Priced(r, head[IdentityOf(r)])
        BY <2>3 DEF MayReplace, Priced
      <3>3. \E g \in Heads : Retains(r, g)
        BY <1>1, <2>1, <2>3, <3>1, <3>2 DEF CloseUsage
      <3> QED
        BY <2>1, <3>3 DEF CloseUsage
    <2> QED
      BY <2>2, <2>3 DEF CloseUsage
  <1> QED
    BY <1>2, <1>3

\* Only receipts, closes and expiries touch a head or an index.
LEMMA HeadFrame ==
    ASSUME [Next]_vars, ~(Receipts \/ Close \/ Expire)
    PROVE  UNCHANGED <<head, index>>
  <1>1. CASE Deposits \/ Disputes \/ Registrations \/ Bindings \/ FreezeEpoch \/ SealEpoch
             \/ UNCHANGED vars
    BY <1>1, DepositFrame, ProviderFrame, EpochFrame DEF vars, sessions, epochs
  <1>2. CASE Reserve
    BY <1>2 DEF Reserve, spendReserveTargeted, epochs
  <1>3. CASE SettlePage
    BY <1>3 DEF SettlePage, commitApplyTargetedEpochPage0, applyTargetedEpoch, applyPage
  <1> QED
    BY <1>1, <1>2, <1>3 DEF Next

\* Every head belongs to a reservation of its own attempt and owes what the
\* receipt states beyond the reservation's baseline.
HeadsNamed ==
    \A id \in Identity : head[id] # NoHead =>
        /\ reservation[head[id].reservation] # NoReservation
        /\ IdentityOf(head[id].reservation) = id
        /\ head[id].incremental = head[id].cum - reservation[head[id].reservation].prior

\* Every step keeps the heads with their reservations.
LEMMA HeadsNamedStep == Typed /\ HeadsNamed /\ [Next]_vars => HeadsNamed'
  <1> SUFFICES ASSUME Typed, HeadsNamed, [Next]_vars PROVE HeadsNamed'
    OBVIOUS
  <1>0. /\ head \in [Identity -> Heads \cup {NoHead}]
        /\ \A id \in Identity : head[id] # NoHead => head[id].reservation \in Reservation
        /\ NoReservation \notin Reservations
    BY Present DEF Typed, SessionsTypeOK, Heads, NoReservation, Reservations
  <1> DEFINE Named(h, id) == /\ reservation'[h.reservation] # NoReservation
                             /\ <<reservation'[h.reservation].billing,
                                  reservation'[h.reservation].attempt>> = id
                             /\ h.incremental = h.cum - reservation'[h.reservation].prior
  <1>1. \A id \in Identity : head[id] # NoHead => Named(head[id], id)
    BY <1>0, ReservationKept DEF HeadsNamed, SameTerms, IdentityOf
  <1>2. CASE UNCHANGED head
    BY <1>1, <1>2 DEF HeadsNamed, IdentityOf
  <1>3. CASE Receipts \/ Close \/ Expire
    <2> PICK r \in Reservation :
              /\ reservation[r] \in Reservations /\ IdentityOf(r) \in Identity
              /\ Releases(r) \/ \E h \in Heads : Raises(r, h) \/ Retains(r, h)
      BY <1>3, ReceiptStep
    <2>1. CASE Releases(r)
      BY <1>2, <2>1 DEF Releases, ReleaseAll
    <2>2. ASSUME NEW h \in Heads, NEW e, Leaves(r, h, e)
          PROVE  HeadsNamed'
      <3>1. reservation'[r] # NoReservation /\ SameTerms(reservation'[r], reservation[r])
        BY <1>0, ReservationKept
      <3>2. h.incremental = h.cum - reservation[r].prior
        BY <2>2 DEF Leaves, Priced, MayReplace, HeadsNamed
      <3>3. Named(h, IdentityOf(r))
        BY <2>2, <3>1, <3>2 DEF Leaves, SameTerms, IdentityOf
      <3>4. head' = [head EXCEPT ![IdentityOf(r)] = h]
        BY <2>2 DEF Leaves
      <3>5. \A id \in Identity : head'[id] # NoHead => Named(head'[id], id)
        BY <1>0, <1>1, <3>3, <3>4
      <3> QED
        BY <3>5 DEF HeadsNamed, IdentityOf
    <2> QED
      BY <2>1, <2>2 DEF Raises, Retains
  <1> QED
    BY <1>2, <1>3, HeadFrame

\* A head and its reservation keep naming the same buyer and provider.
THEOREM LedgerNamed == Spec => []HeadsNamed
  <1>1. Init => HeadsNamed
    BY DEF Init, HeadsNamed
  <1>2. Typed /\ HeadsNamed /\ [Next]_vars => HeadsNamed'
    BY HeadsNamedStep
  <1> QED
    BY <1>1, <1>2, LedgerTyped, PTL DEF Spec

-----------------------------------------------------------------------------
(***************************************************************************)
(* Redispatched and renewed attempts.                                      *)
(***************************************************************************)
\* A new reservation r for attempt a of b: what the step writes and has checked.
Makes(r, u, b, a, prior) ==
    /\ reservation[r] = NoReservation
    /\ reservation' = [reservation EXCEPT ![r] = reservation'[r]]
    /\ reservation'[r] \in Reservations /\ reservation'[r].status = "active"
    /\ reservation'[r].user = u /\ reservation'[r].billing = b
    /\ reservation'[r].attempt = a /\ reservation'[r].prior = prior
    /\ anchor' = [anchor EXCEPT ![b] = anchor'[b]]
    /\ anchor'[b].latest = a /\ anchor'[b].user = u
    /\ session' = [session EXCEPT ![r] = session'[r]]
    /\ session'[r] # NoSession /\ ~session'[r].settlement_ready
    /\ UNCHANGED head
    /\ BillingMayReserve(u, b, a, prior) /\ ~AttemptHasSession(u, b, a)

\* A reserving step makes one reservation.
LEMMA ReserveStep ==
    ASSUME Typed, Typed', Reserve
    PROVE  \E r \in Reservation, u \in User, b \in Billing, a \in Attempt : \E prior \in Nat :
              Makes(r, u, b, a, prior)
  <1> PICK r \in Reservation, u \in User, p \in Provider, b \in Billing, a \in Attempt,
           spend \in MaxSpend : \E prior \in VoucherBaselines(a) :
               spendReserveTargeted(r, u, p, b, a, prior, spend)
    BY DEF Reserve
  <1> PICK prior \in VoucherBaselines(a) : spendReserveTargeted(r, u, p, b, a, prior, spend)
    OBVIOUS
  <1>1. prior \in Nat
    BY LedgerAssumption DEF VoucherBaselines
  <1> PICK new : new = [status |-> "active", user |-> u, provider |-> p,
                        revision |-> ActiveRevision(p, ActiveBillingEpoch),
                        billing |-> b, attempt |-> a, prior |-> prior,
                        epoch |-> ActiveBillingEpoch]
    OBVIOUS
  <1>2. /\ new.status = "active" /\ new.user = u /\ new.billing = b
        /\ new.attempt = a /\ new.prior = prior
    OBVIOUS
  <1>3. reservation' = [reservation EXCEPT ![r] = new] /\ reservation[r] = NoReservation
    BY DEF spendReserveTargeted
  <1>4. reservation'[r] = new
    BY <1>3 DEF Typed, SessionsTypeOK
  <1>5. new \in Reservations
    <2>1. new # NoReservation
      BY <1>2 DEF NoReservation
    <2> QED
      BY <1>4, <2>1 DEF Typed, SessionsTypeOK
  <1>6. /\ anchor' = [anchor EXCEPT ![b] = anchor'[b]]
        /\ anchor'[b].latest = a /\ anchor'[b].user = u
        /\ UNCHANGED head /\ BillingMayReserve(u, b, a, prior) /\ ~AttemptHasSession(u, b, a)
    BY DEF spendReserveTargeted, Typed, SessionsTypeOK
  <1> PICK held : held = [max_spend |-> spend, settlement_ready |-> FALSE]
    OBVIOUS
  <1>7. session' = [session EXCEPT ![r] = held] /\ session'[r] = held
    BY DEF spendReserveTargeted, Typed, SessionsTypeOK
  <1>8. held # NoSession /\ ~held.settlement_ready
    BY LedgerAssumption DEF NoSession
  <1>9. Makes(r, u, b, a, prior)
    BY <1>2, <1>3, <1>4, <1>5, <1>6, <1>7, <1>8 DEF Makes
  <1> QED
    BY <1>1, <1>9

\* The anchor of a billing id is behind none of its reservations, one of which is
\* of the latest attempt, and all of them are the anchored buyer's.
AnchorsAhead ==
    \A r \in Reservation : reservation[r] # NoReservation =>
        /\ reservation[r].attempt <= anchor[reservation[r].billing].latest
        /\ reservation[r].user = anchor[reservation[r].billing].user

AnchorsMet ==
    \A b \in Billing : anchor[b] # NoAnchor =>
        \E r \in Reservation : /\ reservation[r] # NoReservation
                               /\ reservation[r].billing = b
                               /\ reservation[r].attempt = anchor[b].latest

\* The attempt of a new reservation is the latest one, renewed, or the next.
Renews(u, b, a) ==
    anchor[b] # NoAnchor /\ anchor[b].latest = a /\ anchor[b].user = u /\ head[<<b, a>>] = NoHead

Opens(b, a, prior) ==
    /\ ReservationsOf(b, a) = {}
    /\ a > 0 => head[<<b, a - 1>>] # NoHead /\ prior = head[<<b, a - 1>>].cum

\* A new reservation renews the latest attempt or opens the next one.
LEMMA ReservesLatest ==
    ASSUME Typed, AnchorsAhead, NEW r \in Reservation, NEW u \in User, NEW b \in Billing,
           NEW a \in Attempt, NEW prior \in Nat, Makes(r, u, b, a, prior)
    PROVE  /\ anchor[b].latest \in Int /\ anchor[b].latest <= a
           /\ Renews(u, b, a) \/ Opens(b, a, prior)
  <1>1. anchor[b] = NoAnchor \/ anchor[b] \in Anchors
    BY Present DEF Typed
  <1>2. a \in Nat
    BY LedgerAssumption DEF Attempt
  <1>3. anchor[b].latest \in Int /\ (anchor[b] = NoAnchor => anchor[b].latest = -1)
    BY <1>1, LedgerAssumption DEF NoAnchor, Anchors, Attempt
  <1>4. \/ anchor[b] = NoAnchor /\ a = 0
        \/ /\ anchor[b] # NoAnchor /\ anchor[b].user = u
           /\ \/ a = anchor[b].latest /\ head[<<b, a>>] = NoHead
              \/ /\ a = anchor[b].latest + 1
                 /\ head[<<b, a - 1>>] # NoHead
                 /\ prior = head[<<b, a - 1>>].cum
    BY DEF Makes, BillingMayReserve
  <1>5. ReservationsOf(b, a) # {} => a <= anchor[b].latest
    BY DEF ReservationsOf, AnchorsAhead
  <1> QED
    BY <1>2, <1>3, <1>4, <1>5 DEF Renews, Opens

\* Reservations stay with their attempt, and keep their baseline; only a reserving
\* step adds one.
LEMMA OfKept ==
    ASSUME Typed, [Next]_vars, NEW b, NEW a
    PROVE  /\ ReservationsOf(b, a) \subseteq ReservationsOf(b, a)'
           /\ ~Reserve => ReservationsOf(b, a)' = ReservationsOf(b, a)
           /\ \A r \in ReservationsOf(b, a) : reservation'[r].prior = reservation[r].prior
  <1>1. \A r \in ReservationsOf(b, a) :
           r \in ReservationsOf(b, a)' /\ reservation'[r].prior = reservation[r].prior
    BY ReservationKept DEF ReservationsOf, SameTerms
  <1>2. ~Reserve => \A r \in ReservationsOf(b, a)' : r \in ReservationsOf(b, a)
    BY ReservationStep DEF ReservationsOf
  <1> QED
    BY <1>1, <1>2

\* A new reservation is the only one that its attempt gains.
LEMMA OfMade ==
    ASSUME Typed, NEW r \in Reservation, NEW u, NEW b, NEW a, NEW prior,
           Makes(r, u, b, a, prior)
    PROVE  /\ r \in ReservationsOf(b, a)' /\ r \notin ReservationsOf(b, a)
           /\ \A x \in Reservation : x # r => reservation'[x] = reservation[x]
           /\ \A c, d : \A x \in ReservationsOf(c, d)' :
                 x \in ReservationsOf(c, d) \/ (x = r /\ c = b /\ d = a)
  <1>1. \A x \in Reservation : x # r => reservation'[x] = reservation[x]
    BY DEF Makes, Typed, SessionsTypeOK
  <1>2. reservation'[r] # NoReservation
    BY DEF Makes, Reservations, NoReservation
  <1> QED
    BY <1>1, <1>2 DEF Makes, ReservationsOf

\* Every step keeps the anchors in step with the reservations.
LEMMA AnchorStep ==
    Typed /\ Typed' /\ AnchorsAhead /\ AnchorsMet /\ [Next]_vars => AnchorsAhead' /\ AnchorsMet'
  <1> SUFFICES ASSUME Typed, Typed', AnchorsAhead, AnchorsMet, [Next]_vars
               PROVE  AnchorsAhead' /\ AnchorsMet'
    OBVIOUS
  <1>0. \A x \in Reservation : reservation[x] # NoReservation =>
           /\ reservation[x].attempt \in Nat /\ reservation[x].billing \in Billing
    BY Present, LedgerAssumption DEF Typed, Reservations, Attempt
  <1>1. CASE Reserve
    <2> PICK r \in Reservation, u \in User, b \in Billing, a \in Attempt, prior \in Nat :
            Makes(r, u, b, a, prior)
      BY <1>1, ReserveStep
    <2>1. /\ \A c \in Billing : c # b => anchor'[c] = anchor[c]
          /\ anchor'[b].latest = a /\ anchor'[b].user = u /\ a \in Nat
          /\ reservation'[r].attempt = a /\ reservation'[r].billing = b
          /\ reservation'[r].user = u
      BY LedgerAssumption DEF Makes, Typed, SessionsTypeOK, Attempt
    <2>2. /\ anchor[b].latest \in Int /\ anchor[b].latest <= a
      BY ReservesLatest
    <2>3. /\ r \in ReservationsOf(b, a)'
          /\ \A x \in Reservation : x # r => reservation'[x] = reservation[x]
      BY OfMade
    <2>4. AnchorsAhead'
      <3> SUFFICES ASSUME NEW x \in Reservation, reservation'[x] # NoReservation
                   PROVE  /\ reservation'[x].attempt <= anchor'[reservation'[x].billing].latest
                          /\ reservation'[x].user = anchor'[reservation'[x].billing].user
        BY DEF AnchorsAhead
      <3>1. CASE x = r
        BY <2>1, <3>1
      <3>2. CASE x # r
        <4>1. /\ reservation'[x] = reservation[x]
              /\ reservation[x].attempt <= anchor[reservation[x].billing].latest
              /\ reservation[x].user = anchor[reservation[x].billing].user
              /\ reservation[x].attempt \in Nat /\ reservation[x].billing \in Billing
          BY <1>0, <2>3, <3>2 DEF AnchorsAhead
        <4>2. CASE reservation[x].billing = b
          <5>1. anchor[b] # NoAnchor
            BY <4>1, <4>2 DEF NoAnchor
          <5>2. anchor[b].user = u
            BY <5>1 DEF Makes, BillingMayReserve
          <5> QED
            BY <2>1, <2>2, <4>1, <4>2, <5>2
        <4>3. CASE reservation[x].billing # b
          BY <2>1, <4>1, <4>3
        <4> QED
          BY <4>2, <4>3
      <3> QED
        BY <3>1, <3>2
    <2>5. AnchorsMet'
      <3> SUFFICES ASSUME NEW c \in Billing, anchor'[c] # NoAnchor
                   PROVE  \E x \in Reservation : /\ reservation'[x] # NoReservation
                                                 /\ reservation'[x].billing = c
                                                 /\ reservation'[x].attempt = anchor'[c].latest
        BY DEF AnchorsMet
      <3>1. CASE c = b
        <4>1. reservation'[r] # NoReservation
          BY DEF Makes, Reservations, NoReservation
        <4> QED
          BY <2>1, <3>1, <4>1
      <3>2. CASE c # b
        <4>1. anchor'[c] = anchor[c]
          BY <2>1, <3>2
        <4> QED
          BY <4>1, ReservationKept DEF AnchorsMet, SameTerms
      <3> QED
        BY <3>1, <3>2
    <2> QED
      BY <2>4, <2>5
  <1>2. CASE ~Reserve
    <2>1. UNCHANGED anchor
      BY <1>2, ReservationStep
    <2>2. AnchorsAhead'
      <3> SUFFICES ASSUME NEW x \in Reservation, reservation'[x] # NoReservation
                   PROVE  /\ reservation'[x].attempt <= anchor'[reservation'[x].billing].latest
                          /\ reservation'[x].user = anchor'[reservation'[x].billing].user
        BY DEF AnchorsAhead
      <3>1. reservation[x] # NoReservation
        BY <1>2, ReservationStep
      <3> QED
        BY <2>1, <3>1, ReservationKept DEF AnchorsAhead, SameTerms
    <2>3. AnchorsMet'
      BY <2>1, ReservationKept DEF AnchorsMet, SameTerms
    <2> QED
      BY <2>2, <2>3
  <1> QED
    BY <1>1, <1>2

\* The first half of AttemptChain: every later attempt was opened from the amount
\* that its predecessor reached.
Opened ==
    \A b \in Billing, a \in Attempt : ReservationsOf(b, a) # {} /\ a > 0 =>
        /\ head[<<b, a - 1>>] # NoHead
        /\ \E r \in ReservationsOf(b, a) : reservation[r].prior = head[<<b, a - 1>>].cum

\* A head that a later attempt was opened from keeps its cumulative amount: its
\* attempt is no longer the latest one.
LEMMA PriorKept ==
    ASSUME Typed, AnchorsAhead, [Next]_vars, NEW b \in Billing, NEW a \in Attempt, a > 0,
           ReservationsOf(b, a) # {}, head[<<b, a - 1>>] # NoHead
    PROVE  head'[<<b, a - 1>>] # NoHead /\ head'[<<b, a - 1>>].cum = head[<<b, a - 1>>].cum
  <1> PICK x \in ReservationsOf(b, a) : TRUE
    OBVIOUS
  <1>1. a \in Nat /\ a <= anchor[b].latest
    BY LedgerAssumption DEF ReservationsOf, AnchorsAhead, Attempt
  <1> PICK earlier : earlier = <<b, a - 1>>
    OBVIOUS
  <1>2. earlier \in Identity /\ earlier[1] = b /\ earlier[2] = a - 1
    BY <1>1, LedgerAssumption DEF Identity, Attempt
  <1>3. head \in [Identity -> Heads \cup {NoHead}] /\ NoHead \notin Heads
    BY DEF Typed, SessionsTypeOK, Heads, NoHead
  <1>4. ASSUME NEW id \in Identity, NEW h \in Heads,
               head' = [head EXCEPT ![id] = h],
               \/ anchor[id[1]].latest = id[2]
               \/ head[id] # NoHead /\ h.cum = head[id].cum
        PROVE  head'[earlier] # NoHead /\ head'[earlier].cum = head[earlier].cum
    <2>1. CASE id = earlier
      <3>1. anchor[id[1]].latest # id[2]
        BY <1>1, <1>2, <2>1
      <3> QED
        BY <1>2, <1>3, <1>4, <2>1, <3>1
    <2>2. CASE id # earlier
      BY <1>2, <1>3, <1>4, <2>2
    <2> QED
      BY <2>1, <2>2
  <1>5. head'[earlier] # NoHead /\ head'[earlier].cum = head[earlier].cum
    BY <1>4, HeadStep
  <1> QED
    BY <1>5

\* Every step keeps the later attempts opened.
LEMMA OpenedStep ==
    Typed /\ Typed' /\ AnchorsAhead /\ AnchorsMet /\ Opened /\ [Next]_vars => Opened'
  <1> SUFFICES ASSUME Typed, Typed', AnchorsAhead, AnchorsMet, Opened, [Next]_vars,
                      NEW c \in Billing, NEW d \in Attempt, ReservationsOf(c, d)' # {}, d > 0
               PROVE  /\ head'[<<c, d - 1>>] # NoHead
                      /\ \E x \in ReservationsOf(c, d)' :
                            reservation'[x].prior = head'[<<c, d - 1>>].cum
    BY DEF Opened
  <1>1. CASE ReservationsOf(c, d) # {}
    <2>1. /\ head[<<c, d - 1>>] # NoHead
          /\ \E x \in ReservationsOf(c, d) : reservation[x].prior = head[<<c, d - 1>>].cum
      BY <1>1 DEF Opened
    <2>2. head'[<<c, d - 1>>] # NoHead /\ head'[<<c, d - 1>>].cum = head[<<c, d - 1>>].cum
      BY <1>1, <2>1, PriorKept
    <2> QED
      BY <2>1, <2>2, OfKept
  <1>2. CASE ReservationsOf(c, d) = {}
    <2>1. Reserve
      BY <1>2, OfKept
    <2> PICK r \in Reservation, u \in User, b \in Billing, a \in Attempt, prior \in Nat :
            Makes(r, u, b, a, prior)
      BY <2>1, ReserveStep
    <2>2. r \in ReservationsOf(c, d)' /\ c = b /\ d = a
      BY <1>2, OfMade
    <2>3. ~Renews(u, b, a)
      BY <1>2, <2>2 DEF AnchorsMet, ReservationsOf, Renews
    <2>4. head[<<b, a - 1>>] # NoHead /\ prior = head[<<b, a - 1>>].cum
      <3>1. Renews(u, b, a) \/ Opens(b, a, prior)
        BY ReservesLatest
      <3> QED
        BY <2>2, <2>3, <3>1 DEF Opens
    <2>5. head' = head /\ reservation'[r].prior = prior
      BY DEF Makes
    <2> QED
      BY <2>2, <2>4, <2>5
  <1> QED
    BY <1>1, <1>2

\* An active reservation has a session, and it is not ready to settle.
ActiveHeld ==
    \A r \in Reservation : reservation[r].status = "active" =>
        session[r] # NoSession /\ ~session[r].settlement_ready

\* How a step may change the sessions: only a new reservation, or one that is
\* closed by the step, has another session, unless settlement deletes it.
LEMMA SessionStep ==
    ASSUME Typed, Typed', [Next]_vars, NEW x \in Reservation
    PROVE  \/ reservation'[x] = reservation[x] /\ session'[x] = session[x]
           \/ /\ reservation'[x].status = "closed" /\ reservation[x].status = "active"
           \/ /\ reservation[x] = NoReservation /\ reservation'[x].status = "active"
              /\ session'[x] # NoSession /\ ~session'[x].settlement_ready
           \/ /\ reservation'[x] = reservation[x]
              /\ session[x].settlement_ready /\ session'[x] = NoSession
  <1>1. CASE Deposits \/ Disputes \/ Registrations \/ Bindings \/ FreezeEpoch \/ SealEpoch
             \/ UNCHANGED vars
    BY <1>1, DepositFrame, ProviderFrame, EpochFrame DEF vars, sessions
  <1>2. CASE Reserve
    <2> PICK r \in Reservation, u \in User, b \in Billing, a \in Attempt, prior \in Nat :
            Makes(r, u, b, a, prior)
      BY <1>2, ReserveStep
    <2>1. /\ reservation[r] = NoReservation /\ reservation'[r].status = "active"
          /\ session'[r] # NoSession /\ ~session'[r].settlement_ready
      BY DEF Makes
    <2>2. x # r => reservation'[x] = reservation[x] /\ session'[x] = session[x]
      BY DEF Makes, Typed, SessionsTypeOK
    <2> QED
      BY <2>1, <2>2
  <1>3. CASE Receipts \/ Close \/ Expire
    <2> PICK r \in Reservation :
              /\ reservation[r] \in Reservations /\ reservation[r].status = "active"
              /\ Releases(r) \/ \E h \in Heads : Raises(r, h) \/ Retains(r, h)
      BY <1>3, ReceiptStep
    <2>1. ASSUME CloseReservation(r), NEW s, session' = [session EXCEPT ![r] = s]
          PROVE  \/ reservation'[x] = reservation[x] /\ session'[x] = session[x]
                 \/ reservation'[x].status = "closed" /\ reservation[x].status = "active"
      <3>1. /\ reservation' = [reservation EXCEPT ![r] = reservation'[r]]
            /\ reservation'[r] = [reservation[r] EXCEPT !.status = "closed"]
        BY <2>1, ClosedTyped DEF Typed
      <3>2. reservation'[r].status = "closed"
        BY <3>1 DEF Reservations
      <3>3. x # r => reservation'[x] = reservation[x] /\ session'[x] = session[x]
        BY <2>1, <3>1 DEF Typed, SessionsTypeOK
      <3> QED
        BY <3>2, <3>3
    <2>2. CASE Releases(r)
      BY <2>1, <2>2 DEF Releases, ReleaseAll
    <2>3. ASSUME NEW h \in Heads, Raises(r, h)
          PROVE  reservation'[x] = reservation[x] /\ session'[x] = session[x]
      BY <2>3 DEF Raises
    <2>4. ASSUME NEW h \in Heads, Retains(r, h)
          PROVE  \/ reservation'[x] = reservation[x] /\ session'[x] = session[x]
                 \/ reservation'[x].status = "closed" /\ reservation[x].status = "active"
      BY <2>1, <2>4 DEF Retains
    <2> QED
      BY <2>2, <2>3, <2>4
  <1>4. CASE SettlePage
    <2>1. PICK ids \in SUBSET Identity : \E e, before : applyPage(e, ids, before)
      BY <1>4 DEF SettlePage, commitApplyTargetedEpochPage0, applyTargetedEpoch
    <2> PICK e, before : applyPage(e, ids, before)
      BY <2>1
    <2>2. /\ UNCHANGED reservation /\ Consume(ids)
          /\ \A id \in ids : Allocatable(id, e)
      BY DEF applyPage
    <2>3. session'[x] = IF x \in {head[id].reservation : id \in ids} THEN NoSession ELSE session[x]
      BY <2>2 DEF Consume
    <2>4. \A id \in ids : session[head[id].reservation].settlement_ready
      <3> TAKE id \in ids
      <3>1. session[head[id].reservation] =
               [max_spend |-> head[id].incremental, settlement_ready |-> TRUE]
        BY <2>2 DEF Allocatable
      <3> QED
        BY <3>1
    <2> QED
      BY <2>2, <2>3, <2>4
  <1> QED
    BY <1>1, <1>2, <1>3, <1>4 DEF Next

\* Every step keeps the active reservations held.
LEMMA HeldStep == Typed /\ Typed' /\ ActiveHeld /\ [Next]_vars => ActiveHeld'
  BY SessionStep DEF ActiveHeld

\* A reservation that was closed with nothing to settle stays so: its attempt's
\* head can only become another reservation's.
LEMMA UnusedStays ==
    ASSUME Typed, Typed', [Next]_vars, NEW x \in Reservation, reservation[x] # NoReservation,
           ClosedUnused(x)
    PROVE  ClosedUnused(x)'
  <1>0. /\ IdentityOf(x)' = IdentityOf(x) /\ IdentityOf(x) \in Identity
        /\ head \in [Identity -> Heads \cup {NoHead}]
    <2>1. reservation[x] \in Reservations
      BY Present DEF Typed
    <2> QED
      BY <2>1, ReservationKept DEF SameTerms, IdentityOf, Typed, SessionsTypeOK, Identity,
                                   Reservations
  <1>1. reservation'[x].status = "closed" /\ session'[x] = NoSession
    BY SessionStep DEF ClosedUnused, NoReservation, NoSession
  <1>2. CASE UNCHANGED head
    BY <1>0, <1>1, <1>2 DEF ClosedUnused
  <1>3. CASE Receipts \/ Close \/ Expire
    <2> PICK r \in Reservation :
              /\ IdentityOf(r) \in Identity /\ reservation[r].status = "active"
              /\ Releases(r) \/ \E h \in Heads : Raises(r, h) \/ Retains(r, h)
      BY <1>3, ReceiptStep
    <2>0. x # r
      BY DEF ClosedUnused
    <2>1. CASE Releases(r)
      BY <1>2, <2>1 DEF Releases, ReleaseAll
    <2>2. ASSUME NEW h \in Heads, NEW e, Leaves(r, h, e)
          PROVE  ClosedUnused(x)'
      <3>1. head' = [head EXCEPT ![IdentityOf(r)] = h] /\ h.reservation = r
        BY <2>2 DEF Leaves
      <3>2. head'[IdentityOf(x)] = head[IdentityOf(x)] \/ head'[IdentityOf(x)].reservation = r
        BY <1>0, <3>1
      <3> QED
        BY <1>0, <1>1, <2>0, <3>2 DEF ClosedUnused
    <2> QED
      BY <2>1, <2>2 DEF Raises, Retains
  <1> QED
    BY <1>2, <1>3, HeadFrame

\* The second half of AttemptChain: of two reservations of an attempt one was
\* closed with nothing to settle.
RenewedUnused ==
    \A b \in Billing, a \in Attempt : \A r, s \in ReservationsOf(b, a) :
        r # s => ClosedUnused(r) \/ ClosedUnused(s)

\* A renewed attempt's other reservations have no session, no receipt and are
\* closed, so every step keeps the renewals unused.
LEMMA RenewedStep ==
    Typed /\ Typed' /\ AnchorsAhead /\ ActiveHeld /\ RenewedUnused /\ [Next]_vars
        => RenewedUnused'
  <1> SUFFICES ASSUME Typed, Typed', AnchorsAhead, ActiveHeld, RenewedUnused, [Next]_vars,
                      NEW c \in Billing, NEW d \in Attempt,
                      NEW x \in ReservationsOf(c, d)', NEW y \in ReservationsOf(c, d)', x # y
               PROVE  ClosedUnused(x)' \/ ClosedUnused(y)'
    BY DEF RenewedUnused
  <1>1. CASE x \in ReservationsOf(c, d) /\ y \in ReservationsOf(c, d)
    <2>1. ClosedUnused(x) \/ ClosedUnused(y)
      BY <1>1 DEF RenewedUnused
    <2>2. /\ x \in Reservation /\ reservation[x] # NoReservation
          /\ y \in Reservation /\ reservation[y] # NoReservation
      BY <1>1 DEF ReservationsOf
    <2> QED
      BY <2>1, <2>2, UnusedStays
  <1>2. CASE ~(x \in ReservationsOf(c, d) /\ y \in ReservationsOf(c, d))
    <2>1. Reserve
      BY <1>2, OfKept
    <2> PICK r \in Reservation, u \in User, b \in Billing, a \in Attempt, prior \in Nat :
            Makes(r, u, b, a, prior)
      BY <2>1, ReserveStep
    <2>2. \E z \in ReservationsOf(b, a) : c = b /\ d = a /\ (z = x \/ z = y)
      BY <1>2, OfMade
    <2> PICK z \in ReservationsOf(b, a) : z = x \/ z = y
      BY <2>2
    <2>3. /\ z \in Reservation /\ reservation[z] # NoReservation
          /\ reservation[z].billing = b /\ reservation[z].attempt = a
          /\ reservation[z] \in Reservations
      BY Present DEF ReservationsOf, Typed
    <2>4. anchor[b].user = u /\ head[<<b, a>>] = NoHead
      <3>1. Renews(u, b, a) \/ Opens(b, a, prior)
        BY ReservesLatest
      <3> QED
        BY <3>1 DEF Renews, Opens
    <2>5. reservation[z].user = u
      BY <2>3, <2>4 DEF AnchorsAhead
    <2>6. session[z] = NoSession
      BY <2>3, <2>5 DEF Makes, AttemptHasSession
    <2>7. reservation[z].status = "closed"
      BY <2>3, <2>6 DEF ActiveHeld, Reservations
    <2>8. ClosedUnused(z)
      BY <2>3, <2>4, <2>6, <2>7 DEF ClosedUnused, IdentityOf
    <2>9. ClosedUnused(z)'
      BY <2>3, <2>8, UnusedStays
    <2> QED
      BY <2>9
  <1> QED
    BY <1>1, <1>2

\* Redispatch never loses the thread, whatever the vouchers claim: every later
\* attempt was opened where its predecessor ended, the predecessor stays there,
\* and of an attempt's reservations at most one is ever charged.
THEOREM AttemptsChain == Spec => []AttemptChain
  <1> DEFINE Inv == AnchorsAhead /\ AnchorsMet /\ Opened /\ ActiveHeld /\ RenewedUnused
  <1>1. Init => Inv
    BY DEF Init, AnchorsAhead, AnchorsMet, Opened, ActiveHeld, RenewedUnused, ReservationsOf,
           NoReservation
  <1>2. Typed /\ Typed' /\ Inv /\ [Next]_vars => Inv'
    BY AnchorStep, OpenedStep, HeldStep, RenewedStep
  <1>3. Inv => AttemptChain
    BY DEF Opened, RenewedUnused, AttemptChain
  <1> QED
    BY <1>1, <1>2, <1>3, LedgerTyped, PTL DEF Spec

-----------------------------------------------------------------------------
\* Appending an element to a sequence adds it to what the sequence holds.
LEMMA AppendHolds ==
    ASSUME NEW S, NEW s \in Seq(S), NEW x \in S
    PROVE  LET t == Append(s, x) IN
           /\ Len(t) = Len(s) + 1 /\ Len(s) \in Nat
           /\ {t[i] : i \in 1..Len(t)} = {s[i] : i \in 1..Len(s)} \cup {x}
           /\ \A i \in 1..Len(s) : t[i] = s[i]
           /\ t[Len(s) + 1] = x
  <1> DEFINE t == Append(s, x)
  <1>1. /\ Len(t) = Len(s) + 1 /\ Len(s) \in Nat /\ t[Len(s) + 1] = x
        /\ \A i \in 1..Len(s) : t[i] = s[i]
    OBVIOUS
  <1>2. 1..Len(t) = 1..Len(s) \cup {Len(s) + 1}
    BY <1>1
  <1> HIDE DEF t
  <1>3. {t[i] : i \in 1..Len(t)} = {s[i] : i \in 1..Len(s)} \cup {x}
    BY <1>1, <1>2
  <1> QED
    BY <1>1, <1>3 DEF t

\* The invariant behind IndexedOnce is the property itself: an attempt whose head
\* is not ready is in no index at all, so the short look for duplicates is enough.
LEMMA IndexedStep == Typed /\ IndexedOnce /\ [Next]_vars => IndexedOnce'
  <1> SUFFICES ASSUME Typed, IndexedOnce, [Next]_vars PROVE IndexedOnce'
    OBVIOUS
  <1>0. /\ head \in [Identity -> Heads \cup {NoHead}] /\ index \in [Epoch -> Seq(Identity)]
        /\ NoHead \notin Heads /\ Epoch \subseteq Nat \ {0}
    BY LedgerAssumption DEF Typed, SessionsTypeOK, EpochsTypeOK, Heads, NoHead, Epoch
  <1>1. CASE UNCHANGED <<head, index>>
    BY <1>1 DEF IndexedOnce, Indexed
  <1>2. CASE Receipts \/ Close \/ Expire
    <2> PICK r \in Reservation :
              /\ reservation[r] \in Reservations /\ IdentityOf(r) \in Identity
              /\ Releases(r) \/ \E h \in Heads : Raises(r, h) \/ Retains(r, h)
      BY <1>2, ReceiptStep
    <2>1. CASE Releases(r)
      BY <1>1, <2>1 DEF Releases, ReleaseAll
    <2> PICK id \in Identity : id = IdentityOf(r)
      OBVIOUS
    <2>2. ASSUME NEW h \in Heads, NEW e, Leaves(r, h, e)
          PROVE  /\ head'[id] = h /\ h # NoHead
                 /\ \A x \in Identity \ {id} : head'[x] = head[x]
                 /\ \A x \in Epoch : id \notin Indexed(x)
      <3>1. head' = [head EXCEPT ![id] = h] /\ h # NoHead
        BY <1>0, <2>2 DEF Leaves
      <3>2. head'[id] = h /\ \A x \in Identity \ {id} : head'[x] = head[x]
        BY <1>0, <3>1
      <3>3. head[id] # NoHead => head[id].settlement_epoch = 0
        BY <2>2 DEF Leaves, MayReplace
      <3>4. \A x \in Epoch : id \notin Indexed(x)
        BY <1>0, <3>3 DEF IndexedOnce
      <3> QED
        BY <3>1, <3>2, <3>4
    <2>3. ASSUME NEW h \in Heads, Raises(r, h)
          PROVE  IndexedOnce'
      <3>1. UNCHANGED index /\ h.settlement_epoch = 0 /\ Leaves(r, h, 0)
        BY <2>3 DEF Raises, Leaves
      <3>2. \A x \in Epoch, y \in Identity :
               y \in Indexed(x) <=> head'[y] # NoHead /\ head'[y].settlement_epoch = x
        BY <1>0, <2>2, <3>1 DEF IndexedOnce
      <3> QED
        BY <3>1, <3>2 DEF IndexedOnce, Indexed
    <2>4. ASSUME NEW h \in Heads, Retains(r, h)
          PROVE  IndexedOnce'
      <3> PICK e : e = receiptSettlementEpoch
        OBVIOUS
      <3>1. /\ Leaves(r, h, e) /\ h.settlement_epoch = e
            /\ index' = [index EXCEPT ![e] = Append(@, id)]
        BY <2>4 DEF Retains, Leaves
      <3>3. \A x \in Epoch : x # e => index'[x] = index[x]
        BY <1>0, <3>1
      <3>4. CASE e \notin Epoch
        <4>1. \A x \in Epoch : index'[x] = index[x]
          BY <3>3, <3>4
        <4>2. \A x \in Epoch, y \in Identity :
                 y \in Indexed(x) <=> head'[y] # NoHead /\ head'[y].settlement_epoch = x
          BY <2>2, <3>1, <3>4 DEF IndexedOnce
        <4> QED
          BY <4>1, <4>2 DEF IndexedOnce, Indexed
      <3>5. CASE e \in Epoch
        <4> DEFINE s == index[e]
        <4>1. s \in Seq(Identity) /\ index'[e] = Append(s, id)
          BY <1>0, <3>1, <3>5
        <4> HIDE DEF s
        <4>2. /\ Len(index'[e]) = Len(s) + 1 /\ Len(s) \in Nat
              /\ {index'[e][i] : i \in 1..Len(index'[e])} = {s[i] : i \in 1..Len(s)} \cup {id}
              /\ \A i \in 1..Len(s) : index'[e][i] = s[i]
              /\ index'[e][Len(s) + 1] = id
          BY <4>1, AppendHolds
        <4>3. Indexed(e)' = Indexed(e) \cup {id}
          BY <4>2 DEF Indexed, s
        <4>4. \A x \in Epoch : x # e => Indexed(x)' = Indexed(x)
          BY <3>3 DEF Indexed
        <4>5. \A x \in Epoch : \A i, j \in 1..Len(index'[x]) :
                 index'[x][i] = index'[x][j] => i = j
          <5> SUFFICES ASSUME NEW x \in Epoch, NEW i \in 1..Len(index'[x]),
                              NEW j \in 1..Len(index'[x]), index'[x][i] = index'[x][j]
                       PROVE  i = j
            OBVIOUS
          <5>1. CASE x # e
            BY <3>3, <5>1 DEF IndexedOnce
          <5>2. CASE x = e
            <6>1. \A k \in 1..Len(s) : s[k] # id
              BY <2>2, <3>1, <3>5 DEF Indexed, s
            <6>2. \A k, l \in 1..Len(s) : s[k] = s[l] => k = l
              BY <3>5 DEF IndexedOnce, s
            <6>3. i \in 1..Len(s) \/ i = Len(s) + 1
              BY <4>2, <5>2
            <6>4. j \in 1..Len(s) \/ j = Len(s) + 1
              BY <4>2, <5>2
            <6> QED
              BY <4>2, <5>2, <6>1, <6>2, <6>3, <6>4
          <5> QED
            BY <5>1, <5>2
        <4>6. \A x \in Epoch, y \in Identity :
                 y \in Indexed(x)' <=> head'[y] # NoHead /\ head'[y].settlement_epoch = x
          <5> SUFFICES ASSUME NEW x \in Epoch, NEW y \in Identity
                       PROVE  y \in Indexed(x)' <=> head'[y] # NoHead /\ head'[y].settlement_epoch = x
            OBVIOUS
          <5>1. CASE y = id
            BY <2>2, <3>1, <4>3, <4>4, <5>1
          <5>2. CASE y # id
            <6>1. y \in Indexed(x)' <=> y \in Indexed(x)
              BY <4>3, <4>4, <5>2
            <6>2. head'[y] = head[y]
              BY <2>2, <3>1, <5>2
            <6> QED
              BY <6>1, <6>2 DEF IndexedOnce
          <5> QED
            BY <5>1, <5>2
        <4> QED
          BY <4>5, <4>6 DEF IndexedOnce, Indexed
      <3> QED
        BY <3>4, <3>5
    <2> QED
      BY <2>1, <2>3, <2>4
  <1> QED
    BY <1>1, <1>2, HeadFrame

\* A receipt that is ready to settle is in the index of exactly the epoch its head
\* names, once, however many index pages the epoch has.
THEOREM ReceiptsIndexedOnce == Spec => []IndexedOnce
  <1>1. Init => IndexedOnce
    BY LedgerAssumption DEF Init, IndexedOnce, Indexed, NoHead, Epoch
  <1>2. Typed /\ IndexedOnce /\ [Next]_vars => IndexedOnce'
    BY IndexedStep
  <1> QED
    BY <1>1, <1>2, LedgerTyped, PTL DEF Spec

-----------------------------------------------------------------------------
(***************************************************************************)
(* Settlement pages.                                                       *)
(***************************************************************************)
\* What the first page of an epoch adds to.
FirstPage(e) ==
    [epoch |-> e, count |-> 0, debit |-> 0, fee |-> 0, burn |-> 0, commit |-> EpochCommit(e)]

StartsFrom(e, before) ==
    \/ pending = NoPending /\ e = updated_epoch + 1 /\ before = FirstPage(e)
    \/ pending # NoPending /\ e = pending.epoch /\ before = pending

\* A settlement step applies one page, from the state that page zero commits or from
\* the pending one.
LEMMA PageStep ==
    ASSUME Typed, SettlePage
    PROVE  \E e \in 1..MaxEpoch, ids \in SUBSET Identity :
              \E before : applyPage(e, ids, before) /\ StartsFrom(e, before)
  <1> PICK ids \in SUBSET Identity : commitApplyTargetedEpochPage0(ids) \/ applyTargetedEpoch(ids)
    BY DEF SettlePage
  <1>1. CASE commitApplyTargetedEpochPage0(ids)
    <2>1. /\ applyPage(updated_epoch + 1, ids, FirstPage(updated_epoch + 1))
          /\ pending = NoPending /\ updated_epoch + 1 <= MaxEpoch
      BY <1>1 DEF commitApplyTargetedEpochPage0, FirstPage
    <2>2. updated_epoch + 1 \in 1..MaxEpoch
      BY <2>1, LedgerAssumption DEF Typed, EpochsTypeOK
    <2>3. StartsFrom(updated_epoch + 1, FirstPage(updated_epoch + 1))
      BY <2>1 DEF StartsFrom
    <2> QED
      BY <2>1, <2>2, <2>3
  <1>2. CASE applyTargetedEpoch(ids)
    <2>1. applyPage(pending.epoch, ids, pending) /\ pending # NoPending
      BY <1>2 DEF applyTargetedEpoch
    <2>2. pending.epoch \in 1..MaxEpoch
      BY <2>1 DEF Typed, EpochsTypeOK
    <2>3. StartsFrom(pending.epoch, pending)
      BY <2>1 DEF StartsFrom
    <2> QED
      BY <2>1, <2>2, <2>3
  <1> QED
    BY <1>1, <1>2

\* What a page leaves: the epoch is settled, or it is pending.
Leads(e, done) ==
    \/ Completes(done) /\ updated_epoch' = e /\ pending' = NoPending
    \/ done.count < done.commit.count /\ pending' = done /\ UNCHANGED updated_epoch

\* A page settles its epoch or leaves it pending.
LEMMA PageLeads ==
    ASSUME NEW e, NEW ids, NEW before, applyPage(e, ids, before)
    PROVE  Leads(e, Accumulated(before, e, ids, Deltas(e, Earnings(ids))))
  <1>1. FinishPage(Accumulated(before, e, ids, Deltas(e, Earnings(ids))))
    BY DEF applyPage
  <1>2. Accumulated(before, e, ids, Deltas(e, Earnings(ids))).epoch = e
    BY DEF Accumulated
  <1> QED
    BY <1>1, <1>2 DEF FinishPage, Leads

\* The epochs only move forward, and a page settles the epoch after the settled one.
LEMMA EpochsMove ==
    ASSUME Typed, CursorInStep, [Next]_vars
    PROVE  /\ base' \in Nat /\ base <= base' /\ updated_epoch' >= updated_epoch
           /\ \A e, ids, before : applyPage(e, ids, before) /\ StartsFrom(e, before) =>
                 e = updated_epoch + 1 /\ base' = e
           /\ ~SealEpoch /\ ~SettlePage => UNCHANGED <<updated_epoch, pending>>
  <1>0. updated_epoch \in Nat /\ base \in 0..MaxEpoch /\ MaxEpoch \in Nat
    BY EpochNumbers, LedgerAssumption DEF Typed, EpochsTypeOK
  <1>1. ASSUME NEW e, NEW ids, NEW before, applyPage(e, ids, before), StartsFrom(e, before)
        PROVE  e = updated_epoch + 1 /\ base' = e /\ updated_epoch' >= updated_epoch /\ base <= e
    <2>1. e = updated_epoch + 1 /\ base <= e
      BY <1>0, <1>1 DEF StartsFrom, CursorInStep, base
    <2> DEFINE done == Accumulated(before, e, ids, Deltas(e, Earnings(ids)))
    <2>2. done.epoch = e
      BY DEF Accumulated
    <2>3. Leads(e, done)
      BY <1>1, PageLeads
    <2> HIDE DEF done
    <2>4. base' = e
      BY <1>0, <2>1, <2>2, <2>3 DEF Leads, base, NoPending
    <2>5. updated_epoch' >= updated_epoch
      BY <1>0, <2>1, <2>3 DEF Leads
    <2> QED
      BY <2>1, <2>4, <2>5
  <1>2. CASE ~SealEpoch /\ ~SettlePage
    <2>1. UNCHANGED <<updated_epoch, pending>>
      <3>1. CASE Deposits \/ Disputes \/ Registrations \/ Bindings \/ UNCHANGED vars
        BY <3>1, DepositFrame, ProviderFrame DEF vars, epochs
      <3>2. CASE Reserve
        BY <3>2 DEF Reserve, spendReserveTargeted, epochs
      <3>3. CASE Receipts \/ Close \/ Expire
        BY <3>3, IndexStep
      <3>4. CASE FreezeEpoch
        BY <3>4 DEF FreezeEpoch, epochFreeze
      <3> QED
        BY <1>2, <3>1, <3>2, <3>3, <3>4 DEF Next
    <2> QED
      BY <1>0, <1>1, <2>1 DEF base
  <1>3. CASE SealEpoch
    BY <1>0, <1>1, <1>3 DEF SealEpoch, epochSealEmpty, base
  <1>4. CASE SettlePage
    BY <1>0, <1>1, <1>4, PageStep
  <1> QED
    BY <1>2, <1>3, <1>4

\* A head that is ready to settle stays as it is.
LEMMA ReadyKept ==
    ASSUME Typed, [Next]_vars, NEW id \in Identity, head[id] # NoHead,
           head[id].settlement_epoch # 0
    PROVE  head'[id] = head[id]
  <1>1. head \in [Identity -> Heads \cup {NoHead}]
    BY DEF Typed, SessionsTypeOK
  <1>2. CASE UNCHANGED head
    BY <1>2
  <1>3. CASE \E x \in Identity, h \in Heads :
                 /\ head' = [head EXCEPT ![x] = h]
                 /\ head[x] # NoHead => head[x].settlement_epoch = 0
    BY <1>1, <1>3
  <1> QED
    BY <1>2, <1>3, HeadStep

\* Only settlement consumes.
LEMMA ConsumeFrame ==
    ASSUME Typed, [Next]_vars, ~SettlePage
    PROVE  UNCHANGED <<consumed, settled>>
  <1>1. CASE Deposits \/ Disputes \/ Registrations \/ Bindings \/ UNCHANGED vars
    BY <1>1, DepositFrame, ProviderFrame DEF vars, epochs
  <1>2. CASE Reserve
    BY <1>2 DEF Reserve, spendReserveTargeted, epochs
  <1>3. CASE Receipts \/ Close \/ Expire
    BY <1>3, ReceiptStep
  <1>4. CASE FreezeEpoch \/ SealEpoch
    BY <1>4, EpochFrame
  <1> QED
    BY <1>1, <1>2, <1>3, <1>4 DEF Next

\* A consumed receipt was ready in an epoch whose settlement has begun.
ConsumedKnown == \A id \in consumed : head[id] # NoHead /\ head[id].settlement_epoch \in 1..base

\* Every step keeps it so.
LEMMA ConsumedStep == Typed /\ CursorInStep /\ ConsumedKnown /\ [Next]_vars => ConsumedKnown'
  <1> SUFFICES ASSUME Typed, CursorInStep, ConsumedKnown, [Next]_vars PROVE ConsumedKnown'
    OBVIOUS
  <1>0. base \in Nat /\ base' \in Nat /\ base <= base' /\ consumed \subseteq Identity
    BY EpochsMove, EpochNumbers, LedgerAssumption DEF Typed, EpochsTypeOK
  <1>1. ASSUME NEW id \in consumed
        PROVE  head'[id] # NoHead /\ head'[id].settlement_epoch \in 1..base'
    BY <1>0, <1>1, ReadyKept DEF ConsumedKnown
  <1>2. CASE ~SettlePage
    <2>1. consumed' = consumed
      BY <1>2, ConsumeFrame
    <2> QED
      BY <1>1, <2>1 DEF ConsumedKnown
  <1>3. CASE SettlePage
    <2> PICK e \in 1..MaxEpoch, ids \in SUBSET Identity :
           \E before : applyPage(e, ids, before) /\ StartsFrom(e, before)
      BY <1>3, PageStep
    <2> PICK before : applyPage(e, ids, before) /\ StartsFrom(e, before)
      OBVIOUS
    <2>1. consumed' = consumed \cup ids /\ UNCHANGED head
      BY DEF applyPage, Consume
    <2>2. \A id \in ids : head[id] # NoHead /\ head[id].settlement_epoch = e
      BY DEF applyPage, Allocatable
    <2>3. base' = e
      BY EpochsMove
    <2>4. \A id \in consumed' : head'[id] # NoHead /\ head'[id].settlement_epoch \in 1..base'
      BY <1>1, <2>1, <2>2, <2>3
    <2> QED
      BY <2>4 DEF ConsumedKnown
  <1> QED
    BY <1>2, <1>3

\* The cursor is in step, and consumed receipts are known.
LEMMA SettlementKnown == Spec => [](CursorInStep /\ ConsumedKnown)
  <1>1. Init => CursorInStep /\ ConsumedKnown
    BY DEF Init, CursorInStep, ConsumedKnown
  <1>2. Typed /\ CursorInStep /\ ConsumedKnown /\ [Next]_vars => (CursorInStep /\ ConsumedKnown)'
    BY CursorStep, ConsumedStep
  <1> QED
    BY <1>1, <1>2, LedgerTyped, PTL DEF Spec

\* A receipt becomes ready only in an epoch whose settlement has not begun.
LEMMA NewReady ==
    ASSUME Typed, [Next]_vars, NEW id \in Identity, head'[id] # NoHead,
           head'[id].settlement_epoch # 0, head'[id] # head[id]
    PROVE  /\ head'[id].settlement_epoch > base
           /\ UNCHANGED <<updated_epoch, pending, consumed>>
  <1>0. head \in [Identity -> Heads \cup {NoHead}]
    BY DEF Typed, SessionsTypeOK
  <1>1. Receipts \/ Close \/ Expire
    BY HeadFrame
  <1> PICK r \in Reservation :
            /\ IdentityOf(r) \in Identity
            /\ UNCHANGED <<consumed, updated_epoch, pending>>
            /\ Releases(r) \/ \E h \in Heads : Raises(r, h) \/ Retains(r, h)
    BY <1>1, ReceiptStep
  <1>2. CASE Releases(r)
    BY <1>2 DEF Releases, ReleaseAll
  <1>3. ASSUME NEW h \in Heads, Raises(r, h) PROVE FALSE
    BY <1>0, <1>3 DEF Raises, Leaves
  <1>4. ASSUME NEW h \in Heads, Retains(r, h)
        PROVE  head'[id].settlement_epoch = receiptSettlementEpoch
    BY <1>0, <1>4 DEF Retains, Leaves
  <1>5. receiptSettlementEpoch > base
    BY EpochNumbers DEF Typed
  <1> QED
    BY <1>2, <1>3, <1>4, <1>5

\* The batch of an epoch whose settlement has begun is fixed.
LEMMA BatchKept ==
    ASSUME Typed, [Next]_vars, NEW e \in Epoch, e <= base
    PROVE  index'[e] = index[e]
  <1>0. index \in [Epoch -> Seq(Identity)] /\ receiptSettlementEpoch > base /\ base \in Int
        /\ receiptSettlementEpoch \in Int /\ e \in Int
    BY EpochNumbers, LedgerAssumption, SMTT(30) DEF Typed, EpochsTypeOK, Epoch
  <1>1. CASE UNCHANGED index
    BY <1>1
  <1>2. CASE \E id \in Identity : index' = [index EXCEPT ![receiptSettlementEpoch] = Append(@, id)]
    BY <1>0, <1>2
  <1> QED
    BY <1>1, <1>2, HeadFrame, IndexStep

\* An index holds as many receipts as it is long.
LEMMA IndexSize ==
    ASSUME Typed, IndexedOnce, NEW e \in Epoch
    PROVE  /\ IsFiniteSet(Indexed(e)) /\ Cardinality(Indexed(e)) = Len(index[e])
           /\ Indexed(e) \subseteq Identity
  <1> PICK s : s = index[e]
    OBVIOUS
  <1>1. s \in Seq(Identity) /\ Len(s) \in Nat /\ \A i, j \in 1..Len(s) : s[i] = s[j] => i = j
    BY DEF Typed, EpochsTypeOK, IndexedOnce
  <1> PICK S : S = Indexed(e)
    OBVIOUS
  <1>2. S = {s[i] : i \in 1..Len(s)} /\ S \subseteq Identity
    BY <1>1 DEF Indexed
  <1> DEFINE f == [i \in 1..Len(s) |-> s[i]]
  <1>3. f \in Bijection(1..Len(s), S)
    BY <1>1, <1>2 DEF Bijection, Injection, Surjection, IsInjective
  <1>4. ExistsBijection(1..Len(s), S)
    BY <1>3 DEF ExistsBijection
  <1>5. IsFiniteSet(1..Len(s)) /\ Cardinality(1..Len(s)) = Len(s)
    BY <1>1, FS_Interval, SMTT(30)
  <1>6. IsFiniteSet(S) /\ Cardinality(S) = Len(s)
    BY <1>4, <1>5, FS_Bijection
  <1> QED
    BY <1>2, <1>6

\* The receipts of an epoch that pages have consumed.
DoneIn(e) == {id \in Indexed(e) : id \in consumed}

\* A page consumes receipts of its epoch that no page has consumed.
LEMMA PageConsumes ==
    ASSUME Typed, IndexedOnce, NEW e \in Epoch, NEW ids \in SUBSET Identity, NEW before,
           applyPage(e, ids, before)
    PROVE  /\ ids \subseteq Indexed(e) /\ DoneIn(e)' = DoneIn(e) \cup ids
           /\ DoneIn(e) \cap ids = {}
           /\ \A x \in Epoch \ {e} : DoneIn(x)' = DoneIn(x)
           /\ UNCHANGED <<head, index, reservation>>
  <1>1. UNCHANGED <<head, index, reservation>> /\ consumed' = consumed \cup ids
    BY DEF applyPage, Consume
  <1>2. \A id \in ids : id \notin consumed /\ head[id] # NoHead /\ head[id].settlement_epoch = e
    BY DEF applyPage, Allocatable
  <1>3. ids \subseteq Indexed(e)
    BY <1>2 DEF IndexedOnce
  <1>4. \A x \in Epoch : Indexed(x)' = Indexed(x)
    BY <1>1 DEF Indexed
  <1>5. \A x \in Epoch : x # e => ids \cap Indexed(x) = {}
    BY <1>2 DEF IndexedOnce
  <1>6. DoneIn(e)' = DoneIn(e) \cup ids
    BY <1>1, <1>3, <1>4 DEF DoneIn
  <1>7. \A x \in Epoch \ {e} : DoneIn(x)' = DoneIn(x)
    BY <1>1, <1>4, <1>5 DEF DoneIn
  <1>8. DoneIn(e) \cap ids = {}
    BY <1>2 DEF DoneIn
  <1> QED
    BY <1>1, <1>3, <1>6, <1>7, <1>8

\* No receipt of an epoch is consumed before its settlement begins.
LEMMA NothingDone ==
    ASSUME Typed, IndexedOnce, ConsumedKnown, NEW e \in Epoch, e > base
    PROVE  DoneIn(e) = {}
  BY EpochNumbers DEF Typed, EpochsTypeOK, DoneIn, IndexedOnce, ConsumedKnown, Epoch

\* Other steps leave the consumed receipts of every epoch alone.
LEMMA DoneKept ==
    ASSUME Typed, IndexedOnce, ConsumedKnown, [Next]_vars, ~SettlePage, NEW e \in Epoch,
           CursorInStep
    PROVE  DoneIn(e)' = DoneIn(e)
  <1>1. consumed' = consumed
    BY ConsumeFrame
  <1>2. CASE e <= base
    <2>1. index'[e] = index[e]
      BY <1>2, BatchKept
    <2> QED
      BY <1>1, <2>1 DEF DoneIn, Indexed
  <1>3. CASE ~(e <= base)
    <2>0. e \in Nat /\ base \in Nat /\ consumed \subseteq Identity
      BY EpochNumbers, LedgerAssumption DEF Typed, EpochsTypeOK, Epoch
    <2>1. DoneIn(e) = {}
      BY <1>3, <2>0, NothingDone
    <2>2. IndexedOnce'
      BY IndexedStep
    <2>3. \A id \in consumed : head'[id] = head[id]
      BY <2>0, ReadyKept DEF ConsumedKnown
    <2>4. \A id \in consumed : id \notin Indexed(e)'
      BY <1>3, <2>0, <2>2, <2>3 DEF IndexedOnce, ConsumedKnown
    <2> QED
      BY <1>1, <2>1, <2>4 DEF DoneIn
  <1> QED
    BY <1>2, <1>3

\* The pending state counts the consumed receipts of its epoch, and every receipt of
\* a settled epoch is consumed.
Counted ==
    /\ \A id \in Identity : head[id] # NoHead /\ head[id].settlement_epoch \in 1..updated_epoch
          => id \in consumed
    /\ pending # NoPending => /\ pending.count = Cardinality(DoneIn(pending.epoch))
                              /\ pending.commit.count = Len(index[pending.epoch])

\* Every step keeps the count: a page adds receipts that were not consumed, and it
\* settles the epoch only when the count reaches the length of the index.
LEMMA CountedStep ==
    Typed /\ CursorInStep /\ ConsumedKnown /\ IndexedOnce /\ Counted /\ [Next]_vars => Counted'
  <1> SUFFICES ASSUME Typed, CursorInStep, ConsumedKnown, IndexedOnce, Counted, [Next]_vars
               PROVE  Counted'
    OBVIOUS
  <1>0. /\ base \in Nat /\ updated_epoch \in Nat /\ updated_epoch <= base
        /\ pending # NoPending => pending.epoch \in Epoch /\ pending.epoch = base
        /\ MaxEpoch \in Nat
    BY EpochNumbers, LedgerAssumption DEF Typed, EpochsTypeOK, Epoch, base, CursorInStep
  <1>1. CASE ~SettlePage
    <2>1. UNCHANGED pending
      BY <1>1, EpochsMove, EpochFrame
    <2>2. pending' # NoPending => /\ pending'.count = Cardinality(DoneIn(pending.epoch)')
                                  /\ pending'.commit.count = Len(index'[pending.epoch])
      BY <1>0, <1>1, <2>1, BatchKept, DoneKept DEF Counted
    <2>3. ASSUME NEW id \in Identity, head'[id] # NoHead,
                 head'[id].settlement_epoch \in 1..updated_epoch'
          PROVE  id \in consumed'
      <3>1. CASE head'[id] # head[id]
        <4>1. head'[id].settlement_epoch > base /\ updated_epoch' = updated_epoch
          BY <2>3, <3>1, NewReady
        <4> QED
          BY <1>0, <2>3, <4>1
      <3>2. CASE head'[id] = head[id] /\ updated_epoch' = updated_epoch
        BY <1>1, <2>3, <3>2, ConsumeFrame DEF Counted
      <3>3. CASE head'[id] = head[id] /\ SealEpoch
        <4>1. PICK e \in 1..MaxEpoch : epochSealEmpty(e)
          BY <3>3 DEF SealEpoch
        <4>2. /\ index[e] = <<>> /\ updated_epoch' = e /\ e = updated_epoch + 1
              /\ consumed' = consumed /\ e \in Epoch
          BY <1>0, <4>1 DEF epochSealEmpty, Epoch
        <4>3. Indexed(e) = {}
          BY <4>2 DEF Indexed
        <4>4. head[id].settlement_epoch # e
          BY <2>3, <3>3, <4>2, <4>3 DEF IndexedOnce
        <4>5. head[id].settlement_epoch \in 1..updated_epoch
          BY <1>0, <2>3, <3>3, <4>2, <4>4
        <4> QED
          BY <2>3, <3>3, <4>2, <4>5 DEF Counted
      <3> QED
        BY <1>1, <3>1, <3>2, <3>3, EpochsMove
    <2> QED
      BY <2>1, <2>2, <2>3 DEF Counted
  <1>2. CASE SettlePage
    <2> PICK e \in 1..MaxEpoch, ids \in SUBSET Identity :
           \E before : applyPage(e, ids, before) /\ StartsFrom(e, before)
      BY <1>2, PageStep
    <2> PICK before : applyPage(e, ids, before) /\ StartsFrom(e, before)
      OBVIOUS
    <2>0. e \in Epoch /\ e = updated_epoch + 1
      BY <1>0, EpochsMove DEF Epoch
    <2>1. before.count = Cardinality(DoneIn(e)) /\ before.commit.count = Len(index[e])
      <3>1. before.commit.count = Len(index[e])
        BY DEF applyPage
      <3>2. CASE pending = NoPending
        <4>1. before.count = 0
          BY <3>2 DEF StartsFrom, FirstPage
        <4>2. DoneIn(e) = {}
          BY <1>0, <2>0, <3>2, NothingDone DEF base
        <4> QED
          BY <3>1, <4>1, <4>2, FS_EmptySet
      <3>3. CASE pending # NoPending
        BY <3>1, <3>3 DEF StartsFrom, Counted
      <3> QED
        BY <3>2, <3>3
    <2>2. /\ ids \subseteq Indexed(e) /\ DoneIn(e)' = DoneIn(e) \cup ids
          /\ DoneIn(e) \cap ids = {} /\ UNCHANGED <<head, index>>
      BY <2>0, PageConsumes
    <2> PICK D, E, I : D = DoneIn(e) /\ E = DoneIn(e)' /\ I = Indexed(e)
      OBVIOUS
    <2>3. D \subseteq I /\ IsFiniteSet(I) /\ Cardinality(I) = Len(index[e])
      BY <2>0, IndexSize DEF DoneIn
    <2>4. IsFiniteSet(D) /\ IsFiniteSet(ids)
      BY <2>2, <2>3, FS_Subset
    <2>5. Cardinality(E) = Cardinality(D) + Cardinality(ids) /\ E \subseteq I
      <3>1. Cardinality(D \cup ids) = Cardinality(D) + Cardinality(ids) - Cardinality(D \cap ids)
        BY <2>4, FS_Union
      <3>2. Cardinality(D \cap ids) = 0
        BY <2>2, FS_EmptySet
      <3> QED
        BY <2>2, <2>3, <2>4, <3>1, <3>2, FS_CardinalityType
    <2> DEFINE done == Accumulated(before, e, ids, Deltas(e, Earnings(ids)))
    <2>6. done.epoch = e /\ done.count = Cardinality(E) /\ done.commit.count = Len(index[e])
      BY <2>1, <2>5 DEF Accumulated
    <2>7. Leads(e, done)
      BY PageLeads
    <2> HIDE DEF done
    <2>8. CASE Completes(done) /\ updated_epoch' = e /\ pending' = NoPending
      <3>1. Cardinality(E) = Cardinality(I)
        BY <2>3, <2>6, <2>8 DEF Completes
      <3>2. E = I
        BY <2>3, <2>5, <3>1, FS_Subset
      <3>3. \A id \in Indexed(e) : id \in consumed'
        BY <3>2 DEF DoneIn
      <3>4. ASSUME NEW id \in Identity, head[id] # NoHead,
                   head[id].settlement_epoch \in 1..e
            PROVE  id \in consumed'
        <4>1. CASE head[id].settlement_epoch = e
          BY <2>0, <3>3, <3>4, <4>1 DEF IndexedOnce
        <4>2. CASE head[id].settlement_epoch # e
          <5>1. head[id].settlement_epoch \in 1..updated_epoch
            BY <1>0, <2>0, <3>4, <4>2
          <5>2. id \in consumed
            BY <3>4, <5>1 DEF Counted
          <5> QED
            BY <5>2 DEF applyPage, Consume
        <4> QED
          BY <4>1, <4>2
      <3> QED
        BY <2>2, <2>8, <3>4 DEF Counted
    <2>9. CASE pending' = done /\ UNCHANGED updated_epoch
      <3>1. \A id \in Identity : head[id] # NoHead /\ head[id].settlement_epoch \in 1..updated_epoch
               => id \in consumed'
        BY DEF Counted, applyPage, Consume
      <3>2. DoneIn(pending.epoch)' = E
        BY <2>6, <2>9
      <3>3. pending'.count = Cardinality(DoneIn(pending.epoch)')
        BY <2>6, <2>9, <3>2
      <3> QED
        BY <2>2, <2>6, <2>9, <3>1, <3>3 DEF Counted
    <2> QED
      BY <2>7, <2>8, <2>9 DEF Leads
  <1> QED
    BY <1>1, <1>2

\* An epoch closes over all of its receipts, however its pages are cut.
THEOREM EpochsComplete == Spec => []NoReceiptLeftBehind
  <1>1. Init => Counted
    BY DEF Init, Counted
  <1>2. Typed /\ CursorInStep /\ ConsumedKnown /\ IndexedOnce /\ Counted /\ [Next]_vars => Counted'
    BY CountedStep
  <1>3. Typed /\ ConsumedKnown /\ Counted => NoReceiptLeftBehind
    <2> SUFFICES ASSUME Typed, ConsumedKnown, Counted, NEW id \in Identity, head[id] # NoHead,
                        head[id].settlement_epoch # 0
                 PROVE  /\ head[id].settlement_epoch <= updated_epoch => id \in consumed
                        /\ id \in consumed => head[id].settlement_epoch <= base
      BY DEF NoReceiptLeftBehind
    <2>1. head[id].settlement_epoch \in Nat /\ updated_epoch \in Nat /\ base \in Nat
      BY EpochNumbers, Present, LedgerAssumption DEF Typed, EpochsTypeOK, Heads
    <2> QED
      BY <2>1 DEF ConsumedKnown, Counted
  <1> QED
    BY <1>1, <1>2, <1>3, LedgerTyped, SettlementKnown, ReceiptsIndexedOnce, PTL DEF Spec

-----------------------------------------------------------------------------
(***************************************************************************)
(* The settlement's books.  What each receipt owes, to whom and by whom.   *)
(***************************************************************************)
Owe == [id \in Identity |-> IF head[id] = NoHead THEN 0 ELSE head[id].incremental]
Payer == [id \in Identity |-> HeadUser(id)]
Payee == [id \in Identity |-> HeadProvider(id)]
Headed == {id \in Identity : head[id] # NoHead}

\* The sets that sums range over are finite.
LEMMA FiniteIdentity == IsFiniteSet(Identity) /\ IsFiniteSet(Epoch)
  <1>1. IsFiniteSet(Attempt) /\ IsFiniteSet(Epoch)
    BY FS_Interval, LedgerAssumption DEF Attempt, Epoch
  <1> QED
    BY <1>1, FS_Product, LedgerAssumption DEF Identity

\* The sums of the model, in terms of these.
LEMMA Owes ==
    ASSUME Typed, HeadsNamed
    PROVE  /\ NatOn(Owe, Identity) /\ IntOn(Owe, Identity)
           /\ \A ids \in SUBSET Headed :
                 /\ IsFiniteSet(ids) /\ IntOn(Owe, ids)
                 /\ KeysOn(Payer, ids, User) /\ KeysOn(Payee, ids, Provider)
                 /\ SumIncremental(ids) = SumFunctionOnSet(Owe, ids)
                 /\ Debits(ids) = GroupSums(Owe, Payer, ids, User)
                 /\ Earnings(ids) = GroupSums(Owe, Payee, ids, Provider)
  <1>0. head \in [Identity -> Heads \cup {NoHead}]
    BY DEF Typed, SessionsTypeOK
  <1>1. NatOn(Owe, Identity) /\ IntOn(Owe, Identity)
    BY <1>0 DEF NatOn, IntOn, Owe, Heads
  <1>2. ASSUME NEW ids \in SUBSET Headed
        PROVE  IsFiniteSet(ids) /\ SumIncremental(ids) = SumFunctionOnSet(Owe, ids)
    <2>1. ids \in SUBSET Identity
      BY DEF Headed
    <2>2. IsFiniteSet(ids)
      BY <2>1, FiniteIdentity, FS_Subset
    <2> PICK g : g = [id \in ids |-> head[id].incremental]
      OBVIOUS
    <2>3. SumIncremental(ids) = SumFunctionOnSet(g, ids)
      BY SumWhole DEF SumIncremental
    <2>4. SameOn(g, Owe, ids)
      BY <2>1 DEF SameOn, Owe, Headed
    <2>5. SumFunctionOnSet(g, ids) = SumFunctionOnSet(Owe, ids)
      BY <2>2, <2>4, SumSame
    <2> QED
      BY <2>2, <2>3, <2>5
  <1>3. ASSUME NEW ids \in SUBSET Headed
        PROVE  /\ KeysOn(Payer, ids, User) /\ KeysOn(Payee, ids, Provider)
               /\ IntOn(Owe, ids)
               /\ Debits(ids) = GroupSums(Owe, Payer, ids, User)
               /\ Earnings(ids) = GroupSums(Owe, Payee, ids, Provider)
    <2>1. \A id \in ids : /\ id \in Identity /\ head[id] # NoHead
                          /\ HeadUser(id) \in User /\ HeadProvider(id) \in Provider
      <3> SUFFICES ASSUME NEW id \in ids
                   PROVE  HeadUser(id) \in User /\ HeadProvider(id) \in Provider
        BY DEF Headed
      <3>1. id \in Identity /\ head[id] # NoHead
        BY DEF Headed
      <3>2. head[id].reservation \in Reservation /\ reservation[head[id].reservation] # NoReservation
        BY <3>1, Present DEF Typed, Heads, HeadsNamed
      <3>3. reservation[head[id].reservation] \in Reservations
        BY <3>2, Present DEF Typed
      <3> QED
        BY <3>3 DEF HeadUser, HeadProvider, Reservations
    <2>2. \A u : GroupOf(Payer, ids, u) = {id \in ids : HeadUser(id) = u}
      BY <2>1 DEF GroupOf, Payer
    <2>3. \A p : GroupOf(Payee, ids, p) = {id \in ids : HeadProvider(id) = p}
      BY <2>1 DEF GroupOf, Payee
    <2>4. \A u : SumIncremental({id \in ids : HeadUser(id) = u})
                   = SumFunctionOnSet(Owe, GroupOf(Payer, ids, u))
      <3> TAKE u
      <3>1. GroupOf(Payer, ids, u) \in SUBSET Headed
        BY DEF GroupOf
      <3> QED
        BY <1>2, <2>2, <3>1
    <2>5. \A p : SumIncremental({id \in ids : HeadProvider(id) = p})
                   = SumFunctionOnSet(Owe, GroupOf(Payee, ids, p))
      <3> TAKE p
      <3>1. GroupOf(Payee, ids, p) \in SUBSET Headed
        BY DEF GroupOf
      <3> QED
        BY <1>2, <2>3, <3>1
    <2>6. Debits(ids) = GroupSums(Owe, Payer, ids, User)
      BY <2>4 DEF Debits, GroupSums
    <2>7. Earnings(ids) = GroupSums(Owe, Payee, ids, Provider)
      BY <2>5 DEF Earnings, GroupSums
    <2>8. KeysOn(Payer, ids, User) /\ KeysOn(Payee, ids, Provider)
      BY <2>1 DEF KeysOn, Payer, Payee
    <2>9. IntOn(Owe, ids)
      BY <1>1, <2>1 DEF IntOn
    <2> QED
      BY <2>6, <2>7, <2>8, <2>9
  <1> QED
    BY <1>1, <1>2, <1>3

\* Receipts that are ready keep what they owe, to whom and by whom.
LEMMA OwesKept ==
    ASSUME Typed, HeadsNamed, [Next]_vars, NEW ids \in SUBSET Identity,
           \A id \in ids : head[id] # NoHead /\ head[id].settlement_epoch # 0
    PROVE  /\ SameOn(Owe, Owe', ids) /\ SameOn(Payer, Payer', ids) /\ SameOn(Payee, Payee', ids)
           /\ ids \in SUBSET Headed /\ ids \in SUBSET Headed'
  <1>1. ASSUME NEW id \in ids
        PROVE  /\ id \in Identity /\ head'[id] = head[id] /\ head[id] # NoHead
               /\ HeadUser(id)' = HeadUser(id) /\ HeadProvider(id)' = HeadProvider(id)
    <2>1. id \in Identity /\ head'[id] = head[id] /\ head[id] # NoHead
      BY ReadyKept
    <2> PICK r : r = head[id].reservation
      OBVIOUS
    <2>2. r \in Reservation /\ reservation[r] # NoReservation
      BY <2>1, Present DEF Typed, Heads, HeadsNamed
    <2>3. SameTerms(reservation'[r], reservation[r])
      BY <2>2, ReservationKept
    <2> QED
      BY <2>1, <2>3 DEF SameTerms, HeadUser, HeadProvider
  <1>2. SameOn(Owe, Owe', ids)
    BY <1>1 DEF SameOn, Owe
  <1>3. SameOn(Payer, Payer', ids) /\ SameOn(Payee, Payee', ids)
    BY <1>1 DEF SameOn, Payer, Payee
  <1>4. ids \in SUBSET Headed /\ ids \in SUBSET Headed'
    BY <1>1 DEF Headed
  <1> QED
    BY <1>2, <1>3, <1>4

\* What is proved of the receipts and their epochs so far.
Orderly == Typed /\ HeadsNamed /\ CursorInStep /\ ConsumedKnown /\ IndexedOnce /\ Counted

\* The ledger stays orderly.
LEMMA LedgerOrderly == Spec => []Orderly
  <1>1. Init => Counted
    BY DEF Init, Counted
  <1>2. Typed /\ CursorInStep /\ ConsumedKnown /\ IndexedOnce /\ Counted /\ [Next]_vars => Counted'
    BY CountedStep
  <1> QED
    BY <1>1, <1>2, LedgerTyped, LedgerNamed, SettlementKnown, ReceiptsIndexedOnce, PTL
       DEF Spec, Orderly

\* Consumed receipts, and the receipts of an epoch, are ready.
LEMMA ReadySets ==
    ASSUME Orderly
    PROVE  /\ \A id \in consumed : /\ id \in Identity /\ head[id] # NoHead
                                   /\ head[id].settlement_epoch # 0
           /\ \A e \in Epoch : \A id \in Indexed(e) :
                 id \in Identity /\ head[id] # NoHead /\ head[id].settlement_epoch # 0
           /\ \A e \in Epoch : \A id \in DoneIn(e) :
                 id \in Identity /\ head[id] # NoHead /\ head[id].settlement_epoch # 0
  <1>1. Epoch \subseteq Nat \ {0} /\ consumed \subseteq Identity
    BY LedgerAssumption DEF Epoch, Orderly, Typed, EpochsTypeOK
  <1>2. \A e \in Epoch : Indexed(e) \subseteq Identity
    BY IndexSize DEF Orderly
  <1>3. \A e \in Epoch : \A id \in Indexed(e) :
                 id \in Identity /\ head[id] # NoHead /\ head[id].settlement_epoch # 0
    BY <1>1, <1>2 DEF Orderly, IndexedOnce
  <1>4. \A id \in consumed : /\ id \in Identity /\ head[id] # NoHead
                             /\ head[id].settlement_epoch # 0
    BY <1>1, EpochNumbers DEF Orderly, Typed, ConsumedKnown
  <1> QED
    BY <1>3, <1>4 DEF DoneIn

\* A page's receipts are ready.
LEMMA PageReady ==
    ASSUME Orderly, NEW e \in Epoch, NEW ids \in SUBSET Identity, NEW before,
           applyPage(e, ids, before)
    PROVE  \A id \in ids : head[id] # NoHead /\ head[id].settlement_epoch # 0 /\ id \notin consumed
  <1>1. e # 0
    BY LedgerAssumption DEF Epoch
  <1>2. \A id \in ids : head[id] # NoHead /\ head[id].settlement_epoch = e /\ id \notin consumed
    BY DEF applyPage, Allocatable
  <1> QED
    BY <1>1, <1>2

-----------------------------------------------------------------------------
\* A provider's gross of an epoch is the sum of its consumed receipts.
GrossKept == gross = [e \in Epoch |-> GroupSums(Owe, Payee, DoneIn(e), Provider)]

\* What the consumed receipts of an epoch amount to changes by pages only.
LEMMA DoneSumsKept ==
    ASSUME Orderly, [Next]_vars, NEW D \in SUBSET Identity,
           \A id \in D : head[id] # NoHead /\ head[id].settlement_epoch # 0
    PROVE  /\ GroupSums(Owe', Payee', D, Provider) = GroupSums(Owe, Payee, D, Provider)
           /\ SumFunctionOnSet(Owe', D) = SumFunctionOnSet(Owe, D)
  <1>1. /\ SameOn(Owe, Owe', D) /\ SameOn(Payee, Payee', D)
    BY OwesKept DEF Orderly
  <1>2. IsFiniteSet(D)
    BY FiniteIdentity, FS_Subset
  <1>3. GroupSums(Owe, Payee, D, Provider) = GroupSums(Owe', Payee', D, Provider)
    BY <1>1, <1>2, GroupSame
  <1>4. SumFunctionOnSet(Owe, D) = SumFunctionOnSet(Owe', D)
    BY <1>1, <1>2, SumSame
  <1> QED
    BY <1>3, <1>4

\* What a page adds to the sums over consumed receipts.
LEMMA PageAdds ==
    ASSUME Orderly, [Next]_vars, NEW e \in Epoch, NEW ids \in SUBSET Identity, NEW before,
           applyPage(e, ids, before), NEW D \in SUBSET Identity,
           \A id \in D : head[id] # NoHead /\ head[id].settlement_epoch # 0,
           D \cap ids = {}
    PROVE  /\ GroupSums(Owe', Payee', D \cup ids, Provider)
                = [p \in Provider |-> GroupSums(Owe, Payee, D, Provider)[p] + Earnings(ids)[p]]
           /\ SumFunctionOnSet(Owe', D \cup ids)
                = SumFunctionOnSet(Owe, D) + SumIncremental(ids)
           /\ ids \in SUBSET Headed
  <1>1. \A id \in ids : head[id] # NoHead /\ head[id].settlement_epoch # 0
    BY PageReady
  <1> PICK B : B = D \cup ids
    OBVIOUS
  <1>2. B \in SUBSET Identity /\ \A id \in B : head[id] # NoHead /\ head[id].settlement_epoch # 0
    BY <1>1
  <1>3. /\ GroupSums(Owe', Payee', B, Provider) = GroupSums(Owe, Payee, B, Provider)
        /\ SumFunctionOnSet(Owe', B) = SumFunctionOnSet(Owe, B)
    BY <1>2, DoneSumsKept
  <1>4. IsFiniteSet(D) /\ IsFiniteSet(ids)
    BY FiniteIdentity, FS_Subset
  <1>5. IntOn(Owe, D \cup ids) /\ ids \in SUBSET Headed
    BY <1>1, <1>2, Owes DEF IntOn, Headed, Orderly
  <1>6. SumFunctionOnSet(Owe, D \cup ids) = SumFunctionOnSet(Owe, D) + SumFunctionOnSet(Owe, ids)
    BY <1>4, <1>5, SumUnion
  <1>7. GroupSums(Owe, Payee, D \cup ids, Provider)
          = [p \in Provider |-> GroupSums(Owe, Payee, D, Provider)[p]
                                  + GroupSums(Owe, Payee, ids, Provider)[p]]
    BY <1>4, <1>5, GroupUnion
  <1>8. /\ SumIncremental(ids) = SumFunctionOnSet(Owe, ids)
        /\ Earnings(ids) = GroupSums(Owe, Payee, ids, Provider)
    BY <1>5, Owes DEF Orderly
  <1> QED
    BY <1>3, <1>5, <1>6, <1>7, <1>8

\* Every step keeps the gross in step with the consumed receipts.
LEMMA GrossStep == Orderly /\ Orderly' /\ GrossKept /\ [Next]_vars => GrossKept'
  <1> SUFFICES ASSUME Orderly, Orderly', GrossKept, [Next]_vars PROVE GrossKept'
    OBVIOUS
  <1>0. ASSUME NEW x \in Epoch
        PROVE  /\ DoneIn(x) \in SUBSET Identity
               /\ \A id \in DoneIn(x) : head[id] # NoHead /\ head[id].settlement_epoch # 0
    BY ReadySets
  <1>1. ASSUME NEW x \in Epoch, DoneIn(x)' = DoneIn(x)
        PROVE  GroupSums(Owe', Payee', DoneIn(x)', Provider)
                 = GroupSums(Owe, Payee, DoneIn(x), Provider)
    <2> PICK D : D = DoneIn(x)
      OBVIOUS
    <2>1. /\ D \in SUBSET Identity
          /\ \A id \in D : head[id] # NoHead /\ head[id].settlement_epoch # 0
      BY <1>0
    <2>2. GroupSums(Owe', Payee', D, Provider) = GroupSums(Owe, Payee, D, Provider)
      BY <2>1, DoneSumsKept
    <2> QED
      BY <1>1, <2>2
  <1>2. CASE ~SettlePage
    <2>1. gross' = gross
      BY <1>2, ConsumeFrame DEF Orderly, settled
    <2>2. \A x \in Epoch : DoneIn(x)' = DoneIn(x)
      BY <1>2, DoneKept DEF Orderly
    <2>3. \A x \in Epoch : GroupSums(Owe', Payee', DoneIn(x)', Provider)
                             = GroupSums(Owe, Payee, DoneIn(x), Provider)
      BY <1>1, <2>2
    <2> QED
      BY <2>1, <2>3 DEF GrossKept
  <1>3. CASE SettlePage
    <2> PICK e \in 1..MaxEpoch, ids \in SUBSET Identity :
           \E before : applyPage(e, ids, before) /\ StartsFrom(e, before)
      BY <1>3, PageStep DEF Orderly
    <2> PICK before : applyPage(e, ids, before) /\ StartsFrom(e, before)
      OBVIOUS
    <2>0. e \in Epoch
      BY LedgerAssumption DEF Epoch
    <2>1. /\ DoneIn(e)' = DoneIn(e) \cup ids /\ DoneIn(e) \cap ids = {}
          /\ \A x \in Epoch \ {e} : DoneIn(x)' = DoneIn(x)
      BY <2>0, PageConsumes DEF Orderly
    <2>2. gross' = [gross EXCEPT ![e] = [p \in Provider |-> @[p] + Earnings(ids)[p]]]
      BY DEF applyPage, MarkGross
    <2>3. GroupSums(Owe', Payee', DoneIn(e)', Provider)
            = [p \in Provider |-> GroupSums(Owe, Payee, DoneIn(e), Provider)[p] + Earnings(ids)[p]]
      <3> PICK D : D = DoneIn(e)
        OBVIOUS
      <3>1. /\ D \in SUBSET Identity /\ D \cap ids = {}
            /\ \A id \in D : head[id] # NoHead /\ head[id].settlement_epoch # 0
        BY <1>0, <2>0, <2>1
      <3>2. GroupSums(Owe', Payee', D \cup ids, Provider)
              = [p \in Provider |-> GroupSums(Owe, Payee, D, Provider)[p] + Earnings(ids)[p]]
        BY <2>0, <3>1, PageAdds
      <3> QED
        BY <2>1, <3>2
    <2>4. \A x \in Epoch \ {e} : GroupSums(Owe', Payee', DoneIn(x)', Provider)
                                   = GroupSums(Owe, Payee, DoneIn(x), Provider)
      BY <1>1, <2>1
    <2>5. \A x \in Epoch : gross'[x] = IF x = e
                           THEN [p \in Provider |-> gross[x][p] + Earnings(ids)[p]] ELSE gross[x]
      BY <2>0, <2>2 DEF GrossKept
    <2>6. \A x \in Epoch : gross'[x] = GroupSums(Owe', Payee', DoneIn(x)', Provider)
      BY <2>0, <2>3, <2>4, <2>5 DEF GrossKept
    <2>7. gross' = [x \in Epoch |-> gross'[x]]
      BY <2>2 DEF GrossKept
    <2> QED
      BY <2>6, <2>7 DEF GrossKept
  <1> QED
    BY <1>2, <1>3

\* So the gross of an epoch is made of amounts.
LEMMA GrossTyped ==
    ASSUME Orderly, GrossKept
    PROVE  gross \in [Epoch -> [Provider -> Int]]
  <1>1. ASSUME NEW e \in Epoch
        PROVE  GroupSums(Owe, Payee, DoneIn(e), Provider) \in [Provider -> Int]
    <2>1. DoneIn(e) \in SUBSET Headed
      BY ReadySets DEF Headed
    <2>2. IsFiniteSet(DoneIn(e)) /\ IntOn(Owe, DoneIn(e))
      BY <2>1, Owes DEF Orderly
    <2>3. IntOn(GroupSums(Owe, Payee, DoneIn(e), Provider), Provider)
      BY <2>2, GroupSumsInt
    <2> QED
      BY <2>3 DEF IntOn, GroupSums
  <1> QED
    BY <1>1 DEF GrossKept

\* The gross of every epoch is what its consumed receipts owe each provider.
LEMMA LedgerGross == Spec => []GrossKept
  <1>1. Init => GrossKept
    <2> SUFFICES ASSUME Init PROVE GrossKept
      OBVIOUS
    <2>1. \A e \in Epoch, p \in Provider : GroupOf(Payee, DoneIn(e), p) = {}
      BY DEF Init, DoneIn, GroupOf
    <2>2. \A e \in Epoch : GroupSums(Owe, Payee, DoneIn(e), Provider) = [p \in Provider |-> 0]
      BY <2>1, SumEmpty DEF GroupSums
    <2> QED
      BY <2>2 DEF Init, GrossKept
  <1>2. Orderly /\ Orderly' /\ GrossKept /\ [Next]_vars => GrossKept'
    BY GrossStep
  <1> QED
    BY <1>1, <1>2, LedgerOrderly, PTL DEF Spec

-----------------------------------------------------------------------------
(***************************************************************************)
(* Fee and burn of a page.                                                 *)
(***************************************************************************)
Fees(g) == [p \in Provider |-> FeeOf(g[p])]
Burns(g) == [p \in Provider |-> BurnOf(g[p])]

\* Fee and burn of an amount are amounts; of nothing they are nothing.
LEMMA FeeInt == /\ \A au \in Int : FeeOf(au) \in Int /\ BurnOf(au) \in Int
                /\ FeeOf(0) = 0 /\ BurnOf(0) = 0
  BY LedgerAssumption DEF FeeOf, BurnOf, TAP_BURN_BPS

\* Their sums over the providers, as the model writes them.
LEMMA FeesSummed ==
    \A g : /\ SumFunction([p \in Provider |-> FeeOf(g[p])]) = SumFunctionOnSet(Fees(g), Provider)
          /\ SumFunction([p \in Provider |-> BurnOf(g[p])]) = SumFunctionOnSet(Burns(g), Provider)
  <1> TAKE g
  <1>1. DOMAIN Fees(g) = Provider /\ DOMAIN Burns(g) = Provider
    BY DEF Fees, Burns
  <1>2. /\ SumFunction(Fees(g)) = SumFunctionOnSet(Fees(g), Provider)
        /\ SumFunction(Burns(g)) = SumFunctionOnSet(Burns(g), Provider)
    BY <1>1, SumWhole
  <1> QED
    BY <1>2 DEF Fees, Burns

\* With gross g and a page's earnings w, the new gross h and the shares of the page.
PageParts(g, w, h, fee, burn, net) ==
    LET d == [p \in Provider |-> providerSettlementPageDelta(g[p], w[p])]
    IN  /\ h = [p \in Provider |-> g[p] + w[p]]
        /\ fee = [p \in Provider |-> d[p].fee]
        /\ burn = [p \in Provider |-> d[p].burn]
        /\ net = [p \in Provider |-> d[p].provider]

\* What the pages of a provider pay in fee and burn adds up to the fee and burn of
\* its whole gross, and with the net share to the page's earnings.
LEMMA DeltaSums ==
    ASSUME NEW g, NEW w, NEW h, NEW fee, NEW burn, NEW net,
           IntOn(g, Provider), IntOn(w, Provider), PageParts(g, w, h, fee, burn, net)
    PROVE  /\ IntOn(fee, Provider) /\ IntOn(burn, Provider) /\ IntOn(net, Provider)
           /\ SumFunctionOnSet(Fees(h), Provider)
                = SumFunctionOnSet(Fees(g), Provider) + SumFunctionOnSet(fee, Provider)
           /\ SumFunctionOnSet(Burns(h), Provider)
                = SumFunctionOnSet(Burns(g), Provider) + SumFunctionOnSet(burn, Provider)
           /\ SumFunctionOnSet(w, Provider)
                = SumFunctionOnSet(net, Provider) + SumFunctionOnSet(fee, Provider)
                    + SumFunctionOnSet(burn, Provider)
           /\ \A p \in Provider : /\ FeeOf(h[p]) = FeeOf(g[p]) + fee[p]
                                  /\ BurnOf(h[p]) = BurnOf(g[p]) + burn[p]
                                  /\ w[p] = net[p] + fee[p] + burn[p]
  <1>0. IsFiniteSet(Provider)
    BY LedgerAssumption
  <1>1. ASSUME NEW p \in Provider
        PROVE  /\ fee[p] = FeeOf(h[p]) - FeeOf(g[p]) /\ burn[p] = BurnOf(h[p]) - BurnOf(g[p])
               /\ net[p] = w[p] - fee[p] - burn[p]
               /\ FeeOf(h[p]) \in Int /\ FeeOf(g[p]) \in Int
               /\ BurnOf(h[p]) \in Int /\ BurnOf(g[p]) \in Int /\ w[p] \in Int
    <2> PICK d : d = providerSettlementPageDelta(g[p], w[p])
      OBVIOUS
    <2>1. h[p] = g[p] + w[p] /\ g[p] \in Int /\ w[p] \in Int
      BY DEF IntOn, PageParts
    <2>3. /\ d.fee = FeeOf(h[p]) - FeeOf(g[p]) /\ d.burn = BurnOf(h[p]) - BurnOf(g[p])
          /\ d.provider = w[p] - d.fee - d.burn
      BY <2>1 DEF providerSettlementPageDelta
    <2>4. fee[p] = d.fee /\ burn[p] = d.burn /\ net[p] = d.provider
      BY DEF PageParts
    <2> QED
      BY <2>1, <2>3, <2>4, FeeInt
  <1>2. ASSUME NEW p \in Provider
        PROVE  /\ fee[p] \in Int /\ burn[p] \in Int /\ net[p] \in Int
               /\ FeeOf(h[p]) = FeeOf(g[p]) + fee[p] /\ BurnOf(h[p]) = BurnOf(g[p]) + burn[p]
               /\ w[p] = net[p] + fee[p] + burn[p]
    BY <1>1
  <1> PICK x : x = [p \in Provider |-> net[p] + fee[p]]
    OBVIOUS
  <1>3. /\ IntOn(fee, Provider) /\ IntOn(burn, Provider) /\ IntOn(net, Provider)
        /\ IntOn(Fees(g), Provider) /\ IntOn(Burns(g), Provider) /\ IntOn(x, Provider)
    BY <1>1, <1>2 DEF IntOn, Fees, Burns
  <1>4. /\ AddsOn(Fees(g), fee, Fees(h), Provider) /\ AddsOn(Burns(g), burn, Burns(h), Provider)
    BY <1>2 DEF AddsOn, Fees, Burns
  <1>5. AddsOn(net, fee, x, Provider) /\ AddsOn(x, burn, w, Provider)
    BY <1>2 DEF AddsOn
  <1>6. /\ SumFunctionOnSet(Fees(h), Provider)
             = SumFunctionOnSet(Fees(g), Provider) + SumFunctionOnSet(fee, Provider)
        /\ SumFunctionOnSet(Burns(h), Provider)
             = SumFunctionOnSet(Burns(g), Provider) + SumFunctionOnSet(burn, Provider)
    BY <1>0, <1>3, <1>4, SumAdd
  <1>7. /\ SumFunctionOnSet(x, Provider)
             = SumFunctionOnSet(net, Provider) + SumFunctionOnSet(fee, Provider)
        /\ SumFunctionOnSet(w, Provider)
             = SumFunctionOnSet(x, Provider) + SumFunctionOnSet(burn, Provider)
    BY <1>0, <1>3, <1>5, SumAdd
  <1> QED
    BY <1>2, <1>3, <1>6, <1>7

\* The amounts of a page: each provider's net, and all fee and burn.
PageNet(e, ids) == [p \in Provider |-> Deltas(e, Earnings(ids))[p].provider]
PageFee(e, ids) == SumFunction([p \in Provider |-> Deltas(e, Earnings(ids))[p].fee])
PageBurn(e, ids) == SumFunction([p \in Provider |-> Deltas(e, Earnings(ids))[p].burn])

\* What a page does to the books.
LEMMA PageBooks ==
    ASSUME NEW e, NEW ids, NEW before, applyPage(e, ids, before)
    PROVE  /\ earned' = [p \in Provider |-> earned[p] + PageNet(e, ids)[p]]
           /\ feeCum' = feeCum + PageFee(e, ids) /\ burnCum' = burnCum + PageBurn(e, ids)
           /\ gross' = [gross EXCEPT ![e] = [p \in Provider |-> @[p] + Earnings(ids)[p]]]
           /\ Accumulated(before, e, ids, Deltas(e, Earnings(ids)))
                = [epoch |-> e, count |-> before.count + Cardinality(ids),
                   debit |-> before.debit + SumIncremental(ids),
                   fee |-> before.fee + PageFee(e, ids), burn |-> before.burn + PageBurn(e, ids),
                   commit |-> before.commit]
  BY DEF applyPage, MarkGross, Accumulated, PageNet, PageFee, PageBurn

\* The page's amounts in terms of the gross of its epoch.
LEMMA PageAmounts ==
    ASSUME Orderly, GrossKept, NEW e \in Epoch, NEW ids \in SUBSET Identity, NEW before,
           applyPage(e, ids, before)
    PROVE  /\ Earnings(ids) \in [Provider -> Int] /\ SumIncremental(ids) \in Int
           /\ PageFee(e, ids) \in Int /\ PageBurn(e, ids) \in Int
           /\ PageNet(e, ids) \in [Provider -> Int]
           /\ gross'[e] = [p \in Provider |-> gross[e][p] + Earnings(ids)[p]]
           /\ \A x \in Epoch \ {e} : gross'[x] = gross[x]
           /\ DOMAIN gross' = Epoch
           /\ SumFunctionOnSet(Fees(gross'[e]), Provider)
                = SumFunctionOnSet(Fees(gross[e]), Provider) + PageFee(e, ids)
           /\ SumFunctionOnSet(Burns(gross'[e]), Provider)
                = SumFunctionOnSet(Burns(gross[e]), Provider) + PageBurn(e, ids)
           /\ SumIncremental(ids)
                = SumFunctionOnSet(PageNet(e, ids), Provider) + PageFee(e, ids) + PageBurn(e, ids)
           /\ \A p \in Provider :
                 gross'[e][p] - FeeOf(gross'[e][p]) - BurnOf(gross'[e][p])
                   = (gross[e][p] - FeeOf(gross[e][p]) - BurnOf(gross[e][p])) + PageNet(e, ids)[p]
  <1>0. gross \in [Epoch -> [Provider -> Int]] /\ IsFiniteSet(Provider)
    BY GrossTyped, LedgerAssumption
  <1>1. ids \in SUBSET Headed
    BY PageReady DEF Headed
  <1>2. /\ IsFiniteSet(ids) /\ IntOn(Owe, ids) /\ KeysOn(Payee, ids, Provider)
        /\ SumIncremental(ids) = SumFunctionOnSet(Owe, ids)
        /\ Earnings(ids) = GroupSums(Owe, Payee, ids, Provider)
    BY <1>1, Owes DEF Orderly
  <1> PICK w : w = Earnings(ids)
    OBVIOUS
  <1>3. w \in [Provider -> Int]
    <2>1. IntOn(GroupSums(Owe, Payee, ids, Provider), Provider)
      BY <1>2, GroupSumsInt
    <2> QED
      BY <1>2, <2>1 DEF IntOn, GroupSums
  <1>4. SumFunctionOnSet(w, Provider) = SumIncremental(ids) /\ SumIncremental(ids) \in Int
    <2>1. SumFunctionOnSet(w, Provider) = SumFunctionOnSet(Owe, ids)
      BY <1>0, <1>2, SumByGroup
    <2>2. SumFunctionOnSet(Owe, ids) \in Int
      BY <1>2, SumInt
    <2> QED
      BY <1>2, <2>1, <2>2
  <1> PICK g : g = gross[e]
    OBVIOUS
  <1> PICK d : d = Deltas(e, Earnings(ids))
    OBVIOUS
  <1> PICK h : h = [p \in Provider |-> g[p] + w[p]]
    OBVIOUS
  <1> PICK fee : fee = [p \in Provider |-> d[p].fee]
    OBVIOUS
  <1> PICK burn : burn = [p \in Provider |-> d[p].burn]
    OBVIOUS
  <1> PICK net : net = [p \in Provider |-> d[p].provider]
    OBVIOUS
  <1>5. g \in [Provider -> Int] /\ IntOn(g, Provider) /\ IntOn(w, Provider)
    BY <1>0, <1>3 DEF IntOn
  <1>5a. PageParts(g, w, h, fee, burn, net)
    BY DEF Deltas, PageParts
  <1>6. /\ IntOn(fee, Provider) /\ IntOn(burn, Provider) /\ IntOn(net, Provider)
        /\ SumFunctionOnSet(Fees(h), Provider)
             = SumFunctionOnSet(Fees(g), Provider) + SumFunctionOnSet(fee, Provider)
        /\ SumFunctionOnSet(Burns(h), Provider)
             = SumFunctionOnSet(Burns(g), Provider) + SumFunctionOnSet(burn, Provider)
        /\ SumFunctionOnSet(w, Provider)
             = SumFunctionOnSet(net, Provider) + SumFunctionOnSet(fee, Provider)
                 + SumFunctionOnSet(burn, Provider)
        /\ \A p \in Provider : /\ FeeOf(h[p]) = FeeOf(g[p]) + fee[p]
                               /\ BurnOf(h[p]) = BurnOf(g[p]) + burn[p]
                               /\ w[p] = net[p] + fee[p] + burn[p]
    BY <1>5, <1>5a, DeltaSums
  <1>7. /\ PageFee(e, ids) = SumFunctionOnSet(fee, Provider)
        /\ PageBurn(e, ids) = SumFunctionOnSet(burn, Provider)
        /\ PageNet(e, ids) = net
    <2>1. PageFee(e, ids) = SumFunction(fee) /\ DOMAIN fee = Provider
      BY DEF PageFee
    <2>2. PageBurn(e, ids) = SumFunction(burn) /\ DOMAIN burn = Provider
      BY DEF PageBurn
    <2>3. PageNet(e, ids) = net
      BY DEF PageNet
    <2> QED
      BY <2>1, <2>2, <2>3, SumWhole
  <1>8. /\ SumFunctionOnSet(fee, Provider) \in Int /\ SumFunctionOnSet(burn, Provider) \in Int
    BY <1>0, <1>6, SumInt
  <1>9. gross'[e] = h /\ (\A x \in Epoch \ {e} : gross'[x] = gross[x]) /\ DOMAIN gross' = Epoch
    <2>1. gross' = [gross EXCEPT ![e] = [p \in Provider |-> @[p] + Earnings(ids)[p]]]
      BY PageBooks
    <2> QED
      BY <1>0, <2>1
  <1>10. net \in [Provider -> Int]
    BY <1>6 DEF IntOn
  <1>11. ASSUME NEW p \in Provider
         PROVE  h[p] - FeeOf(h[p]) - BurnOf(h[p]) = (g[p] - FeeOf(g[p]) - BurnOf(g[p])) + net[p]
    <2>1. /\ h[p] = g[p] + w[p] /\ g[p] \in Int /\ w[p] \in Int /\ net[p] \in Int
          /\ fee[p] \in Int /\ burn[p] \in Int
      BY <1>3, <1>5, <1>6 DEF IntOn
    <2>2. FeeOf(g[p]) \in Int /\ BurnOf(g[p]) \in Int
      BY <2>1, FeeInt
    <2>3. /\ FeeOf(h[p]) = FeeOf(g[p]) + fee[p] /\ BurnOf(h[p]) = BurnOf(g[p]) + burn[p]
          /\ w[p] = net[p] + fee[p] + burn[p]
      BY <1>6
    <2> QED
      BY <2>1, <2>2, <2>3
  <1> QED
    BY <1>3, <1>4, <1>6, <1>7, <1>8, <1>9, <1>10, <1>11

-----------------------------------------------------------------------------
(***************************************************************************)
(* The commit of a pending epoch.                                          *)
(***************************************************************************)
\* The commit in terms of what the receipts owe.
LEMMA CommitIs ==
    ASSUME Orderly, NEW e \in Epoch
    PROVE  /\ EpochCommit(e)
                = [count |-> Len(index[e]), use |-> SumFunctionOnSet(Owe, Indexed(e)),
                   fee |-> SumFunctionOnSet(Fees(GroupSums(Owe, Payee, Indexed(e), Provider)),
                                            Provider),
                   burn |-> SumFunctionOnSet(Burns(GroupSums(Owe, Payee, Indexed(e), Provider)),
                                             Provider)]
           /\ EpochCommit(e) \in Commits
  <1>1. Indexed(e) \in SUBSET Headed
    BY ReadySets DEF Headed
  <1>2. /\ IsFiniteSet(Indexed(e)) /\ IntOn(Owe, Indexed(e))
        /\ SumIncremental(Indexed(e)) = SumFunctionOnSet(Owe, Indexed(e))
        /\ Earnings(Indexed(e)) = GroupSums(Owe, Payee, Indexed(e), Provider)
    BY <1>1, Owes DEF Orderly
  <1> PICK w : w = Earnings(Indexed(e))
    OBVIOUS
  <1>3. /\ EpochCommit(e).count = Len(index[e])
        /\ EpochCommit(e) = [count |-> Len(index[e]), use |-> SumIncremental(Indexed(e)),
                             fee |-> SumFunction(Fees(w)), burn |-> SumFunction(Burns(w))]
    BY DEF EpochCommit, Fees, Burns
  <1>4. /\ SumFunction(Fees(w)) = SumFunctionOnSet(Fees(w), Provider)
        /\ SumFunction(Burns(w)) = SumFunctionOnSet(Burns(w), Provider)
    <2>1. DOMAIN Fees(w) = Provider /\ DOMAIN Burns(w) = Provider
      BY DEF Fees, Burns
    <2> QED
      BY <2>1, SumWhole
  <1>5. IntOn(Fees(w), Provider) /\ IntOn(Burns(w), Provider)
    <2>1. IntOn(GroupSums(Owe, Payee, Indexed(e), Provider), Provider)
      BY <1>2, GroupSumsInt
    <2>2. IntOn(w, Provider)
      BY <1>2, <2>1
    <2> QED
      BY <2>2, FeeInt DEF IntOn, Fees, Burns
  <1>6. /\ SumFunctionOnSet(Fees(w), Provider) \in Int /\ SumFunctionOnSet(Burns(w), Provider) \in Int
        /\ SumFunctionOnSet(Owe, Indexed(e)) \in Int
    BY <1>2, <1>5, SumInt, LedgerAssumption
  <1>7. Len(index[e]) \in Nat
    BY DEF Orderly, Typed, EpochsTypeOK
  <1>8. EpochCommit(e) \in Commits
    BY <1>2, <1>3, <1>4, <1>6, <1>7 DEF Commits
  <1> QED
    BY <1>2, <1>3, <1>4, <1>8

\* No step changes the commit that an epoch under settlement determines.
LEMMA CommitKept ==
    ASSUME Orderly, [Next]_vars, NEW e \in Epoch, e <= base
    PROVE  EpochCommit(e)' = EpochCommit(e)
  <1>1. index'[e] = index[e] /\ Indexed(e)' = Indexed(e)
    BY BatchKept DEF Orderly, Indexed
  <1> PICK I : I = Indexed(e)
    OBVIOUS
  <1>2. I \in SUBSET Identity /\ \A id \in I : head[id] # NoHead /\ head[id].settlement_epoch # 0
    BY ReadySets
  <1>3. /\ SameOn(Owe, Owe', I) /\ SameOn(Payee, Payee', I)
    BY <1>2, OwesKept DEF Orderly
  <1>4. \A id \in I : head'[id] = head[id]
    BY <1>2, ReadyKept DEF Orderly
  <1>5. \A id \in I : HeadProvider(id)' = HeadProvider(id)
    BY <1>2, <1>3 DEF SameOn, Payee
  <1>6. ASSUME NEW S \in SUBSET I
        PROVE  SumFunction([id \in S |-> head'[id].incremental])
                 = SumFunction([id \in S |-> head[id].incremental])
    <2>1. [id \in S |-> head'[id].incremental] = [id \in S |-> head[id].incremental]
      BY <1>4
    <2> QED
      BY <2>1
  <1>7. SumIncremental(Indexed(e))' = SumIncremental(Indexed(e))
    <2>1. SumIncremental(Indexed(e))' = SumFunction([id \in I |-> head'[id].incremental])
      BY <1>1 DEF SumIncremental
    <2>2. SumIncremental(Indexed(e)) = SumFunction([id \in I |-> head[id].incremental])
      BY DEF SumIncremental
    <2> QED
      BY <1>6, <2>1, <2>2
  <1>8. Earnings(Indexed(e))' = Earnings(Indexed(e))
    <2>1. ASSUME NEW p \in Provider
          PROVE  Earnings(Indexed(e))'[p] = Earnings(Indexed(e))[p]
      <3> PICK S : S = {id \in I : HeadProvider(id) = p}
        OBVIOUS
      <3>1. S = {id \in I : HeadProvider(id)' = p} /\ S \in SUBSET I
        BY <1>5
      <3>2. Earnings(Indexed(e))'[p] = SumFunction([id \in S |-> head'[id].incremental])
        BY <1>1, <3>1 DEF Earnings, SumIncremental
      <3>3. Earnings(Indexed(e))[p] = SumFunction([id \in S |-> head[id].incremental])
        BY DEF Earnings, SumIncremental
      <3> QED
        BY <1>6, <3>1, <3>2, <3>3
    <2>2. /\ Earnings(Indexed(e))' = [p \in Provider |-> Earnings(Indexed(e))'[p]]
          /\ Earnings(Indexed(e)) = [p \in Provider |-> Earnings(Indexed(e))[p]]
      BY DEF Earnings
    <2> QED
      BY <2>1, <2>2
  <1> QED
    BY <1>1, <1>7, <1>8 DEF EpochCommit

\* The pending state and the epoch it settles, as far as pages have been applied.
Booked(x, e) ==
    /\ x \in Pendings /\ x.commit = EpochCommit(e)
    /\ x.debit = SumFunctionOnSet(Owe, DoneIn(e))
    /\ x.fee = SumFunctionOnSet(Fees(gross[e]), Provider)
    /\ x.burn = SumFunctionOnSet(Burns(gross[e]), Provider)

BooksKept == pending # NoPending => Booked(pending, pending.epoch)

\* A page starts from a booked state: the first one from nothing.
LEMMA BeforeBooked ==
    ASSUME Orderly, GrossKept, BooksKept, NEW e \in Epoch, NEW before, StartsFrom(e, before)
    PROVE  Booked(before, e)
  <1>1. CASE pending # NoPending
    BY <1>1 DEF StartsFrom, BooksKept
  <1>2. CASE pending = NoPending
    <2>1. e > base
      BY <1>2, EpochNumbers DEF StartsFrom, base, Orderly, Typed, EpochsTypeOK
    <2>2. DoneIn(e) = {}
      BY <2>1, NothingDone DEF Orderly
    <2>3. SumFunctionOnSet(Owe, DoneIn(e)) = 0
      BY <2>2, SumEmpty
    <2>4. \A p \in Provider : gross[e][p] = 0
      <3>1. \A p \in Provider : GroupOf(Payee, {}, p) = {}
        BY DEF GroupOf
      <3>2. gross[e] = GroupSums(Owe, Payee, {}, Provider)
        BY <2>2 DEF GrossKept
      <3> QED
        BY <3>1, <3>2, SumEmpty DEF GroupSums
    <2>5. ZeroOn(Fees(gross[e]), Provider) /\ ZeroOn(Burns(gross[e]), Provider)
      BY <2>4, FeeInt DEF ZeroOn, Fees, Burns
    <2>6. /\ SumFunctionOnSet(Fees(gross[e]), Provider) = 0
          /\ SumFunctionOnSet(Burns(gross[e]), Provider) = 0
      BY <2>5, SumZero, LedgerAssumption
    <2>7. EpochCommit(e) \in Commits
      BY CommitIs
    <2>8. e \in Nat \ {0}
      BY LedgerAssumption DEF Epoch
    <2>9. before = FirstPage(e)
      BY <1>2 DEF StartsFrom
    <2>10. FirstPage(e) \in Pendings
      BY <2>7, <2>8 DEF FirstPage, Pendings
    <2> QED
      BY <2>3, <2>6, <2>9, <2>10 DEF Booked, FirstPage
  <1> QED
    BY <1>1, <1>2

\* Every step keeps the books of the pending epoch.
LEMMA BooksStep ==
    Orderly /\ Orderly' /\ GrossKept /\ BooksKept /\ [Next]_vars => BooksKept'
  <1> SUFFICES ASSUME Orderly, Orderly', GrossKept, BooksKept, [Next]_vars, pending' # NoPending
               PROVE  Booked(pending, pending.epoch)'
    BY DEF BooksKept
  <1>0. ASSUME NEW x \in Epoch
        PROVE  /\ DoneIn(x) \in SUBSET Identity
               /\ \A id \in DoneIn(x) : head[id] # NoHead /\ head[id].settlement_epoch # 0
    BY ReadySets
  <1>1. CASE ~SettlePage
    <2>1. UNCHANGED <<pending, gross>>
      BY <1>1, EpochsMove, EpochFrame, ConsumeFrame DEF Orderly, settled
    <2> PICK e : e = pending.epoch
      OBVIOUS
    <2>2. e \in Epoch /\ e <= base
      BY <2>1, EpochNumbers, LedgerAssumption, SMTT(30) DEF base, Orderly, Typed, EpochsTypeOK, Epoch
    <2>3. EpochCommit(e)' = EpochCommit(e)
      BY <2>2, CommitKept
    <2>4. SumFunctionOnSet(Owe', DoneIn(e)') = SumFunctionOnSet(Owe, DoneIn(e))
      <3> PICK D : D = DoneIn(e)
        OBVIOUS
      <3>1. DoneIn(e)' = D
        BY <1>1, <2>2, DoneKept DEF Orderly
      <3>2. /\ D \in SUBSET Identity
            /\ \A id \in D : head[id] # NoHead /\ head[id].settlement_epoch # 0
        BY <1>0, <2>2
      <3>3. SumFunctionOnSet(Owe', D) = SumFunctionOnSet(Owe, D)
        BY <3>2, DoneSumsKept
      <3> QED
        BY <3>1, <3>3
    <2>5. Booked(pending, e)
      BY <2>1 DEF BooksKept
    <2>6. pending' = pending /\ gross' = gross /\ pending.epoch' = e
      BY <2>1
    <2> QED
      BY <2>3, <2>4, <2>5, <2>6 DEF Booked
  <1>2. CASE SettlePage
    <2> PICK e \in 1..MaxEpoch, ids \in SUBSET Identity :
           \E before : applyPage(e, ids, before) /\ StartsFrom(e, before)
      BY <1>2, PageStep DEF Orderly
    <2> PICK before : applyPage(e, ids, before) /\ StartsFrom(e, before)
      OBVIOUS
    <2>0. e \in Epoch /\ e \in Nat \ {0}
      BY LedgerAssumption DEF Epoch
    <2>1. Booked(before, e)
      BY <2>0, BeforeBooked
    <2> PICK done : done = [epoch |-> e, count |-> before.count + Cardinality(ids),
                   debit |-> before.debit + SumIncremental(ids),
                   fee |-> before.fee + PageFee(e, ids), burn |-> before.burn + PageBurn(e, ids),
                   commit |-> before.commit]
      OBVIOUS
    <2>2. pending' = done
      <3>1. Leads(e, done)
        BY PageLeads, PageBooks
      <3> QED
        BY <3>1 DEF Leads
    <2>3. /\ SumIncremental(ids) \in Int /\ PageFee(e, ids) \in Int /\ PageBurn(e, ids) \in Int
          /\ SumFunctionOnSet(Fees(gross'[e]), Provider)
               = SumFunctionOnSet(Fees(gross[e]), Provider) + PageFee(e, ids)
          /\ SumFunctionOnSet(Burns(gross'[e]), Provider)
               = SumFunctionOnSet(Burns(gross[e]), Provider) + PageBurn(e, ids)
      BY <2>0, PageAmounts
    <2>4. SumFunctionOnSet(Owe', DoneIn(e)') = SumFunctionOnSet(Owe, DoneIn(e)) + SumIncremental(ids)
      <3> PICK D : D = DoneIn(e)
        OBVIOUS
      <3>1. DoneIn(e)' = D \cup ids /\ D \cap ids = {}
        BY <2>0, PageConsumes DEF Orderly
      <3>2. /\ D \in SUBSET Identity
            /\ \A id \in D : head[id] # NoHead /\ head[id].settlement_epoch # 0
        BY <1>0, <2>0
      <3>3. SumFunctionOnSet(Owe', D \cup ids) = SumFunctionOnSet(Owe, D) + SumIncremental(ids)
        BY <2>0, <3>1, <3>2, PageAdds
      <3> QED
        BY <3>1, <3>3
    <2>5. EpochCommit(e)' = EpochCommit(e)
      <3>1. UNCHANGED <<head, index, reservation>>
        BY <2>0, PageConsumes DEF Orderly
      <3> QED
        BY <3>1 DEF EpochCommit, Earnings, SumIncremental, Indexed, HeadProvider
    <2>6. Cardinality(ids) \in Nat
      BY FiniteIdentity, FS_Subset, FS_CardinalityType
    <2>7. done \in Pendings /\ done.epoch = e /\ done.commit = before.commit
      BY <2>0, <2>1, <2>3, <2>6 DEF Booked, Pendings
    <2>8. /\ done.debit = before.debit + SumIncremental(ids)
          /\ done.fee = before.fee + PageFee(e, ids) /\ done.burn = before.burn + PageBurn(e, ids)
      OBVIOUS
    <2>9. /\ done.debit = SumFunctionOnSet(Owe', DoneIn(e)')
          /\ done.fee = SumFunctionOnSet(Fees(gross'[e]), Provider)
          /\ done.burn = SumFunctionOnSet(Burns(gross'[e]), Provider)
          /\ done.commit = EpochCommit(e)'
      BY <2>1, <2>3, <2>4, <2>5, <2>7, <2>8 DEF Booked
    <2>10. pending.epoch' = e /\ pending' \in Pendings
      BY <2>2, <2>7
    <2> QED
      BY <2>2, <2>9, <2>10 DEF Booked
  <1> QED
    BY <1>1, <1>2

\* The pending state keeps the books of its epoch.
LEMMA LedgerBooks == Spec => [](Orderly /\ GrossKept /\ BooksKept)
  <1>1. Init => BooksKept
    BY DEF Init, BooksKept
  <1>2. Orderly /\ Orderly' /\ GrossKept /\ BooksKept /\ [Next]_vars => BooksKept'
    BY BooksStep
  <1> QED
    BY <1>1, <1>2, LedgerOrderly, LedgerGross, PTL DEF Spec

\* Page zero can always be followed through: the receipts not yet consumed carry
\* exactly what the commit's totals still miss.
THEOREM CommitsReachable == Spec => []CommitReachable
  <1>1. Orderly /\ GrossKept /\ BooksKept => CommitReachable
    <2> SUFFICES ASSUME Orderly, GrossKept, BooksKept, pending # NoPending PROVE CommitReachable
      BY DEF CommitReachable
    <2> PICK e : e = pending.epoch
      OBVIOUS
    <2>0. e \in Epoch
      BY LedgerAssumption DEF Orderly, Typed, EpochsTypeOK, Epoch
    <2> PICK I, D, R : /\ I = Indexed(e) /\ D = DoneIn(e)
                       /\ R = {id \in Indexed(e) : id \notin consumed}
      OBVIOUS
    <2>1. D \cup R = I /\ D \cap R = {}
      BY DEF DoneIn
    <2>2. I \in SUBSET Headed /\ D \in SUBSET Headed /\ R \in SUBSET Headed
      BY <2>0, <2>1, ReadySets DEF Headed
    <2>3. /\ IsFiniteSet(D) /\ IsFiniteSet(R) /\ IntOn(Owe, D \cup R) /\ IntOn(Owe, D) /\ IntOn(Owe, R)
          /\ SumIncremental(R) = SumFunctionOnSet(Owe, R)
          /\ Earnings(R) = GroupSums(Owe, Payee, R, Provider)
      BY <2>1, <2>2, Owes DEF Orderly
    <2>4. Booked(pending, e)
      BY DEF BooksKept
    <2>5. pending.count + Cardinality(R) = pending.commit.count
      <3>1. Cardinality(I) = Len(index[e])
        BY <2>0, IndexSize DEF Orderly
      <3>2. Cardinality(D \cup R) = Cardinality(D) + Cardinality(R) - Cardinality(D \cap R)
        BY <2>3, FS_Union
      <3>3. Cardinality(D \cap R) = 0
        BY <2>1, FS_EmptySet
      <3>4. pending.count = Cardinality(D) /\ pending.commit.count = Len(index[e])
        BY DEF Orderly, Counted
      <3>5. Cardinality(D) \in Nat /\ Cardinality(R) \in Nat
        BY <2>3, FS_CardinalityType
      <3>6. Cardinality(D \cup R) = Cardinality(I)
        BY <2>1, Zenon
      <3> QED
        BY <3>1, <3>2, <3>3, <3>4, <3>5, <3>6
    <2>6. pending.debit + SumIncremental(R) = pending.commit.use
      <3>1. SumFunctionOnSet(Owe, D \cup R) = SumFunctionOnSet(Owe, D) + SumFunctionOnSet(Owe, R)
        BY <2>1, <2>3, SumUnion
      <3>2. EpochCommit(e).use = SumFunctionOnSet(Owe, I)
        BY <2>0, CommitIs
      <3> QED
        BY <2>1, <2>3, <2>4, <3>1, <3>2 DEF Booked
    <2> PICK w : w = [p \in Provider |-> gross[e][p] + Earnings(R)[p]]
      OBVIOUS
    <2>7. GroupSums(Owe, Payee, I, Provider) = w
      <3>1. GroupSums(Owe, Payee, D \cup R, Provider)
              = [p \in Provider |-> GroupSums(Owe, Payee, D, Provider)[p]
                                      + GroupSums(Owe, Payee, R, Provider)[p]]
        BY <2>1, <2>3, GroupUnion
      <3>2. gross[e] = GroupSums(Owe, Payee, D, Provider)
        BY <2>0 DEF GrossKept
      <3> QED
        BY <2>1, <2>3, <3>1, <3>2
    <2>9. /\ pending.commit.fee = SumFunctionOnSet(Fees(w), Provider)
          /\ pending.commit.burn = SumFunctionOnSet(Burns(w), Provider)
      <3>1. /\ EpochCommit(e).fee = SumFunctionOnSet(Fees(GroupSums(Owe, Payee, I, Provider)), Provider)
            /\ EpochCommit(e).burn = SumFunctionOnSet(Burns(GroupSums(Owe, Payee, I, Provider)), Provider)
        BY <2>0, CommitIs
      <3> QED
        BY <2>4, <2>7, <3>1 DEF Booked
    <2>10. /\ pending.fee = SumFunctionOnSet(Fees(gross[e]), Provider)
           /\ pending.burn = SumFunctionOnSet(Burns(gross[e]), Provider)
      BY <2>4 DEF Booked
    <2> QED
      BY <2>5, <2>6, <2>9, <2>10, FeesSummed DEF CommitReachable
  <1> QED
    BY <1>1, LedgerBooks, PTL

-----------------------------------------------------------------------------
\* Earnings, fee and burn are amounts.
TotalsTyped == earned \in [Provider -> Int] /\ feeCum \in Int /\ burnCum \in Int

\* Every record of the ledger is well typed, the settlement's included.
THEOREM LedgerTypeOK == Spec => []TypeOK
  <1>1. Init => TotalsTyped
    BY DEF Init, TotalsTyped
  <1>2. Orderly /\ GrossKept /\ TotalsTyped /\ [Next]_vars => TotalsTyped'
    <2> SUFFICES ASSUME Orderly, GrossKept, TotalsTyped, [Next]_vars PROVE TotalsTyped'
      OBVIOUS
    <2>1. CASE ~SettlePage
      BY <2>1, ConsumeFrame DEF Orderly, settled, TotalsTyped
    <2>2. CASE SettlePage
      <3> PICK e \in 1..MaxEpoch, ids \in SUBSET Identity :
             \E before : applyPage(e, ids, before)
        BY <2>2, PageStep DEF Orderly
      <3> PICK before : applyPage(e, ids, before)
        OBVIOUS
      <3>0. e \in Epoch
        BY LedgerAssumption DEF Epoch
      <3>1. /\ PageFee(e, ids) \in Int /\ PageBurn(e, ids) \in Int
            /\ PageNet(e, ids) \in [Provider -> Int]
        BY <3>0, PageAmounts
      <3>2. /\ earned' = [p \in Provider |-> earned[p] + PageNet(e, ids)[p]]
            /\ feeCum' = feeCum + PageFee(e, ids) /\ burnCum' = burnCum + PageBurn(e, ids)
        BY PageBooks
      <3> QED
        BY <3>1, <3>2 DEF TotalsTyped
    <2> QED
      BY <2>1, <2>2
  <1>3. Orderly /\ GrossKept /\ BooksKept /\ TotalsTyped => TypeOK
    <2> SUFFICES ASSUME Orderly, GrossKept, BooksKept, TotalsTyped PROVE TypeOK
      OBVIOUS
    <2>1. gross \in [Epoch -> [Provider -> Int]]
      BY GrossTyped
    <2>2. pending \in Pendings \cup {NoPending}
      BY DEF BooksKept, Booked
    <2> QED
      BY <2>1, <2>2 DEF TypeOK, Orderly, Typed, SettledTypeOK, TotalsTyped
  <1> QED
    BY <1>1, <1>2, <1>3, LedgerBooks, PTL DEF Spec

-----------------------------------------------------------------------------
(***************************************************************************)
(* Paging is neutral.                                                      *)
(***************************************************************************)
NetsOf(p) == [e \in Epoch |-> gross[e][p] - FeeOf(gross[e][p]) - BurnOf(gross[e][p])]
FeesBy == [e \in Epoch |-> SumFunctionOnSet(Fees(gross[e]), Provider)]
BurnsBy == [e \in Epoch |-> SumFunctionOnSet(Burns(gross[e]), Provider)]

Shares ==
    /\ \A p \in Provider : earned[p] = SumFunctionOnSet(NetsOf(p), Epoch)
    /\ feeCum = SumFunctionOnSet(FeesBy, Epoch) /\ burnCum = SumFunctionOnSet(BurnsBy, Epoch)

\* These functions hold amounts.
LEMMA SharesInt ==
    ASSUME NEW G \in [Epoch -> [Provider -> Int]]
    PROVE  /\ \A p \in Provider :
                 IntOn([e \in Epoch |-> G[e][p] - FeeOf(G[e][p]) - BurnOf(G[e][p])], Epoch)
           /\ IntOn([e \in Epoch |-> SumFunctionOnSet(Fees(G[e]), Provider)], Epoch)
           /\ IntOn([e \in Epoch |-> SumFunctionOnSet(Burns(G[e]), Provider)], Epoch)
  <1>1. ASSUME NEW e \in Epoch, NEW p \in Provider
        PROVE  G[e][p] \in Int /\ FeeOf(G[e][p]) \in Int /\ BurnOf(G[e][p]) \in Int
    BY FeeInt
  <1>2. ASSUME NEW e \in Epoch
        PROVE  /\ SumFunctionOnSet(Fees(G[e]), Provider) \in Int
               /\ SumFunctionOnSet(Burns(G[e]), Provider) \in Int
    <2>1. IntOn(Fees(G[e]), Provider) /\ IntOn(Burns(G[e]), Provider)
      BY <1>1 DEF IntOn, Fees, Burns
    <2> QED
      BY <2>1, SumInt, LedgerAssumption
  <1> QED
    BY <1>1, <1>2 DEF IntOn

\* Every step keeps the shares: a page raises the gross of one epoch, and each share
\* by the difference that makes.
LEMMA SharesStep ==
    Orderly /\ GrossKept /\ TypeOK /\ TypeOK' /\ Shares /\ [Next]_vars => Shares'
  <1> SUFFICES ASSUME Orderly, GrossKept, TypeOK, TypeOK', Shares, [Next]_vars PROVE Shares'
    OBVIOUS
  <1>1. CASE ~SettlePage
    <2>1. UNCHANGED <<gross, earned, feeCum, burnCum>>
      BY <1>1, ConsumeFrame DEF Orderly, settled
    <2> QED
      BY <2>1 DEF Shares, NetsOf, FeesBy, BurnsBy
  <1>2. CASE SettlePage
    <2> PICK e \in 1..MaxEpoch, ids \in SUBSET Identity :
           \E before : applyPage(e, ids, before)
      BY <1>2, PageStep DEF Orderly
    <2> PICK before : applyPage(e, ids, before)
      OBVIOUS
    <2>0. e \in Epoch /\ IsFiniteSet(Epoch)
      BY FiniteIdentity, LedgerAssumption DEF Epoch
    <2>1. /\ earned' = [p \in Provider |-> earned[p] + PageNet(e, ids)[p]]
          /\ feeCum' = feeCum + PageFee(e, ids) /\ burnCum' = burnCum + PageBurn(e, ids)
      BY PageBooks
    <2>2. /\ PageFee(e, ids) \in Int /\ PageBurn(e, ids) \in Int
          /\ PageNet(e, ids) \in [Provider -> Int]
          /\ \A x \in Epoch \ {e} : gross'[x] = gross[x]
          /\ SumFunctionOnSet(Fees(gross'[e]), Provider)
               = SumFunctionOnSet(Fees(gross[e]), Provider) + PageFee(e, ids)
          /\ SumFunctionOnSet(Burns(gross'[e]), Provider)
               = SumFunctionOnSet(Burns(gross[e]), Provider) + PageBurn(e, ids)
          /\ \A p \in Provider :
                gross'[e][p] - FeeOf(gross'[e][p]) - BurnOf(gross'[e][p])
                  = (gross[e][p] - FeeOf(gross[e][p]) - BurnOf(gross[e][p])) + PageNet(e, ids)[p]
      BY <2>0, PageAmounts
    <2>3. gross \in [Epoch -> [Provider -> Int]] /\ gross' \in [Epoch -> [Provider -> Int]]
      BY DEF TypeOK, SettledTypeOK
    <2>4. ASSUME NEW p \in Provider
          PROVE  earned'[p] = SumFunctionOnSet(NetsOf(p)', Epoch)
      <3> PICK f, g : f = NetsOf(p) /\ g = NetsOf(p)'
        OBVIOUS
      <3>1. IntOn(f, Epoch) /\ IntOn(g, Epoch)
        BY <2>3, SharesInt DEF NetsOf
      <3>2. SameOn(f, g, Without(Epoch, e))
        BY <2>2 DEF SameOn, Without, NetsOf
      <3>3. g[e] = f[e] + PageNet(e, ids)[p]
        BY <2>0, <2>2 DEF NetsOf
      <3>4. /\ SumFunctionOnSet(g, Epoch) = SumFunctionOnSet(f, Epoch) + (g[e] - f[e])
            /\ SumFunctionOnSet(f, Epoch) \in Int /\ f[e] \in Int /\ g[e] \in Int
        BY <2>0, <3>1, <3>2, SumChange
      <3>5. earned[p] = SumFunctionOnSet(f, Epoch)
        BY DEF Shares
      <3>6. earned'[p] = earned[p] + PageNet(e, ids)[p] /\ PageNet(e, ids)[p] \in Int
        BY <2>1, <2>2
      <3> QED
        BY <3>3, <3>4, <3>5, <3>6
    <2>5. feeCum' = SumFunctionOnSet(FeesBy', Epoch)
      <3> PICK f, g : f = FeesBy /\ g = FeesBy'
        OBVIOUS
      <3>1. IntOn(f, Epoch) /\ IntOn(g, Epoch)
        BY <2>3, SharesInt DEF FeesBy
      <3>2. SameOn(f, g, Without(Epoch, e))
        BY <2>2 DEF SameOn, Without, FeesBy
      <3>3. g[e] = f[e] + PageFee(e, ids)
        BY <2>0, <2>2 DEF FeesBy
      <3>4. /\ SumFunctionOnSet(g, Epoch) = SumFunctionOnSet(f, Epoch) + (g[e] - f[e])
            /\ SumFunctionOnSet(f, Epoch) \in Int /\ f[e] \in Int /\ g[e] \in Int
        BY <2>0, <3>1, <3>2, SumChange
      <3>5. feeCum = SumFunctionOnSet(f, Epoch)
        BY DEF Shares
      <3> QED
        BY <2>1, <2>2, <3>3, <3>4, <3>5
    <2>6. burnCum' = SumFunctionOnSet(BurnsBy', Epoch)
      <3> PICK f, g : f = BurnsBy /\ g = BurnsBy'
        OBVIOUS
      <3>1. IntOn(f, Epoch) /\ IntOn(g, Epoch)
        BY <2>3, SharesInt DEF BurnsBy
      <3>2. SameOn(f, g, Without(Epoch, e))
        BY <2>2 DEF SameOn, Without, BurnsBy
      <3>3. g[e] = f[e] + PageBurn(e, ids)
        BY <2>0, <2>2 DEF BurnsBy
      <3>4. /\ SumFunctionOnSet(g, Epoch) = SumFunctionOnSet(f, Epoch) + (g[e] - f[e])
            /\ SumFunctionOnSet(f, Epoch) \in Int /\ f[e] \in Int /\ g[e] \in Int
        BY <2>0, <3>1, <3>2, SumChange
      <3>5. burnCum = SumFunctionOnSet(f, Epoch)
        BY DEF Shares
      <3> QED
        BY <2>1, <2>2, <3>3, <3>4, <3>5
    <2> QED
      BY <2>4, <2>5, <2>6 DEF Shares
  <1> QED
    BY <1>1, <1>2

\* Each provider has the net of its whole gross per epoch, however the pages were cut.
THEOREM PagesNeutral == Spec => []PagingIsNeutral
  <1>1. Init => Shares
    <2> SUFFICES ASSUME Init PROVE Shares
      OBVIOUS
    <2>1. \A e \in Epoch : gross[e] = [p \in Provider |-> 0]
      BY DEF Init
    <2>2. \A p \in Provider : ZeroOn(NetsOf(p), Epoch)
      BY <2>1, FeeInt DEF ZeroOn, NetsOf
    <2>3. ZeroOn(FeesBy, Epoch) /\ ZeroOn(BurnsBy, Epoch)
      <3>1. \A e \in Epoch : ZeroOn(Fees(gross[e]), Provider) /\ ZeroOn(Burns(gross[e]), Provider)
        BY <2>1, FeeInt DEF ZeroOn, Fees, Burns
      <3>2. \A e \in Epoch : /\ SumFunctionOnSet(Fees(gross[e]), Provider) = 0
                             /\ SumFunctionOnSet(Burns(gross[e]), Provider) = 0
        BY <3>1, SumZero, LedgerAssumption
      <3> QED
        BY <3>2 DEF ZeroOn, FeesBy, BurnsBy
    <2>4. IsFiniteSet(Epoch)
      BY FiniteIdentity
    <2>5. /\ SumFunctionOnSet(FeesBy, Epoch) = 0 /\ SumFunctionOnSet(BurnsBy, Epoch) = 0
          /\ \A p \in Provider : SumFunctionOnSet(NetsOf(p), Epoch) = 0
      BY <2>2, <2>3, <2>4, SumZero
    <2>6. (\A p \in Provider : earned[p] = 0) /\ feeCum = 0 /\ burnCum = 0
      BY DEF Init
    <2> QED
      BY <2>5, <2>6 DEF Shares
  <1>2. Orderly /\ GrossKept /\ TypeOK /\ TypeOK' /\ Shares /\ [Next]_vars => Shares'
    BY SharesStep
  <1>3. Shares => PagingIsNeutral
    <2> SUFFICES ASSUME Shares PROVE PagingIsNeutral
      OBVIOUS
    <2>1. \A p \in Provider : SumFunctionOnSet(NetsOf(p), Epoch) = SumFunction(NetsOf(p))
      <3> TAKE p \in Provider
      <3>1. DOMAIN NetsOf(p) = Epoch
        BY DEF NetsOf
      <3> QED
        BY <3>1, SumWhole
    <2>2. /\ SumFunctionOnSet(FeesBy, Epoch) = SumFunction(FeesBy)
          /\ SumFunctionOnSet(BurnsBy, Epoch) = SumFunction(BurnsBy)
      <3>1. DOMAIN FeesBy = Epoch /\ DOMAIN BurnsBy = Epoch
        BY DEF FeesBy, BurnsBy
      <3> QED
        BY <3>1, SumWhole
    <2>4. FeesBy = [e \in Epoch |-> SumFunction([p \in Provider |-> FeeOf(gross[e][p])])]
      BY FeesSummed DEF FeesBy
    <2>5. BurnsBy = [e \in Epoch |-> SumFunction([p \in Provider |-> BurnOf(gross[e][p])])]
      BY FeesSummed DEF BurnsBy
    <2>6. /\ feeCum = SumFunction([e \in Epoch |-> SumFunction([p \in Provider |-> FeeOf(gross[e][p])])])
          /\ burnCum = SumFunction([e \in Epoch |-> SumFunction([p \in Provider |-> BurnOf(gross[e][p])])])
      BY <2>2, <2>4, <2>5 DEF Shares
    <2>7. \A p \in Provider : earned[p] = SumFunction(NetsOf(p))
      BY <2>1 DEF Shares
    <2> QED
      BY <2>6, <2>7 DEF PagingIsNeutral, NetsOf
  <1> QED
    BY <1>1, <1>2, <1>3, LedgerBooks, LedgerTypeOK, PTL DEF Spec

-----------------------------------------------------------------------------
(***************************************************************************)
(* Value is conserved.                                                     *)
(***************************************************************************)
Credits == [d \in Deposit |-> IF deposit[d].credited THEN DepositTerms[d].au ELSE 0]
Taken == [d \in Deposit |-> deposit[d].disputed]

Conserved ==
    /\ SumFunctionOnSet(Credits, Deposit)
          = SumFunctionOnSet(balance, User) + SumFunctionOnSet(clawed, User)
              + SumFunctionOnSet(Owe, consumed)
    /\ SumFunctionOnSet(earned, Provider) + feeCum + burnCum = SumFunctionOnSet(Owe, consumed)
    /\ SumFunctionOnSet(clawed, User) + absorbed = SumFunctionOnSet(Taken, Deposit)

\* The accounts hold amounts.
LEMMA AccountInts ==
    ASSUME TypeOK
    PROVE  /\ IntOn(balance, User) /\ IntOn(clawed, User) /\ IntOn(earned, Provider)
           /\ IntOn(Credits, Deposit) /\ IntOn(Taken, Deposit) /\ absorbed \in Int
           /\ feeCum \in Int /\ burnCum \in Int
           /\ SumFunctionOnSet(balance, User) \in Int /\ SumFunctionOnSet(clawed, User) \in Int
           /\ SumFunctionOnSet(earned, Provider) \in Int
  <1>1. /\ IntOn(balance, User) /\ IntOn(clawed, User) /\ IntOn(earned, Provider)
        /\ absorbed \in Int /\ feeCum \in Int /\ burnCum \in Int
    BY DEF TypeOK, AccountsTypeOK, SettledTypeOK, IntOn
  <1>2. IntOn(Credits, Deposit) /\ IntOn(Taken, Deposit)
    BY TermsTyped DEF TypeOK, AccountsTypeOK, IntOn, Credits, Taken
  <1>3. IsFiniteSet(User) /\ IsFiniteSet(Provider)
    BY LedgerAssumption
  <1> QED
    BY <1>1, <1>2, <1>3, SumInt

\* So do the consumed receipts together.
LEMMA SpentInt ==
    ASSUME TypeOK, Conserved
    PROVE  SumFunctionOnSet(Owe, consumed) \in Int
  BY AccountInts DEF Conserved

\* The consumed receipts keep owing what they owe.
LEMMA SpentKept ==
    ASSUME Orderly, [Next]_vars, ~SettlePage
    PROVE  SumFunctionOnSet(Owe', consumed') = SumFunctionOnSet(Owe, consumed)
  <1> PICK C : C = consumed
    OBVIOUS
  <1>1. consumed' = C
    BY ConsumeFrame DEF Orderly
  <1>2. C \in SUBSET Identity /\ \A id \in C : head[id] # NoHead /\ head[id].settlement_epoch # 0
    BY ReadySets
  <1>3. SumFunctionOnSet(Owe', C) = SumFunctionOnSet(Owe, C)
    BY <1>2, DoneSumsKept
  <1> QED
    BY <1>1, <1>3

\* A deposit adds the same to the credits and to a balance.
LEMMA ConservedCredit ==
    ASSUME TypeOK, TypeOK', Conserved, NEW d \in Deposit, creditDeposit(d),
           SumFunctionOnSet(Owe', consumed') = SumFunctionOnSet(Owe, consumed)
    PROVE  Conserved'
  <1> PICK u : u = DepositTerms[d].user
    OBVIOUS
  <1> PICK au : au = DepositTerms[d].au
    OBVIOUS
  <1>0. u \in User /\ au \in Int /\ IsFiniteSet(User) /\ IsFiniteSet(Deposit)
    BY TermsTyped, LedgerAssumption
  <1>1. /\ ~deposit[d].credited /\ deposit' = [deposit EXCEPT ![d].credited = TRUE]
        /\ balance' = [balance EXCEPT ![u] = @ + au]
        /\ UNCHANGED <<clawed, absorbed, earned, feeCum, burnCum>>
    BY DEF creditDeposit, settled
  <1>2. balance \in [User -> Nat] /\ deposit \in [Deposit -> [credited : BOOLEAN, disputed : Nat]]
    BY DEF TypeOK, AccountsTypeOK
  <1>3. balance'[u] = balance[u] + au /\ SameOn(balance, balance', Without(User, u))
    BY <1>0, <1>1, <1>2 DEF SameOn, Without
  <1>4. /\ deposit'[d].credited = TRUE /\ deposit'[d].disputed = deposit[d].disputed
        /\ \A x \in Deposit \ {d} : deposit'[x] = deposit[x]
    BY <1>1, <1>2
  <1>5. Credits[d] = 0 /\ Credits'[d] = au /\ SameOn(Credits, Credits', Without(Deposit, d))
    BY <1>1, <1>4 DEF Credits, SameOn, Without
  <1>6. Taken' = Taken
    BY <1>4 DEF Taken
  <1>7. /\ IntOn(balance, User) /\ IntOn(balance', User)
        /\ IntOn(Credits, Deposit) /\ IntOn(Credits', Deposit)
    <2>1. IntOn(balance, User) /\ IntOn(Credits, Deposit)
      BY AccountInts
    <2>2. IntOn(balance', User)
      BY DEF TypeOK, AccountsTypeOK, IntOn
    <2>3. IntOn(Credits', Deposit)
      BY TermsTyped DEF IntOn, Credits
    <2> QED
      BY <2>1, <2>2, <2>3
  <1>8. /\ SumFunctionOnSet(balance', User)
             = SumFunctionOnSet(balance, User) + (balance'[u] - balance[u])
        /\ SumFunctionOnSet(balance, User) \in Int /\ balance[u] \in Int /\ balance'[u] \in Int
    BY <1>0, <1>3, <1>7, SumChange
  <1>9. /\ SumFunctionOnSet(Credits', Deposit)
             = SumFunctionOnSet(Credits, Deposit) + (Credits'[d] - Credits[d])
        /\ SumFunctionOnSet(Credits, Deposit) \in Int
    BY <1>0, <1>5, <1>7, SumChange
  <1>10. SumFunctionOnSet(clawed, User) \in Int /\ UNCHANGED <<clawed, absorbed, earned, feeCum, burnCum>>
    BY <1>1, AccountInts
  <1>11. SumFunctionOnSet(balance', User) = SumFunctionOnSet(balance, User) + au
    BY <1>0, <1>3, <1>8
  <1>12. SumFunctionOnSet(Credits', Deposit) = SumFunctionOnSet(Credits, Deposit) + au
    BY <1>0, <1>5, <1>9
  <1>13. SumFunctionOnSet(Owe, consumed) \in Int
    BY SpentInt
  <1>14. SumFunctionOnSet(Credits', Deposit)
           = SumFunctionOnSet(balance', User) + SumFunctionOnSet(clawed, User)
               + SumFunctionOnSet(Owe, consumed)
    BY <1>0, <1>8, <1>9, <1>10, <1>11, <1>12, <1>13 DEF Conserved
  <1> QED
    BY <1>6, <1>10, <1>14 DEF Conserved

\* A dispute moves credit from a balance to what was taken back; the rest is absorbed.
LEMMA ConservedDispute ==
    ASSUME TypeOK, TypeOK', Conserved, NEW d \in Deposit, NEW au \in Nat, TakeBack(d, au),
           UNCHANGED <<earned, feeCum, burnCum>>,
           SumFunctionOnSet(Owe', consumed') = SumFunctionOnSet(Owe, consumed)
    PROVE  Conserved'
  <1> PICK u : u = DepositTerms[d].user
    OBVIOUS
  <1> PICK c : c = Clawback(u, au)
    OBVIOUS
  <1>0. u \in User /\ IsFiniteSet(User) /\ IsFiniteSet(Deposit)
    BY TermsTyped, LedgerAssumption
  <1>1. /\ deposit' = [deposit EXCEPT ![d].disputed = @ + au]
        /\ balance' = [balance EXCEPT ![u] = @ - c]
        /\ clawed' = [clawed EXCEPT ![u] = @ + c]
        /\ absorbed' = absorbed + (au - c)
    BY DEF TakeBack
  <1>2. /\ balance \in [User -> Nat] /\ clawed \in [User -> Nat]
        /\ deposit \in [Deposit -> [credited : BOOLEAN, disputed : Nat]] /\ absorbed \in Int
    BY DEF TypeOK, AccountsTypeOK
  <1>3. c \in Int
    BY <1>0, <1>2 DEF Clawback
  <1>4. balance'[u] = balance[u] - c /\ SameOn(balance, balance', Without(User, u))
    BY <1>0, <1>1, <1>2 DEF SameOn, Without
  <1>5. clawed'[u] = clawed[u] + c /\ SameOn(clawed, clawed', Without(User, u))
    BY <1>0, <1>1, <1>2 DEF SameOn, Without
  <1>6. /\ deposit'[d].credited = deposit[d].credited
        /\ deposit'[d].disputed = deposit[d].disputed + au
        /\ \A x \in Deposit \ {d} : deposit'[x] = deposit[x]
    BY <1>1, <1>2
  <1>7. Taken'[d] = Taken[d] + au /\ SameOn(Taken, Taken', Without(Deposit, d))
    BY <1>6 DEF Taken, SameOn, Without
  <1>8. Credits' = Credits
    BY <1>6 DEF Credits
  <1>9. /\ IntOn(balance, User) /\ IntOn(balance', User)
        /\ IntOn(clawed, User) /\ IntOn(clawed', User)
        /\ IntOn(Taken, Deposit) /\ IntOn(Taken', Deposit)
    <2>1. IntOn(balance, User) /\ IntOn(clawed, User) /\ IntOn(Taken, Deposit)
      BY AccountInts
    <2>2. IntOn(balance', User) /\ IntOn(clawed', User)
      BY DEF TypeOK, AccountsTypeOK, IntOn
    <2>3. IntOn(Taken', Deposit)
      BY DEF TypeOK, AccountsTypeOK, IntOn, Taken
    <2> QED
      BY <2>1, <2>2, <2>3
  <1>10. /\ SumFunctionOnSet(balance', User)
              = SumFunctionOnSet(balance, User) + (balance'[u] - balance[u])
         /\ SumFunctionOnSet(balance, User) \in Int /\ balance[u] \in Int
    BY <1>0, <1>4, <1>9, SumChange
  <1>11. /\ SumFunctionOnSet(clawed', User)
              = SumFunctionOnSet(clawed, User) + (clawed'[u] - clawed[u])
         /\ SumFunctionOnSet(clawed, User) \in Int /\ clawed[u] \in Int
    BY <1>0, <1>5, <1>9, SumChange
  <1>12. /\ SumFunctionOnSet(Taken', Deposit)
              = SumFunctionOnSet(Taken, Deposit) + (Taken'[d] - Taken[d])
         /\ SumFunctionOnSet(Taken, Deposit) \in Int /\ Taken[d] \in Int
    BY <1>0, <1>7, <1>9, SumChange
  <1>13. SumFunctionOnSet(balance', User) = SumFunctionOnSet(balance, User) - c
    BY <1>3, <1>4, <1>10
  <1>14. SumFunctionOnSet(clawed', User) = SumFunctionOnSet(clawed, User) + c
    BY <1>3, <1>5, <1>11
  <1>15. SumFunctionOnSet(Taken', Deposit) = SumFunctionOnSet(Taken, Deposit) + au
    BY <1>7, <1>12
  <1>16. SumFunctionOnSet(Owe, consumed) \in Int
    BY SpentInt
  <1>17. SumFunctionOnSet(clawed', User) + absorbed' = SumFunctionOnSet(Taken', Deposit)
    BY <1>1, <1>2, <1>3, <1>11, <1>12, <1>14, <1>15 DEF Conserved
  <1>18. SumFunctionOnSet(Credits, Deposit)
           = SumFunctionOnSet(balance', User) + SumFunctionOnSet(clawed', User)
               + SumFunctionOnSet(Owe, consumed)
    BY <1>3, <1>10, <1>11, <1>13, <1>14, <1>16 DEF Conserved
  <1> QED
    BY <1>8, <1>17, <1>18 DEF Conserved

\* A page moves what its receipts owe from the balances to the providers, the fee
\* and the burn.
LEMMA ConservedPage ==
    ASSUME Orderly, GrossKept, TypeOK, TypeOK', Conserved, [Next]_vars, SettlePage
    PROVE  Conserved'
  <1> PICK e \in 1..MaxEpoch, ids \in SUBSET Identity :
         \E before : applyPage(e, ids, before)
    BY PageStep DEF Orderly
  <1> PICK before : applyPage(e, ids, before)
    OBVIOUS
  <1>0. e \in Epoch /\ IsFiniteSet(User) /\ IsFiniteSet(Provider)
    BY LedgerAssumption DEF Epoch
  <1>1. /\ ids \in SUBSET Headed /\ consumed' = consumed \cup ids
        /\ SumFunctionOnSet(Owe', consumed') = SumFunctionOnSet(Owe, consumed) + SumIncremental(ids)
    <2> PICK C : C = consumed
      OBVIOUS
    <2>1. consumed' = C \cup ids
      BY DEF applyPage, Consume
    <2>2. C \in SUBSET Identity /\ \A id \in C : head[id] # NoHead /\ head[id].settlement_epoch # 0
      BY ReadySets
    <2>3. C \cap ids = {}
      BY <1>0, PageReady
    <2>4. /\ SumFunctionOnSet(Owe', C \cup ids) = SumFunctionOnSet(Owe, C) + SumIncremental(ids)
          /\ ids \in SUBSET Headed
      BY <1>0, <2>2, <2>3, PageAdds
    <2> QED
      BY <2>1, <2>4
  <1>2. /\ SumIncremental(ids) \in Int /\ PageFee(e, ids) \in Int /\ PageBurn(e, ids) \in Int
        /\ PageNet(e, ids) \in [Provider -> Int]
        /\ SumIncremental(ids)
             = SumFunctionOnSet(PageNet(e, ids), Provider) + PageFee(e, ids) + PageBurn(e, ids)
    BY <1>0, PageAmounts
  <1>3. /\ earned' = [p \in Provider |-> earned[p] + PageNet(e, ids)[p]]
        /\ feeCum' = feeCum + PageFee(e, ids) /\ burnCum' = burnCum + PageBurn(e, ids)
    BY PageBooks
  <1>4. /\ IntOn(balance, User) /\ IntOn(earned, Provider) /\ feeCum \in Int /\ burnCum \in Int
        /\ SumFunctionOnSet(balance, User) \in Int /\ SumFunctionOnSet(clawed, User) \in Int
        /\ SumFunctionOnSet(earned, Provider) \in Int
    BY AccountInts
  <1>5. /\ SumFunctionOnSet(earned', Provider)
             = SumFunctionOnSet(earned, Provider) + SumFunctionOnSet(PageNet(e, ids), Provider)
        /\ SumFunctionOnSet(PageNet(e, ids), Provider) \in Int
    <2> PICK f, g, h : f = earned /\ g = PageNet(e, ids) /\ h = earned'
      OBVIOUS
    <2>1. IntOn(f, Provider) /\ IntOn(g, Provider) /\ AddsOn(f, g, h, Provider)
      BY <1>2, <1>3, <1>4 DEF IntOn, AddsOn
    <2>2. SumFunctionOnSet(h, Provider) = SumFunctionOnSet(f, Provider) + SumFunctionOnSet(g, Provider)
      BY <1>0, <2>1, SumAdd
    <2>3. SumFunctionOnSet(g, Provider) \in Int
      BY <1>0, <2>1, SumInt
    <2> QED
      BY <2>2, <2>3
  <1>6. SumFunctionOnSet(balance, User) = SumFunctionOnSet(balance', User) + SumIncremental(ids)
        /\ SumFunctionOnSet(balance', User) \in Int
    <2> PICK f, g, h : f = balance' /\ g = Debits(ids) /\ h = balance
      OBVIOUS
    <2>1. f = [u \in User |-> h[u] - g[u]] /\ g \in [User -> Nat]
      BY DEF applyPage, DebitAccounts
    <2>2. h \in [User -> Nat]
      BY DEF TypeOK, AccountsTypeOK
    <2>3. IntOn(f, User) /\ IntOn(g, User) /\ AddsOn(f, g, h, User)
      BY <2>1, <2>2 DEF IntOn, AddsOn
    <2>4. SumFunctionOnSet(h, User) = SumFunctionOnSet(f, User) + SumFunctionOnSet(g, User)
      BY <1>0, <2>3, SumAdd
    <2>5. /\ IsFiniteSet(ids) /\ IntOn(Owe, ids) /\ KeysOn(Payer, ids, User)
          /\ SumIncremental(ids) = SumFunctionOnSet(Owe, ids)
          /\ g = GroupSums(Owe, Payer, ids, User)
      BY <1>1, Owes DEF Orderly
    <2>6. SumFunctionOnSet(g, User) = SumIncremental(ids)
      BY <1>0, <2>5, SumByGroup
    <2>7. SumFunctionOnSet(f, User) \in Int
      BY <1>0, <2>3, SumInt
    <2> QED
      BY <2>4, <2>6, <2>7
  <1>7. UNCHANGED <<clawed, absorbed, deposit>> /\ Credits' = Credits /\ Taken' = Taken
    BY DEF applyPage, Credits, Taken
  <1>8. SumFunctionOnSet(Owe, consumed) \in Int
    BY SpentInt
  <1>9. SumFunctionOnSet(earned', Provider) + feeCum' + burnCum' = SumFunctionOnSet(Owe', consumed')
    BY <1>1, <1>2, <1>3, <1>4, <1>5, <1>8 DEF Conserved
  <1>10. SumFunctionOnSet(Credits, Deposit)
           = SumFunctionOnSet(balance', User) + SumFunctionOnSet(clawed, User)
               + SumFunctionOnSet(Owe', consumed')
    BY <1>1, <1>2, <1>4, <1>6, <1>8 DEF Conserved
  <1> QED
    BY <1>7, <1>9, <1>10 DEF Conserved

\* Every credited amount is in a balance, taken back, or paid out, and a dispute is
\* taken back or absorbed, through any mix of deposits, disputes and pages.
THEOREM CreditConserved == Spec => []ValueConserved
  <1>1. Init => Conserved
    <2> SUFFICES ASSUME Init PROVE Conserved
      OBVIOUS
    <2>1. /\ ZeroOn(Credits, Deposit) /\ ZeroOn(Taken, Deposit) /\ ZeroOn(balance, User)
          /\ ZeroOn(clawed, User) /\ ZeroOn(earned, Provider)
      BY DEF Init, ZeroOn, Credits, Taken
    <2>2. IsFiniteSet(User) /\ IsFiniteSet(Provider) /\ IsFiniteSet(Deposit)
      BY LedgerAssumption
    <2>3. /\ SumFunctionOnSet(Credits, Deposit) = 0 /\ SumFunctionOnSet(Taken, Deposit) = 0
          /\ SumFunctionOnSet(balance, User) = 0 /\ SumFunctionOnSet(clawed, User) = 0
          /\ SumFunctionOnSet(earned, Provider) = 0
      BY <2>1, <2>2, SumZero
    <2>4. SumFunctionOnSet(Owe, consumed) = 0
      BY SumEmpty DEF Init
    <2>5. feeCum = 0 /\ burnCum = 0 /\ absorbed = 0
      BY DEF Init
    <2> QED
      BY <2>3, <2>4, <2>5 DEF Conserved
  <1>2. Orderly /\ GrossKept /\ TypeOK /\ TypeOK' /\ Conserved /\ [Next]_vars => Conserved'
    <2> SUFFICES ASSUME Orderly, GrossKept, TypeOK, TypeOK', Conserved, [Next]_vars
                 PROVE  Conserved'
      OBVIOUS
    <2>1. ~SettlePage => SumFunctionOnSet(Owe', consumed') = SumFunctionOnSet(Owe, consumed)
      BY SpentKept
    <2>2. CASE Deposits /\ ~SettlePage
      BY <2>1, <2>2, ConservedCredit DEF Deposits
    <2>3. CASE Disputes /\ ~SettlePage
      <3>1. UNCHANGED <<earned, feeCum, burnCum>>
        BY <2>3, DepositFrame DEF settled
      <3>2. \E d \in Deposit, au \in Nat : TakeBack(d, au)
        <4>0. Reversible \subseteq Deposit /\ DisputedAu \subseteq Nat
          BY LedgerAssumption
        <4>1. CASE \E d \in Reversible, dispute \in Dispute, au \in DisputedAu :
                      fiatChargeback(d, dispute, au)
          BY <4>0, <4>1 DEF fiatChargeback
        <4>2. CASE \E d \in Reversible : tapDepositReversal(d)
          <5> PICK d \in Reversible : tapDepositReversal(d)
            BY <4>2
          <5>1. TakeBack(d, DepositTerms[d].au) /\ d \in Deposit
            BY <4>0 DEF tapDepositReversal
          <5> QED
            BY <5>1, TermsTyped
        <4> QED
          BY <2>3, <4>1, <4>2 DEF Disputes
      <3> QED
        BY <2>1, <2>3, <3>1, <3>2, ConservedDispute
    <2>4. CASE ~Deposits /\ ~Disputes /\ ~SettlePage
      <3>1. UNCHANGED <<balance, clawed, absorbed, deposit>>
        <4>1. CASE Registrations \/ Bindings \/ UNCHANGED vars
          BY <4>1, ProviderFrame DEF vars, accounts
        <4>2. CASE FreezeEpoch \/ SealEpoch
          BY <4>2, EpochFrame DEF accounts
        <4>3. CASE Reserve
          BY <4>3 DEF Reserve, spendReserveTargeted
        <4>4. CASE Receipts \/ Close \/ Expire
          BY <4>4, ReceiptStep DEF Orderly
        <4> QED
          BY <2>4, <4>1, <4>2, <4>3, <4>4 DEF Next
      <3>2. UNCHANGED <<earned, feeCum, burnCum>>
        BY <2>4, ConsumeFrame DEF Orderly, settled
      <3>3. Credits' = Credits /\ Taken' = Taken
        BY <3>1 DEF Credits, Taken
      <3> QED
        BY <2>1, <2>4, <3>1, <3>2, <3>3 DEF Conserved
    <2>5. CASE SettlePage
      BY <2>5, ConservedPage
    <2> QED
      BY <2>2, <2>3, <2>4, <2>5
  <1>3. Orderly /\ Conserved /\ TypeOK => ValueConserved
    <2> SUFFICES ASSUME Orderly, Conserved, TypeOK PROVE ValueConserved
      OBVIOUS
    <2>1. consumed \in SUBSET Headed
      BY ReadySets DEF Headed
    <2>2. Spent = SumFunctionOnSet(Owe, consumed)
      BY <2>1, Owes DEF Spent, Orderly
    <2>3. /\ DOMAIN balance = User /\ DOMAIN clawed = User /\ DOMAIN earned = Provider
      BY DEF TypeOK, AccountsTypeOK, SettledTypeOK
    <2>4. DOMAIN Credits = Deposit /\ DOMAIN Taken = Deposit
      BY DEF Credits, Taken
    <2>5. /\ SumFunction(balance) = SumFunctionOnSet(balance, User)
          /\ SumFunction(clawed) = SumFunctionOnSet(clawed, User)
          /\ SumFunction(earned) = SumFunctionOnSet(earned, Provider)
          /\ SumFunction(Credits) = SumFunctionOnSet(Credits, Deposit)
          /\ SumFunction(Taken) = SumFunctionOnSet(Taken, Deposit)
      BY <2>3, <2>4, SumWhole
    <2> QED
      BY <2>2, <2>5 DEF Conserved, ValueConserved, Credits, Taken
  <1> QED
    BY <1>1, <1>2, <1>3, LedgerBooks, LedgerTypeOK, PTL DEF Spec

-----------------------------------------------------------------------------
(***************************************************************************)
(* The spend summary is the sum of the sessions.                           *)
(***************************************************************************)
Own(u) == {r \in Reservation : reservation[r] # NoReservation /\ reservation[r].user = u}
Hold == [r \in Reservation |-> session[r].max_spend]

HeldFor == \A u \in User : reserved[u] = SumFunctionOnSet(Hold, Own(u))

\* The holds are amounts, over finite sets.
LEMMA HoldInts ==
    ASSUME Typed, NEW u
    PROVE  /\ IsFiniteSet(Own(u)) /\ Own(u) \in SUBSET Reservation
           /\ IntOn(Hold, Reservation) /\ IntOn(Hold, Own(u))
           /\ SumFunctionOnSet(Hold, Own(u)) \in Int
  <1>1. Own(u) \in SUBSET Reservation
    BY DEF Own
  <1>2. IsFiniteSet(Own(u))
    BY <1>1, FS_Subset, LedgerAssumption
  <1>3. IntOn(Hold, Reservation)
    BY DEF IntOn, Hold, Typed, SessionsTypeOK
  <1>4. IntOn(Hold, Own(u))
    BY <1>1, <1>3 DEF IntOn
  <1> QED
    BY <1>1, <1>2, <1>3, <1>4, SumInt

\* Only a reservation changes who holds what.
LEMMA OwnKept ==
    ASSUME Typed, [Next]_vars, ~Reserve, NEW u
    PROVE  Own(u)' = Own(u)
  <1>1. ASSUME NEW x \in Reservation
        PROVE  /\ reservation'[x] # NoReservation <=> reservation[x] # NoReservation
               /\ reservation[x] # NoReservation => reservation'[x].user = reservation[x].user
    BY ReservationKept, ReservationStep DEF SameTerms
  <1> QED
    BY <1>1 DEF Own

\* A reservation adds its hold to the summary.
LEMMA HoldReserved ==
    ASSUME Typed, HeldFor, Reserve
    PROVE  HeldFor'
  <1> PICK r \in Reservation, v \in User, p \in Provider, b \in Billing, a \in Attempt,
           spend \in MaxSpend : \E prior \in VoucherBaselines(a) :
               spendReserveTargeted(r, v, p, b, a, prior, spend)
    BY DEF Reserve
  <1> PICK prior \in VoucherBaselines(a) : spendReserveTargeted(r, v, p, b, a, prior, spend)
    OBVIOUS
  <1>0. spend \in Nat /\ reserved \in [User -> Nat]
        /\ session \in [Reservation -> [max_spend : Nat, settlement_ready : BOOLEAN]]
    BY LedgerAssumption DEF Typed, AccountsTypeOK, SessionsTypeOK
  <1>1. /\ reservation[r] = NoReservation
        /\ reserved' = [reserved EXCEPT ![v] = @ + spend]
        /\ session' = [session EXCEPT ![r] = [max_spend |-> spend, settlement_ready |-> FALSE]]
    BY DEF spendReserveTargeted
  <1>2. /\ reservation'[r] # NoReservation /\ reservation'[r].user = v
        /\ \A x \in Reservation \ {r} : reservation'[x] = reservation[x]
    <2> PICK new : new = [status |-> "active", user |-> v, provider |-> p,
                          revision |-> ActiveRevision(p, ActiveBillingEpoch),
                          billing |-> b, attempt |-> a, prior |-> prior,
                          epoch |-> ActiveBillingEpoch]
      OBVIOUS
    <2>0. reservation' = [reservation EXCEPT ![r] = new] /\ new.status = "active" /\ new.user = v
      BY DEF spendReserveTargeted
    <2>1. reservation'[r] = new /\ \A x \in Reservation \ {r} : reservation'[x] = reservation[x]
      BY <2>0 DEF Typed, SessionsTypeOK
    <2>2. NoReservation.status = "free"
      BY DEF NoReservation
    <2> QED
      BY <2>0, <2>1, <2>2
  <1>3. \A u : r \notin Own(u)
    BY <1>1 DEF Own
  <1>4. Own(v)' = With(Own(v), r) /\ \A u : u # v => Own(u)' = Own(u)
    BY <1>1, <1>2 DEF Own, With
  <1>5. Hold'[r] = spend /\ \A x \in Reservation \ {r} : Hold'[x] = Hold[x]
    BY <1>0, <1>1 DEF Hold
  <1>6. ASSUME NEW u
        PROVE  /\ SumFunctionOnSet(Hold', Own(u)) = SumFunctionOnSet(Hold, Own(u))
               /\ SumFunctionOnSet(Hold, Own(u)) \in Int /\ IsFiniteSet(Own(u))
    <2>1. SameOn(Hold, Hold', Own(u))
      BY <1>3, <1>5 DEF SameOn, Own
    <2> QED
      BY <2>1, HoldInts, SumSame
  <1>7. SumFunctionOnSet(Hold', Own(v)') = spend + SumFunctionOnSet(Hold, Own(v))
    <2> PICK S, f : S = Own(v) /\ f = Hold'
      OBVIOUS
    <2>0. f[r] \in Int /\ \A x \in S : x \in Reservation \ {r} /\ Hold[x] \in Int
      BY <1>0, <1>3, <1>5, HoldInts DEF IntOn
    <2>1. IntOn(f, With(S, r))
      BY <1>5, <2>0 DEF IntOn, With
    <2>2. SumFunctionOnSet(f, With(S, r)) = f[r] + SumFunctionOnSet(f, S)
      BY <1>3, <1>6, <2>1, SumIn
    <2> QED
      BY <1>4, <1>5, <1>6, <2>2
  <1>8. ASSUME NEW u \in User
        PROVE  reserved'[u] = SumFunctionOnSet(Hold', Own(u)')
    <2>1. CASE u = v
      <3>1. reserved'[v] = reserved[v] + spend /\ reserved[v] = SumFunctionOnSet(Hold, Own(v))
        BY <1>0, <1>1 DEF HeldFor
      <3>2. reserved'[v] = SumFunctionOnSet(Hold', Own(v)')
        BY <1>0, <1>6, <1>7, <3>1
      <3> QED
        BY <2>1, <3>2
    <2>2. CASE u # v
      <3>1. reserved'[u] = reserved[u] /\ reserved[u] = SumFunctionOnSet(Hold, Own(u))
        BY <1>0, <1>1, <2>2 DEF HeldFor
      <3>2. Own(u)' = Own(u)
        BY <1>4, <2>2
      <3> QED
        BY <1>6, <3>1, <3>2
    <2> QED
      BY <2>1, <2>2
  <1> QED
    BY <1>8 DEF HeldFor

\* Lowering one hold lowers the summary by as much.
LEMMA HoldLowered ==
    ASSUME Typed, HeldFor, NEW r \in Reservation, reservation[r] \in Reservations,
           NEW s, s.max_spend \in Nat, session' = [session EXCEPT ![r] = s],
           reserved' = [reserved EXCEPT ![reservation[r].user] =
                           @ - (session[r].max_spend - s.max_spend)],
           \A u : Own(u)' = Own(u)
    PROVE  HeldFor'
  <1> PICK v : v = reservation[r].user
    OBVIOUS
  <1>0. /\ reserved \in [User -> Nat] /\ v \in User
        /\ session \in [Reservation -> [max_spend : Nat, settlement_ready : BOOLEAN]]
        /\ NoReservation \notin Reservations
    BY DEF Typed, AccountsTypeOK, SessionsTypeOK, Reservations, NoReservation
  <1>1. r \in Own(v) /\ \A u : u # v => r \notin Own(u)
    BY <1>0 DEF Own
  <1>2. /\ Hold[r] = session[r].max_spend /\ Hold'[r] = s.max_spend
        /\ \A x \in Reservation \ {r} : Hold'[x] = Hold[x]
    BY <1>0 DEF Hold
  <1>3. ASSUME NEW u \in User
        PROVE  reserved'[u] = SumFunctionOnSet(Hold', Own(u))
    <2> PICK f, g, S : f = Hold /\ g = Hold' /\ S = Own(u)
      OBVIOUS
    <2>1. /\ IsFiniteSet(S) /\ S \in SUBSET Reservation /\ IntOn(f, S)
          /\ SumFunctionOnSet(f, S) \in Int
      BY HoldInts
    <2>2. reserved[u] = SumFunctionOnSet(f, S)
      BY DEF HeldFor
    <2>3. CASE u = v
      <3>1. IntOn(g, S)
        BY <1>2, <2>1 DEF IntOn
      <3>2. SameOn(f, g, Without(S, r))
        BY <1>2, <2>1 DEF SameOn, Without
      <3>3. /\ SumFunctionOnSet(g, S) = SumFunctionOnSet(f, S) + (g[r] - f[r])
            /\ f[r] \in Int /\ g[r] \in Int
        BY <1>1, <2>1, <2>3, <3>1, <3>2, SumChange
      <3>4. reserved'[u] = reserved[u] - (f[r] - g[r])
        BY <1>0, <1>2, <2>3
      <3> QED
        BY <2>1, <2>2, <3>3, <3>4
    <2>4. CASE u # v
      <3>1. SameOn(f, g, S)
        BY <1>1, <1>2, <2>1, <2>4 DEF SameOn
      <3>2. SumFunctionOnSet(f, S) = SumFunctionOnSet(g, S)
        BY <2>1, <3>1, SumSame
      <3>3. reserved'[u] = reserved[u]
        BY <1>0, <2>4
      <3> QED
        BY <2>2, <3>2, <3>3
    <2> QED
      BY <2>3, <2>4
  <1> QED
    BY <1>3 DEF HeldFor

\* A receipt, a close or an expiry lowers at most the hold of its own session.
LEMMA HoldReceipts ==
    ASSUME Typed, HeldFor, [Next]_vars, Receipts \/ Close \/ Expire, ~Reserve
    PROVE  HeldFor'
  <1>0. \A u : Own(u)' = Own(u)
    BY OwnKept
  <1> PICK r \in Reservation :
            /\ reservation[r] \in Reservations
            /\ Releases(r) \/ \E h \in Heads : Raises(r, h) \/ Retains(r, h)
    BY ReceiptStep
  <1>1. CASE Releases(r)
    <2>1. /\ session' = [session EXCEPT ![r] = NoSession]
          /\ reserved' = [reserved EXCEPT ![reservation[r].user] = @ - session[r].max_spend]
      BY <1>1 DEF Releases, ReleaseAll
    <2>2. NoSession.max_spend = 0 /\ session[r].max_spend \in Nat
      BY DEF NoSession, Typed, SessionsTypeOK
    <2>3. session[r].max_spend - NoSession.max_spend = session[r].max_spend
      BY <2>2
    <2>4. reserved' = [reserved EXCEPT ![reservation[r].user] =
                          @ - (session[r].max_spend - NoSession.max_spend)]
      BY <2>1, <2>3
    <2>5. NoSession.max_spend \in Nat
      BY <2>2
    <2> QED
      BY <1>0, <2>1, <2>4, <2>5, HoldLowered
  <1>2. ASSUME NEW h \in Heads, Raises(r, h) PROVE HeldFor'
    <2>1. UNCHANGED <<reserved, session>>
      BY <1>2 DEF Raises
    <2> QED
      BY <1>0, <2>1 DEF HeldFor, Hold
  <1>3. ASSUME NEW h \in Heads, Retains(r, h) PROVE HeldFor'
    <2> PICK s : s = [max_spend |-> h.incremental, settlement_ready |-> TRUE]
      OBVIOUS
    <2>1. s.max_spend = h.incremental /\ s.max_spend \in Nat
      BY DEF Heads
    <2>2. /\ session' = [session EXCEPT ![r] = s]
          /\ reserved' = [reserved EXCEPT ![reservation[r].user] =
                             @ - (session[r].max_spend - s.max_spend)]
      BY <1>3, <2>1 DEF Retains
    <2> QED
      BY <1>0, <2>1, <2>2, HoldLowered
  <1> QED
    BY <1>1, <1>2, <1>3

\* A page takes the holds of its receipts, which are what they owe, off the summary.
LEMMA HoldSettled ==
    ASSUME Orderly, HeldFor, [Next]_vars, SettlePage, ~Reserve
    PROVE  HeldFor'
  <1>0. \A u : Own(u)' = Own(u)
    BY OwnKept DEF Orderly
  <1> PICK e \in 1..MaxEpoch, ids \in SUBSET Identity :
         \E before : applyPage(e, ids, before)
    BY PageStep DEF Orderly
  <1> PICK before : applyPage(e, ids, before)
    OBVIOUS
  <1> PICK k : k = [id \in Identity |-> head[id].reservation]
    OBVIOUS
  <1>1. /\ \A u \in User : reserved'[u] = reserved[u] - Debits(ids)[u]
        /\ Debits(ids) \in [User -> Nat]
        /\ session' = [r \in Reservation |-> IF r \in ImageOf(k, ids) THEN NoSession ELSE session[r]]
    <2>1. /\ reserved' = [u \in User |-> reserved[u] - Debits(ids)[u]]
          /\ Debits(ids) \in [User -> Nat]
      BY DEF applyPage, DebitAccounts
    <2>2. ImageOf(k, ids) = {head[id].reservation : id \in ids}
      BY DEF ImageOf
    <2>3. session' = [r \in Reservation |-> IF r \in {head[id].reservation : id \in ids}
                                            THEN NoSession ELSE session[r]]
      BY DEF applyPage, Consume
    <2> QED
      BY <2>1, <2>2, <2>3
  <1>2. ASSUME NEW id \in ids
        PROVE  /\ id \in Headed /\ k[id] = head[id].reservation /\ k[id] \in Reservation
               /\ reservation[k[id]] # NoReservation /\ reservation[k[id]].user = Payer[id]
               /\ IdentityOf(k[id]) = id /\ Owe[id] = Hold[k[id]]
    <2>0. id \in Identity /\ Allocatable(id, e)
      BY DEF applyPage
    <2>1. /\ head[id] # NoHead
          /\ session[head[id].reservation].max_spend = head[id].incremental
      BY <2>0 DEF Allocatable
    <2>2. head[id].reservation \in Reservation
      BY <2>0, <2>1, Present DEF Orderly, Typed, Heads
    <2>3. /\ reservation[head[id].reservation] # NoReservation
          /\ IdentityOf(head[id].reservation) = id
      BY <2>0, <2>1 DEF Orderly, HeadsNamed
    <2> QED
      BY <2>0, <2>1, <2>2, <2>3 DEF Headed, Payer, HeadUser, Owe, Hold
  <1>3. ids \in SUBSET Headed
    BY <1>2
  <1>4. /\ IsFiniteSet(ids) /\ IntOn(Owe, ids) /\ Debits(ids) = GroupSums(Owe, Payer, ids, User)
    BY <1>3, Owes DEF Orderly
  <1>5. ASSUME NEW u \in User
        PROVE  reserved'[u] = SumFunctionOnSet(Hold', Own(u))
    <2> PICK f, g, S, J, T : /\ f = Hold /\ g = Hold' /\ S = Own(u)
                             /\ J = GroupOf(Payer, ids, u) /\ T = ImageOf(k, J)
      OBVIOUS
    <2>1. /\ IsFiniteSet(S) /\ S \in SUBSET Reservation /\ IntOn(f, S)
          /\ SumFunctionOnSet(f, S) \in Int
      BY HoldInts DEF Orderly
    <2>2. J \in SUBSET ids /\ T \subseteq S
      BY <1>2 DEF GroupOf, ImageOf, Own
    <2>3. IsFiniteSet(J) /\ IntOn(Owe, J)
      BY <1>4, <2>2, FS_Subset DEF IntOn
    <2>4. OneToOne(k, J) /\ FollowsOn(Owe, f, k, J)
      BY <1>2, <2>2 DEF OneToOne, FollowsOn
    <2>5. SumFunctionOnSet(f, T) = SumFunctionOnSet(Owe, J)
      BY <2>3, <2>4, SumImage
    <2>6. SumFunctionOnSet(Owe, J) = Debits(ids)[u]
      BY <1>4 DEF GroupSums
    <2>7. \A r \in S : g[r] = IF r \in T THEN 0 ELSE f[r]
      <3> SUFFICES ASSUME NEW r \in S PROVE g[r] = IF r \in T THEN 0 ELSE f[r]
        OBVIOUS
      <3>1. ASSUME r \in ImageOf(k, ids) PROVE r \in T
        <4> PICK id \in ids : r = k[id]
          BY <3>1 DEF ImageOf
        <4>1. reservation[r].user = u
          BY DEF Own
        <4>2. Payer[id] = u
          BY <1>2, <4>1
        <4>3. id \in J
          BY <4>2 DEF GroupOf
        <4> QED
          BY <4>3 DEF ImageOf
      <3>4. r \in T => r \in ImageOf(k, ids)
        BY <2>2 DEF ImageOf
      <3>2. NoSession.max_spend = 0
        BY DEF NoSession
      <3> QED
        BY <1>1, <2>1, <3>1, <3>2, <3>4 DEF Hold
    <2>8. IntOn(g, S) /\ ZeroOn(g, T) /\ SameOn(f, g, S \ T)
      BY <2>1, <2>2, <2>7 DEF IntOn, ZeroOn, SameOn
    <2>9. IsFiniteSet(T) /\ IsFiniteSet(S \ T)
      BY <2>1, <2>2, FS_Subset, FS_Difference
    <2>10. /\ SumFunctionOnSet(f, S) = SumFunctionOnSet(f, T) + SumFunctionOnSet(f, S \ T)
           /\ SumFunctionOnSet(g, S) = SumFunctionOnSet(g, T) + SumFunctionOnSet(g, S \ T)
      BY <2>1, <2>2, <2>8, SumSplit
    <2>11. SumFunctionOnSet(g, T) = 0
      BY <2>8, <2>9, SumZero
    <2>12. SumFunctionOnSet(f, S \ T) = SumFunctionOnSet(g, S \ T)
      BY <2>8, <2>9, SumSame
    <2>13. SumFunctionOnSet(f, T) \in Int /\ SumFunctionOnSet(f, S \ T) \in Int
      <3>1. S \ T \subseteq S
        OBVIOUS
      <3> QED
        BY <2>1, <2>2, <3>1, Restricted
    <2>14. reserved'[u] = reserved[u] - SumFunctionOnSet(f, T)
      BY <1>1, <2>5, <2>6
    <2>15. reserved[u] = SumFunctionOnSet(f, S)
      BY DEF HeldFor
    <2>16. reserved'[u] = SumFunctionOnSet(f, S \ T)
      BY <2>10, <2>13, <2>14, <2>15
    <2>17. SumFunctionOnSet(g, S) = SumFunctionOnSet(g, S \ T)
      BY <2>10, <2>11, <2>12, <2>13
    <2> QED
      BY <2>12, <2>16, <2>17
  <1> QED
    BY <1>0, <1>5 DEF HeldFor

\* The spend summary of a user is the sum of the user's sessions at all times.
THEOREM SummaryExact == Spec => []ReservedIsOutstanding
  <1>1. Init => HeldFor
    <2> SUFFICES ASSUME Init PROVE HeldFor
      OBVIOUS
    <2>1. \A u \in User : reserved[u] = 0 /\ Own(u) = {}
      BY DEF Init, Own
    <2> QED
      BY <2>1, SumEmpty DEF HeldFor
  <1>2. Orderly /\ HeldFor /\ [Next]_vars => HeldFor'
    <2> SUFFICES ASSUME Orderly, HeldFor, [Next]_vars PROVE HeldFor'
      OBVIOUS
    <2>0. Typed
      BY DEF Orderly
    <2>1. CASE Reserve
      BY <2>0, <2>1, HoldReserved
    <2>2. CASE (Receipts \/ Close \/ Expire) /\ ~Reserve
      BY <2>0, <2>2, HoldReceipts
    <2>3. CASE SettlePage /\ ~Reserve
      BY <2>3, HoldSettled
    <2>4. CASE /\ ~Reserve
               /\ \/ Deposits \/ Disputes \/ Registrations \/ Bindings \/ FreezeEpoch \/ SealEpoch
                  \/ UNCHANGED vars
      <3>1. UNCHANGED <<reserved, session>>
        BY <2>4, DepositFrame, ProviderFrame, EpochFrame DEF vars, accounts, sessions
      <3>2. \A u : Own(u)' = Own(u)
        BY <2>0, <2>4, OwnKept
      <3> QED
        BY <3>1, <3>2 DEF HeldFor, Hold
    <2> QED
      BY <2>1, <2>2, <2>3, <2>4 DEF Next
  <1>3. Orderly /\ HeldFor => ReservedIsOutstanding
    <2> SUFFICES ASSUME Orderly, HeldFor, NEW u \in User
                 PROVE  reserved[u] = SumFunction([r \in Own(u) |-> session[r].max_spend])
      BY DEF ReservedIsOutstanding, Own
    <2> PICK g : g = [r \in Own(u) |-> session[r].max_spend]
      OBVIOUS
    <2>1. SumFunction(g) = SumFunctionOnSet(g, Own(u))
      BY SumWhole
    <2>2. IsFiniteSet(Own(u)) /\ SameOn(g, Hold, Own(u))
      BY HoldInts DEF Orderly, SameOn, Hold, Own
    <2>3. SumFunctionOnSet(g, Own(u)) = SumFunctionOnSet(Hold, Own(u))
      BY <2>2, SumSame
    <2> QED
      BY <2>1, <2>3 DEF HeldFor
  <1> QED
    BY <1>1, <1>2, <1>3, LedgerOrderly, PTL DEF Spec

-----------------------------------------------------------------------------
(***************************************************************************)
(* A billing id is billed once.                                            *)
(***************************************************************************)
\* A first attempt starts from nothing.
FirstFromZero ==
    \A r \in Reservation :
        reservation[r] # NoReservation /\ reservation[r].attempt = 0 => reservation[r].prior = 0

\* Every step keeps the baseline of first attempts.
LEMMA FirstStep == Typed /\ FirstFromZero /\ [Next]_vars => FirstFromZero'
  <1> SUFFICES ASSUME Typed, FirstFromZero, [Next]_vars, NEW x \in Reservation,
                      reservation'[x] # NoReservation, reservation'[x].attempt = 0
               PROVE  reservation'[x].prior = 0
    BY DEF FirstFromZero
  <1>1. CASE ~Reserve
    BY <1>1, ReservationStep DEF FirstFromZero
  <1>2. CASE Reserve
    <2> PICK r \in Reservation, u \in User, p \in Provider, b \in Billing, a \in Attempt,
             spend \in MaxSpend : \E prior \in VoucherBaselines(a) :
                 spendReserveTargeted(r, u, p, b, a, prior, spend)
      BY <1>2 DEF Reserve
    <2> PICK prior \in VoucherBaselines(a) : spendReserveTargeted(r, u, p, b, a, prior, spend)
      OBVIOUS
    <2> PICK new : new = [status |-> "active", user |-> u, provider |-> p,
                          revision |-> ActiveRevision(p, ActiveBillingEpoch),
                          billing |-> b, attempt |-> a, prior |-> prior,
                          epoch |-> ActiveBillingEpoch]
      OBVIOUS
    <2>1. reservation' = [reservation EXCEPT ![r] = new] /\ new.attempt = a /\ new.prior = prior
      BY DEF spendReserveTargeted
    <2>2. a = 0 => prior = 0
      BY DEF VoucherBaselines
    <2>3. x # r => reservation'[x] = reservation[x]
      BY <2>1 DEF Typed, SessionsTypeOK
    <2>4. x = r => reservation'[x] = new
      BY <2>1 DEF Typed, SessionsTypeOK
    <2> QED
      BY <2>1, <2>2, <2>3, <2>4 DEF FirstFromZero
  <1> QED
    BY <1>1, <1>2

\* The attempts of b up to the n-th, and what the n-th one's receipts reached.
Row(b, n) == {<<b, a>> : a \in 0..n}
Reached(b, n) == head[<<b, n>>].cum

\* An attempt with a head owes what it reached beyond the attempt before it.
LEMMA AttemptOwes ==
    ASSUME Typed, HeadsNamed, AttemptChain, FirstFromZero, NEW b \in Billing,
           SameBaselines(b), NEW n \in Attempt, head[<<b, n>>] # NoHead
    PROVE  /\ n \in Nat /\ <<b, n>> \in Identity /\ Reached(b, n) \in Nat
           /\ Owe[<<b, n>>] \in Nat \ {0}
           /\ n = 0 => Owe[<<b, n>>] = Reached(b, n)
           /\ n > 0 => /\ n - 1 \in Attempt /\ head[<<b, n - 1>>] # NoHead
                       /\ Reached(b, n - 1) \in Nat
                       /\ Owe[<<b, n>>] = Reached(b, n) - Reached(b, n - 1)
  <1> PICK h : h = head[<<b, n>>]
    OBVIOUS
  <1>1. n \in Nat /\ <<b, n>> \in Identity /\ (n > 0 => n - 1 \in Attempt /\ <<b, n - 1>> \in Identity)
    BY LedgerAssumption DEF Attempt, Identity
  <1>2. h \in Heads
    BY <1>1, Present DEF Typed
  <1>3. /\ h.reservation \in Reservation /\ h.cum \in Nat /\ h.incremental \in Nat \ {0}
    BY <1>2 DEF Heads
  <1>4. /\ reservation[h.reservation] # NoReservation
        /\ IdentityOf(h.reservation) = <<b, n>>
        /\ h.incremental = h.cum - reservation[h.reservation].prior
    BY <1>1 DEF HeadsNamed
  <1>5. reservation[h.reservation].billing = b /\ reservation[h.reservation].attempt = n
    BY <1>4 DEF IdentityOf
  <1>6. Owe[<<b, n>>] = h.incremental
    BY <1>1 DEF Owe
  <1>7. n = 0 => reservation[h.reservation].prior = 0
    BY <1>3, <1>4, <1>5 DEF FirstFromZero
  <1>8. n > 0 => /\ head[<<b, n - 1>>] # NoHead
                 /\ reservation[h.reservation].prior = Reached(b, n - 1)
    <2> SUFFICES ASSUME n > 0
                 PROVE  /\ head[<<b, n - 1>>] # NoHead
                        /\ reservation[h.reservation].prior = Reached(b, n - 1)
      OBVIOUS
    <2>1. h.reservation \in ReservationsOf(b, n)
      BY <1>3, <1>4, <1>5 DEF ReservationsOf
    <2>2. /\ head[<<b, n - 1>>] # NoHead
          /\ \E r \in ReservationsOf(b, n) : reservation[r].prior = head[<<b, n - 1>>].cum
      BY <2>1 DEF AttemptChain
    <2>3. \A r \in ReservationsOf(b, n) :
             reservation[h.reservation].prior = reservation[r].prior
      BY <2>1 DEF SameBaselines
    <2> QED
      BY <2>2, <2>3 DEF Reached
  <1>9. n > 0 => Reached(b, n - 1) \in Nat
    BY <1>1, <1>8, Present DEF Typed, Heads, Reached
  <1> QED
    BY <1>1, <1>3, <1>4, <1>6, <1>7, <1>8, <1>9 DEF Reached

\* Along the attempts of b what they owe adds up to what the last one reached.
LEMMA RowSums ==
    ASSUME Typed, HeadsNamed, AttemptChain, FirstFromZero, NEW b \in Billing,
           SameBaselines(b)
    PROVE  \A n \in Attempt : head[<<b, n>>] # NoHead =>
              /\ \A a \in 0..n : /\ a \in Attempt /\ head[<<b, a>>] # NoHead
                                 /\ Reached(b, a) <= Reached(b, n)
              /\ SumFunctionOnSet(Owe, Row(b, n)) = Reached(b, n)
  <1> DEFINE Summed(n) == /\ \A a \in 0..n : /\ a \in Attempt /\ head[<<b, a>>] # NoHead
                                             /\ Reached(b, a) <= Reached(b, n)
                          /\ SumFunctionOnSet(Owe, Row(b, n)) = Reached(b, n)
             Good == {n \in Nat : n \in Attempt /\ head[<<b, n>>] # NoHead => Summed(n)}
  <1>0. IntOn(Owe, Identity) /\ Attempt \subseteq Nat
    BY Owes, LedgerAssumption DEF Attempt
  <1>1. 0 \in Good
    <2> SUFFICES ASSUME 0 \in Attempt, head[<<b, 0>>] # NoHead PROVE Summed(0)
      OBVIOUS
    <2>1. /\ <<b, 0>> \in Identity /\ Reached(b, 0) \in Nat
          /\ Owe[<<b, 0>>] = Reached(b, 0)
      BY AttemptOwes
    <2>2. \A a \in 0..0 : a = 0
      OBVIOUS
    <2>3. Row(b, 0) = With({}, <<b, 0>>)
      BY <2>2 DEF Row, With
    <2>4. IntOn(Owe, With({}, <<b, 0>>))
      BY <1>0, <2>1 DEF IntOn, With
    <2> PICK x : x = <<b, 0>>
      OBVIOUS
    <2>5. SumFunctionOnSet(Owe, With({}, x)) = Owe[x] + SumFunctionOnSet(Owe, {})
      BY <2>4, SumIn, FS_EmptySet
    <2>6. SumFunctionOnSet(Owe, Row(b, 0)) = Reached(b, 0)
      BY <2>1, <2>3, <2>5, SumEmpty
    <2> QED
      BY <2>1, <2>2, <2>6
  <1>2. ASSUME NEW n \in Nat, n \in Good
        PROVE  n + 1 \in Good
    <2> SUFFICES ASSUME n + 1 \in Attempt, head[<<b, n + 1>>] # NoHead PROVE Summed(n + 1)
      OBVIOUS
    <2>1. /\ <<b, n + 1>> \in Identity /\ Reached(b, n + 1) \in Nat
          /\ Owe[<<b, n + 1>>] \in Nat \ {0}
          /\ n \in Attempt /\ head[<<b, n>>] # NoHead /\ Reached(b, n) \in Nat
          /\ Owe[<<b, n + 1>>] = Reached(b, n + 1) - Reached(b, n)
      <3> PICK m \in Attempt : m = n + 1
        OBVIOUS
      <3>1. m - 1 = n /\ m > 0 /\ head[<<b, m>>] # NoHead
        OBVIOUS
      <3> QED
        BY <3>1, AttemptOwes
    <2>2. Summed(n)
      BY <1>2, <2>1
    <2>3. ASSUME NEW a \in 0..(n + 1)
          PROVE  /\ a \in Attempt /\ head[<<b, a>>] # NoHead
                 /\ Reached(b, a) <= Reached(b, n + 1)
      <3>1. CASE a = n + 1
        BY <2>1, <3>1
      <3>2. CASE a \in 0..n
        <4>1. /\ a \in Attempt /\ head[<<b, a>>] # NoHead /\ Reached(b, a) <= Reached(b, n)
          BY <2>2, <3>2
        <4>2. Reached(b, a) \in Nat
          BY <4>1, AttemptOwes
        <4> QED
          BY <2>1, <4>1, <4>2
      <3> QED
        BY <3>1, <3>2
    <2>4. Row(b, n + 1) = With(Row(b, n), <<b, n + 1>>)
      <3>1. 0..(n + 1) = 0..n \cup {n + 1}
        OBVIOUS
      <3> QED
        BY <3>1 DEF Row, With
    <2>5. <<b, n + 1>> \notin Row(b, n) /\ Row(b, n) \in SUBSET Identity
      <3>1. \A a \in 0..n : a \in Attempt
        BY <2>2
      <3>2. \A a \in 0..n : a # n + 1
        OBVIOUS
      <3> QED
        BY <3>1, <3>2 DEF Row, Identity
    <2>6. IsFiniteSet(Row(b, n)) /\ IntOn(Owe, With(Row(b, n), <<b, n + 1>>))
      <3>1. IsFiniteSet(Row(b, n))
        BY <2>5, FiniteIdentity, FS_Subset
      <3> QED
        BY <1>0, <2>1, <2>5, <3>1 DEF IntOn, With
    <2> PICK x, S : x = <<b, n + 1>> /\ S = Row(b, n)
      OBVIOUS
    <2>7. SumFunctionOnSet(Owe, With(S, x)) = Owe[x] + SumFunctionOnSet(Owe, S)
      BY <2>5, <2>6, SumIn
    <2>8. SumFunctionOnSet(Owe, Row(b, n + 1)) = Reached(b, n + 1)
      BY <2>1, <2>2, <2>4, <2>7
    <2> QED
      BY <2>3, <2>8
  <1>3. Nat \subseteq Good
    <2> HIDE DEF Good
    <2> QED
      BY <1>1, <1>2, NatInductionSet
  <1> QED
    BY <1>0, <1>3

\* A non-empty set of attempts has a latest one.
LEMMA LatestAttempt ==
    ASSUME NEW S \in SUBSET Attempt, S # {}
    PROVE  \E n \in S : S \subseteq 0..n
  <1>0. MaxAttempt \in Nat /\ \A a \in S : a \in Nat /\ a <= MaxAttempt
    BY LedgerAssumption DEF Attempt
  <1> HIDE LedgerAssumption
  <1> DEFINE Below == {k \in Nat : \E m \in S : m >= k}
  <1>1. 0 \in Below
    <2> PICK m \in S : m \in Nat
      BY <1>0
    <2>1. m >= 0
      OBVIOUS
    <2> QED
      BY <2>1
  <1>2. MaxAttempt + 1 \in Nat /\ MaxAttempt + 1 \notin Below
    <2>1. \A m \in S : ~(m >= MaxAttempt + 1)
      BY <1>0
    <2> QED
      BY <1>0, <2>1
  <1>3. PICK k \in Nat : k \in Below /\ k + 1 \notin Below
    <2> HIDE DEF Below
    <2> SUFFICES ASSUME \A k \in Nat : k \in Below => k + 1 \in Below PROVE FALSE
      OBVIOUS
    <2>1. Nat \subseteq Below
      BY <1>1, NatInductionSet
    <2> QED
      BY <1>2, <2>1
  <1>4. \A m \in S : m < k + 1
    BY <1>0, <1>3
  <1>5. k \in S
    BY <1>0, <1>3, <1>4
  <1> QED
    BY <1>0, <1>4, <1>5

\* Of a buyer who renews no attempt under another baseline, all attempts of a
\* billing id together owe no more than the highest amount a receipt stated: the
\* increments along the attempts telescope to what the latest one reached.
THEOREM AttemptsBilledOnce == Spec => []BilledOnce
  <1>1. Init => FirstFromZero
    BY DEF Init, FirstFromZero
  <1>2. Typed /\ FirstFromZero /\ [Next]_vars => FirstFromZero'
    BY FirstStep
  <1>3. Typed /\ HeadsNamed /\ AttemptChain /\ FirstFromZero => BilledOnce
    <2> SUFFICES ASSUME Typed, HeadsNamed, AttemptChain, FirstFromZero, NEW b \in Billing,
                        SameBaselines(b)
                 PROVE  LET heads == {a \in Attempt : head[<<b, a>>] # NoHead}
                        IN  heads # {} => SumIncremental({<<b, a>> : a \in heads})
                                             <= Max({head[<<b, a>>].cum : a \in heads})
      BY DEF BilledOnce
    <2> DEFINE heads == {a \in Attempt : head[<<b, a>>] # NoHead}
               top == {head[<<b, a>>].cum : a \in heads}
    <2> SUFFICES ASSUME heads # {}
                 PROVE  SumIncremental({<<b, a>> : a \in heads}) <= Max(top)
      OBVIOUS
    <2>1. PICK n \in heads : heads \subseteq 0..n
      <3>1. heads \in SUBSET Attempt
        OBVIOUS
      <3> HIDE DEF heads
      <3> QED
        BY <3>1, LatestAttempt
    <2>2. /\ \A a \in 0..n : a \in heads /\ Reached(b, a) <= Reached(b, n)
          /\ SumFunctionOnSet(Owe, Row(b, n)) = Reached(b, n)
      BY RowSums
    <2>3. {<<b, a>> : a \in heads} = Row(b, n)
      BY <2>1, <2>2 DEF Row
    <2>4. Row(b, n) \in SUBSET Headed
      BY <2>2 DEF Row, Headed, Identity
    <2>5. SumIncremental(Row(b, n)) = Reached(b, n)
      BY <2>2, <2>4, Owes
    <2>6. Reached(b, n) \in top /\ \A y \in top : Reached(b, n) >= y
      BY <2>1, <2>2, AttemptOwes DEF Reached
    <2>7. Max(top) \in top /\ \A y \in top : Max(top) >= y
      <3> HIDE DEF top
      <3> QED
        BY <2>6 DEF Max
    <2>8. Reached(b, n) \in Nat
      BY AttemptOwes
    <2>9. Max(top) >= Reached(b, n) /\ Max(top) \in Nat
      BY <2>6, <2>7, AttemptOwes DEF Reached
    <2>10. SumIncremental({<<b, a>> : a \in heads}) = Reached(b, n)
      BY <2>3, <2>5, Zenon
    <2> HIDE DEF heads, top
    <2> QED
      BY <2>8, <2>9, <2>10
  <1> QED
    BY <1>1, <1>2, <1>3, LedgerTyped, LedgerNamed, AttemptsChain, PTL DEF Spec
=============================================================================
