# Verification of OpenMayhem's value path

OpenMayhem is a market for inference: buyers prepay credit, a gateway dispatches
jobs to providers, providers return usage receipts both sides sign, and an admin
settles the receipts of an epoch into provider earnings, an operator fee and, on
the TAP rail, a burn. This directory models the parts of the code that decide
who owes what to whom and that must survive crashes, lost messages and races:
the escrow contract and the ledger, the receipt outboxes, the gateway's job
vault, the fiat paygate and the node supervisor. TLC checks the models on small
instances; TLAPS proves the central results for every instance. All paths below
are relative to the repository.

## 1. Inventory

| Component | State it keeps | Operations | What is hard | Module |
|---|---|---|---|---|
| TAP escrow, `contracts/src/MayhemInferencePool.sol` | deposits, claims, fee, burn, roots, pending proposals, nonce, owner | deposit; propose and execute of root, cap, rescue; claim; withdraw; burn; ownership | signatures that outlive their state, no cancel, delayed execution, floors that do not add up | `MayhemInferencePool` |
| Ledger contract, `intercom/contract/contract.js` | balances, holds, sessions, receipt heads and indexes, freezes, ingress cursor, apply state, earnings, fee, burn, payout bindings, ... | one method per operation, applied one at a time in consensus order | any order of buyers', providers' and admin's operations; an epoch settled by many operations | `SpendLedger` |
| Settlement builder, `intercom/scripts/recompute-epoch-roots.mjs` and its driver scripts | one epoch's snapshot, commit and pages | snapshot, recompute, page, submit, resume | snapshots that go stale | `SpendLedger` (the commit) |
| Provider worker, `crates/mayhem-cli` | receipt outbox, reservation journal, output replay | serve, sign, queue, submit, recover | crash inside a persist, lost answers, closing a reservation too early | `ReceiptOutbox` |
| Gateway, `crates/mayhem-gateway` | job vault, receipt outbox, provider table, streams | begin, stage, hand off, finish, recover, evict, expire | crash between two writes, handler racing recovery, a disk that fails half-way | `GatewayJobs`, `JobLifecycle`, `ReceiptOutbox` |
| Paygate, `services/paygate` | event log and index, backfill cursor, account log, consents, exchange attempts | webhook, backfill, onboard, rotate, adopt, relink, OAuth return, deauthorise | events twice or never, answers lost, the same consent carried twice, crash around an external effect | `StripeEvents`, `StripeConnect` |
| Supervisor, `crates/mayhemd` | table of children, tasks, processes | add, remove, start, restart, stop | a request at any step of a task; state keyed by name while an old task still runs | `Supervisor` |
| Payouts, roller, watchers, transport, pricing, engines | see `PROJECT.json` | | | not modelled, section 11 |

How they interact: buyers, providers and the admin reach the ledger only through
its operations. The gateway's failover produces the *attempts* of a billing id
that the ledger chains. A provider session produces receipts; provider and
gateway each queue a copy in an outbox and submit it to the ledger, and the
gateway's recovery worker finishes the job once the ledger shows its closure.
The paygate turns Stripe events into `fiatDeposit` and `fiatChargeback`, the
deposit watcher turns pool deposits into `tapDeposit`, and the roller turns the
ledger's cumulative earnings into the pool's roots. The supervisor starts all
long-running processes again after a crash, which the other models take as
fairness of `Restart`.

What makes the components correct:

* escrow: outflow never exceeds deposits, shares stay within the spend, claims
  match posted roots, nothing accepted is stranded;
* ledger: credit is promised once and charged once, every unit debited arrives as
  earning, fee or burn, an epoch is settled over exactly its receipts, an honest
  receipt is eventually settled and an abandoned hold released;
* outbox: signed evidence is never dropped before the ledger or higher evidence
  has it, and never kept for ever by the provider;
* vault: a key runs once, a debt is neither forgotten nor ended unsettled;
* paygate: every payment and dispute is applied exactly once and recorded, every
  account binding rests on the consent it needs, a code is exchanged once;
* supervisor: status is true, stopped children end, wanted children return.

## 2. Modules and order of work

1. `MayhemInferencePool`, `InferencePoolProofs`: the escrow.
2. `SpendLedger`, `SpendLedgerProofs`: deposits to settled receipts.
3. `ReceiptOutbox`, `ReceiptOutboxProofs`: receipts from session to ledger.
4. `GatewayJobs`, and `JobLifecycle` as what it promises: the vault and its
   recovery. `GatewayJobsProofs` proves the vault's invariants and that it
   implements the lifecycle.
5. `StripeEvents`, `StripeEventsProofs`, `StripeConnect`, `StripeConnectProofs`: the
   paygate.
6. `Supervisor`, `SupervisorProofs`: the node supervisor.
7. `SumProofs`: induction and the laws of finite sums, for the proofs of 2, 4 and 5.

All of these are done. Each `MC...` module holds the definitions its `.cfg` files
need to instantiate a component. `ReceiptOutbox` composes the provider's and the
gateway's process with the part of the ledger that decides on receipts;
`StripeEvents` composes Stripe, the paygate and the ledger's fiat operations;
`GatewayJobs` composes handlers, worker, vault and disk. The ledger appears in
those modules as the few rules they meet, translated from the same lines of
contract.js as `SpendLedger`.

Every module states a `TypeOK`. It is proved in all of them but
`StripeConnect`, whose invariant types the OAuth flow, the log and the store as far
as its theorems need it; no run lists it, TLC evaluated all of them while the
models were built.

## 3. The TAP escrow (`MayhemInferencePool`)

Each external function of the Solidity contract is an action of the same name.
A `require` is a conjunct of the guard; a revert is a step that does not happen.
A Merkle root is the set of its leaves, a proof is membership, and a signature
is membership of the message in `signed`, which only the governance key's
actions extend; a signature is over the nonce, epoch and spend of the moment
it is made, and may be submitted at any later time. `DirectTransfer` stands for
tokens sent to the pool without a call, `deposit` for tokens that may charge a
fee on transfer, and a payout to the pool's own address moves nothing.
Ownership transfer follows OpenZeppelin's `Ownable2Step`, which is external.

`pool_governance`: one claimant, two epochs, delay 1, a cap of 7 that may be raised
to 8 or (refused off a local chain) removed, spends of 6 and 7, owner rotation
towards a claimant and towards the governance key, time up to 3. No pending
proposal is ever made unexecutable, claims match posted roots, outflow stays
within deposits, the shares overlap by at most one wei, and under fairness every
pending root lands. The bounds (`MaxInflow`, `MaxSigned`, `MaxTime`) are just large
enough for a root to be proposed, delayed, posted and claimed while a second
proposal waits; the burn's share falls from 2 to 1 between spends 6 and 7.
Fairness: block time advances by itself and execution is permissionless (the
roller calls it every epoch), hence weak fairness of `Tick` and of the three
`execute` actions; no proposal, deposit or claim is assumed to happen.

## 4. The spend ledger (`SpendLedger`)

The contract is a deterministic state machine: peers apply operations one after
the other, and an operation that returns an `Error` writes nothing. So each
operation is one atomic action, every `return new Error` that depends on state
is a conjunct of its guard, and an exact resubmission is a stuttering step.

| State | Code |
|---|---|
| `balance`, `deposit`, `disputed`, `clawed`, `absorbed` | `bal/...`, `dep/...`, the chargeback and reversal records and their cumulative amounts |
| `reserved`, `session` | the targeted spend summary and its session records, kept in step by five operations |
| `anchor`, `reservation`, `head` | `receipt_billing_anchor`, `receipt_reservation_identity`, `canonical_receipt_head` |
| `index`, `frozen`, `ingress` | the canonical receipt epoch index, `epoch/freeze/<e>`, `receipt/ingress` |
| `updated_epoch`, `pending`, `consumed`, `gross` | `epoch/apply/state` with the commit page zero fixed, consumption records, `epoch/earning-provider/...` |
| `earned`, `feeCum`, `burnCum` | earning totals, fee and burn records |
| `registration`, `pointer` | `prov/...` with its serve record; the payout binding pointer |

| Action | Code |
|---|---|
| `creditDeposit`, `fiatChargeback`, `tapDepositReversal` | tapDeposit and fiatDeposit, fiatChargeback, tapDepositReversal |
| `banProvider`, `unban`, `joinEnclave`, `leaveEnclave`, `setProviderRails`, `bindProviderPayout` | the operations of these names |
| `spendReserveTargeted` | applyTargetedSpendReserveFeature with prepareBillingReservation |
| `recordUsageReceipt`, `recordFinalReceipt` | applyRecordUsageReceiptFeature, without and with `final` |
| `closeUsageReservation`, `expireUsageReservation` | applyCloseUsageReservationFeature, for the provider and, past expiry and grace, the buyer |
| `epochFreeze`, `epochSealEmpty` | the operations of these names |
| `commitApplyTargetedEpochPage0`, `applyTargetedEpoch` | the commit with page zero and the later pages: applyTargetedEpochFeature, targetedEpochApply, nextEpochApplyState |

Abstractions: one rail per instance (the records of the rails are disjoint);
session ids are one to one with reservation ids; signatures, price terms and
shapes are checked before state is read and are left out; hashes and Merkle
roots are the values they commit to; the admin's timestamps are inputs that can
always be chosen late enough; market usage and price evidence ride along with a
page and are not modelled; records of the pre-shard format (`legacy`) are not
modelled. A page is any set of ready receipts of the epoch: the admin may cut an
epoch as it likes. The commit carried by page zero is the one the builder derives
(`EpochCommit`), since only a commit with those totals can ever be completed. What
settled receipts become afterwards (holdback, liabilities, payouts) is not part
of the module; nor is a provisional commit that is superseded before page zero.

| Run | Instance | What it shows |
|---|---|---|
| `ledger_billing` | one buyer and provider, two billing ids, up to three attempts, three reservations, two epochs; a deposit of 8 with a chargeback of 5, a ban, a rail change and a payout rotation at any point | summary and sessions agree; a later attempt is opened where its predecessor ended, and of an attempt's reservations at most one is charged; what is billed over all attempts of a billing id, if renewals repeat their baseline, is at most the highest cumulative amount; superseded evidence never moves; holds exceed a balance only by what disputes took; books stay balanced |
| `ledger_settlement` | two buyers, two providers, three receipts of 6 or 10 units on TAP, index pages of one entry, batches of four, two epochs, one deposit reversible | neutrality of paging, reachability of the commit, completeness of the epoch, single indexing although duplicates are searched in the last page only, an always open ingress |
| `ledger_liveness` | one billing id, two reservations and attempts, four epochs | every reservation is resolved, every ready receipt settled |
| `ledger_rotation` | as above with a payout rotation | **violation**, see Findings |

Bounds: 6 and 10 straddle the points where 15% and 10% are floored (6 and 10
alone, 12, 16 and 20 together), so every cut of an epoch rounds differently if it
is done per page. Two epochs are enough for a receipt to arrive while the epoch
before it is frozen, being paged or sealed; four are needed for expiry plus
grace. `IndexPageSize` 1 or 2 makes pages fill. Three reservations allow an
attempt to be closed without a receipt, renewed and followed by the next.
`MaxEpoch`, `LastReserveEpoch`, `MaxAttempt`, `MaxSeq` and `MaxRevision` bound
counters that the code leaves open to 2^53. Reservation, billing and provider
ids are symmetric in the safety runs. A voucher for a later attempt claims any of
`Baseline` = {0, 2, 4}, of which 2 and 4 are amounts that receipts reach: the
contract compares the claim only when an attempt advances, not when it is renewed.
`BilledOnce` is therefore stated for billing ids whose renewed vouchers repeat the
baseline of the voucher they renew (`SameBaselines`), as the gateway's do: it signs
the cumulative amount of the prior receipt
(`crates/mayhem-gateway/src/openai.rs:13383`).

Fairness: the admin's settlement job keeps freezing, sealing and submitting
pages (`scripts/ops-settle-epoch.sh` runs per epoch and resumes), and buyers
expire what providers left open; each of these is weakly fair. Nobody is assumed
to deposit, to reserve or to send receipts. The liveness run has no disputes,
bans, rail changes or rotations, because each of them can stop an epoch
(hazards at contract.js:10472, :4848 and :17184): a dispute until the buyer
deposits again, a ban or a dropped rail until reverted, a rotation for ever.

## 5. Receipts on their way to the ledger (`ReceiptOutbox`)

Code: `ReceiptSettlementOutbox` and its submitters in
`crates/mayhem-cli/src/main.rs` (60438-61126), the provider's receipt exchange
(84373-84550), `provider_failure_recovery.rs`, and the gateway's side in
`openai.rs` and `failure_recovery.rs`. Provider and gateway each own an outbox
directory. `files[o]` is what lies in it, `writing[o]` the persist that holds the
lock between its `hard_link` and the removal of the superseded file, so a crash
or a failed call on the disk (`PersistFails`) can leave both. `Open` records the
reservation on the ledger and `Admit` writes the journal; a session that ends
between the two leaves a reservation no journal names, which only the buyer's
expiry closes. `task[o][w]` is the submission a worker waits for: the fresh
worker submits what was just queued, the retry loop the winner of each attempt.
Frames (`handoff`), submissions (`wire`) and closes (`closeWire`) may be lost,
late or applied after their sender gave up or died. The ledger is its rule for a
receipt and for a close. A receipt is its attempt, sequence number and finality:
usage and owed amount grow with the number in everything a provider signs.

| Run | Instance | What it shows |
|---|---|---|
| `outbox_safety` | one attempt, two receipts, both workers of both outboxes, buyer expiry, one crash or failed persist | the directory always loads; evidence leaves it only for higher evidence or once canonical; the provider's own close never overtakes its queue |
| `outbox_liveness` | one attempt, two receipts, retry worker, one crash, no buyer expiry | what the provider queued is relayed and leaves; every journaled reservation is closed and forgotten |

`OutboxAssumption` asks `MaxSessions <= Reserve`: the sessions a provider runs at
once fit in the admission reserve (in the code both are constants). `persist`
refuses also a receipt that would replace another when the outbox is full.
Fairness: locks are released, a crashed process is restarted (by the supervisor),
the retry loop and the recovery task never stop, sessions end, and an answer
awaited again and again is heard in the end (strong fairness); without the last,
a network that always fails at the answer keeps an entry for ever. Recovery passes
over eight journal entries at a time; that it comes round to each is assumed by the
fairness per attempt and not checked.

`outbox_liveness` has a disk that works (`DiskFaults = FALSE`). A superseded file
that a failed persist leaves is not removed while the process runs: once its
successor is accepted and removed it is the winner again, the ledger refuses it as
stale, and it stays until a start compacts the directory; `ProviderEntriesRetire`
fails with `DiskFaults = TRUE`. Nothing is lost by it, which `outbox_safety` and
the theorems show with the fault.

## 6. The gateway's jobs (`GatewayJobs`, `JobLifecycle`)

Code: `crates/mayhem-gateway/src/job_store.rs`, the handler's calls in
`openai.rs`, and the recovery worker (`openai.rs` 3780-3900,
`openai/failure_recovery.rs`). The vault is one value behind a mutex, with its
memory (`records`, `recovery`, `active`) and its directory (`disk`); its operations are operators that
return the vault after the call and whether the call succeeded, with a disk that
may refuse a write, or fail after the rename when the directory is synced. A
handler takes a job through staging, handoff, queueing and its end; the worker
takes pending jobs in passes of bounded size, reads a copy, asks the provider or
the ledger, and writes back. A job may fail over: the next attempt's voucher replaces
the evidence and keeps the receipt before it as `prior` (`prior_attempt_receipt`),
which a checkpoint or final receipt of the new attempt drops, as a third attempt drops
the first one's (failure_recovery.rs:14-35, openai.rs:3348). Each attempt has a
reservation of its own on the ledger, and the worker looks at the one its record names.
A confirmed closure replaces the stored receipt by the ledger's head, which may be an
earlier checkpoint than the stored final receipt (`Proven`, failure_recovery.rs:304-311).
`EvidenceKept` therefore says by what evidence may be replaced (`Supersedes`): the
closure of the same attempt, evidence of the attempt that is no weaker, or the voucher of
a later attempt that keeps it. `JobLifecycle` is what DURABLE_STREAMING.md promises
of an idempotency key, and `ImplementsLifecycle` says that `GatewayJobs`
implements it under the mapping `LifeOf`, which reads the status the next start
would see.

| Run | Instance | What it shows |
|---|---|---|
| `jobs_recovery` | one job of up to three attempts, all three ends, one crash, one disk fault, two seconds | no end without settlement, the end that was staged, no second execution, evidence replaced only by what supersedes it |
| `jobs_lifecycle` | two jobs, one live slot, three bytes, one attempt each, one never settled, passes of one job, one crash | the vault opens again whatever was evicted; refinement of `JobLifecycle`; the other job is settled although one never is |

Three attempts are the fewest in which a receipt kept by one failover is dropped by
the next; a longer chain repeats this. Assumptions: a key is not used again while
recovery still holds its earlier job (`ReuseEarly = FALSE`), which `begin` does not
check and DURABLE_STREAMING.md:75 asks of clients (with TRUE see Findings), and one
request per key runs at a time. The ledger's head is a receipt the gateway acknowledged
and hence had stored. The fingerprint that ties a key to one request is left out, and so
is an identical completion sent twice, which changes nothing (job_store.rs 400-413).
A final receipt of an earlier contract version is confirmed on the ledger and not queued
again (openai.rs:3840-3855); `RecoveryQueues` stands for both. Fairness:
the gateway is up again and again, the worker's loop does not stop, and the
reservation of every job outside `Stuck` is closed in the end (which
`ReservationsClose` and the buyer's expiry show elsewhere).

## 7. The paygate (`StripeEvents`, `StripeConnect`)

`StripeEvents` (lib.rs, webhook, `handle_stripe_event`, event store, backfill):
Stripe delivers an event several times or never; webhook requests and the
backfill loop claim it, post a deposit or chargeback, prove the ledger's state
and append the record. Every lock region and await is a step; a posted feature
lives on after its sender; only log and cursor survive a crash.

`stripe_events`: one webhook request beside the backfill; a payment of 3 cents
whose disputes of 1 and 2 take all of it; the payment and one dispute never reach
the webhook (`Silent`), the other dispute reaches both; two deliveries per event, one
lost answer or refused write, one crash, any request dropped at any await, any event
created at any moment. The log never runs ahead of the ledger and every amount is
exact. `NothingSkipped`: an event that only the backfill brings is on the ledger once
the cursor has passed it, except one created between the lists of a pass (`late`, see
Findings); it is in the log too unless the disk refused its record, since `complete`
remembers an event before it writes (lib.rs:4857) and the next pass moves past it as
a duplicate. A payment whose record was refused is not indexed, so its disputes are
then taken for unrelated (`unwritten`). `SilentRecorded`: such an event does reach the
ledger, as long as no dropped request holds its deposit (`Wedged`): the request of
a dispute dropped between `reserve_chargeback` and `complete` leaves its hold until
the next restart (lib.rs:4941), and every other dispute of the deposit is refused
meanwhile. A payment with refused metadata ends each pass at its place, so what is
not older waits behind it (`Reached`); `stripe_events` has none, and with one
(`Malformed`) it passes too, in five times the time. Deadlock is checked. Fairness:
the handlers run on as long as they are not dropped, the backfill loop comes round,
the process is restarted, and a posted feature is applied.

`StripeConnect` (lib.rs, Connect accounts): onboarding, rotation, adoption of a
Standard account, relink, the OAuth answer through the browser or, where a bridge is
configured (`bridged`; the return pages then answer 404), through the loop that polls
it, deauthorisation, crash. State and code of an answer are independent. The account
log, the consents and the exchange attempts are on disk before memory changes; claims
of running requests are lost in a crash, and kept when a request is dropped at an
await, for there is no guard that gives them up (lib.rs:3124). `persist_record` may
fail with nothing, all or a part of the line on disk (`InsertFails`, `Torn`), and its
retry makes a line with another second. For the other logs only the failure that
leaves nothing is modelled.

`stripe_connect`: two providers, one account Stripe makes and one Standard account,
one code, two consents, one deauthorisation, one failing append, one crash, with and
without a bridge. `LogReloads`: memory is what `load` makes of the log without the lines of
failed appends that it has not read back, and `load` accepts those lines; so without
a failure a restart neither fails nor forgets, and after one it forgets nothing if it
succeeds (see Findings). No code and no consent is presented twice, and every line is
of an account made for its provider, chosen by its holder when nobody held it, or
signed over by an earlier holder with the OAuth answer a Standard account needs.
`ConsentEnds` is about the bridge only: its loop is nobody's request and closes a
consent whether or not the exchange succeeds. Of a consent answered through the
browser nothing is promised, since the browser may go away. Fairness: the loop comes
round, polls each pending consent again and again (strong, because a pass of the loop
alternates with others) and the process is restarted; the bridge service is assumed
to keep an answer. Consents expire only after an answer exists.

## 8. The supervisor (`Supervisor`)

Code: `crates/mayhemd/src/main.rs` 336-746 and 1239-1460. A task is a
`supervise_child_component` with its current `supervise_child`; `step` says between
which two awaits it is. The table of children is keyed by name only and every
change of it is followed by a write of the state file, whose failure unwinds the
task (and kills its process through the dropped handle) or, in four places, is
only logged. `Add`, `Remove` and `Shutdown` come at any step of any task.

`supervisor`: a worker with restart from the configuration and a child without,
two tasks in all, two failing writes, threshold 2; exits and failed starts without
bound. Two tasks are enough for a removed child to overlap with its successor.
`StatusTruthful` holds for a child whose predecessors under the same name had
ended when it was added (`alone`); without that condition it does not hold, see
Findings. `TasksObey`: a task told to stop ends without a process, shutdown
completes, and a wanted child is started again. Fairness: the runtime schedules
every task, and a start that is tried again and again succeeds in the end;
nothing is assumed of requests or of how long processes live.

Deadlock is checked only in `stripe_events`: the bounds end the behaviours of the
other instances.

## 9. Proofs

`InferencePoolProofs` (constants: `PoolAssumption`; the governance key is not the
owner, caps are positive off a local chain, roots are sets of leaves):

* `PoolTypeCorrect`: TypeOK is inductive as it stands.
* `PoolSolvent`, `OperatorCapped`, `SharesNearlyDisjoint` from the inductive
  `SharesInv`. Solvency is inductive with the types. The burn needs a
  strengthening, `BurnWithinTenth` (20 * burned <= 2 * spent + 34), because the cap
  it is checked against can fall while this bound cannot; `ShareBounds` gives the
  floors' bounds and `OperatorCapMonotone` keeps the operator's part.
* `PendingStaysExecutable`: `GovernanceNeverStalls` given solvency, which makes the
  rescuable surplus the plain difference of balance and escrow
  (`SurplusIsDifference`), a quantity no payout lowers.
* `ClaimsAreRooted`: `ClaimsMatchRoots`.

`SpendLedgerProofs` (constants: `LedgerAssumption`; any sets of users, providers,
ids and deposits, all finite, any bounds, fee up to 15%):

* `LedgerTyped`: the account, session, epoch and provider parts of TypeOK, as an
  invariant. `LedgerTypeOK` adds `SettledTypeOK`, which ranges over sums of receipts
  and therefore comes after the theorems about them.
* `HoldsBacked`: `ReservedBacked`. Inductive with the types: a reservation compares
  the sum of holds with the balance, a page debits both alike (its debits are
  bounded by both), a dispute moves credit from `balance` to `clawed`.
* `IngressOpen`: from `CursorInStep`, which says exactly which epochs are frozen
  (those from the cursor's activation up to the one before `next`) and that the
  cursor is at most two past the apply state, exactly two while an epoch is
  pending.
* `BatchesFixed` (no step changes the index of a frozen, pending or settled
  epoch), `EvidenceImmutable`: action properties, from the types and lemmas that
  say how a step may change an index (`IndexStep`) or a head (`HeadStep`).
* `AttemptsChain`: for any baselines. Its first half (`Opened`) needs `AnchorsAhead`
  and `AnchorsMet` (an anchor is behind none of its billing id's reservations, one
  of which is of its latest attempt, and all are its buyer's), so that the head an
  attempt was opened from can no longer advance and a renewal finds the opener
  there. The second half (`RenewedUnused`) needs `ActiveHeld` (an active reservation
  has a session, not yet ready to settle): the attempt that is renewed has no
  session and no head, so its reservations are closed and can never be charged
  (`UnusedStays`).
* `LedgerNamed`: every head belongs to a reservation of its own attempt and owes its
  cumulative amount less that reservation's baseline (`HeadsNamed`). What a page
  debits, pays and releases is read from heads; this ties it to the holds.
* `ReceiptsIndexedOnce`: `IndexedOnce` is inductive with the types. A receipt is added
  only when its head has no epoch yet, so that the search for duplicates in the last
  index page, which sees nothing of the earlier ones, is never what prevents a second
  entry.
* `EpochsComplete`: `NoReceiptLeftBehind` from `Counted`. An epoch is closed when the
  number of consumed receipts reaches the length of its index; because each receipt
  is indexed once and consumed once, equal numbers mean equal sets.
* `Orderly` collects these invariants. On it rest the theorems about amounts, each a
  statement about sums over sets that a page changes in many places at once:
  * `GrossKept` (a provider's gross of an epoch is the sum of its consumed receipts)
    and `BooksKept` (the pending state's running totals are the debits, fees and burns
    of the receipts consumed so far, its commit is that of the whole epoch) are
    inductive; `CommitsReachable` follows: `CommitReachable` holds after any pages.
  * `PagesNeutral`: `PagingIsNeutral` from `Shares`. A page adds to the totals the
    difference of the shares of the gross after and before it, so the differences
    telescope and each epoch is rounded once per provider.
  * `CreditConserved`: `ValueConserved` in the form `Conserved`: credits are balances,
    amounts taken back and debits; debits are earnings, fee and burn; disputes are
    taken back or absorbed. A page's debits by buyer and its gross by provider are two
    groupings of one sum (`SumByGroup`).
  * `SummaryExact`: `ReservedIsOutstanding` in the form `HeldFor`. A page subtracts per
    user what the receipts owe and removes the sessions they name; the map from
    receipts to sessions is one to one (`HeadsNamed`), so the two sums are one
    (`SumImage`).
  * `AttemptsBilledOnce`: `BilledOnce` from `AttemptsChain`, `FirstFromZero` (a first
    attempt starts from zero) and `HeadsNamed`; under `SameBaselines`, which is part of
    the property, the charged reservation's baseline is the opener's. The increments
    of the attempts up to any one of them telescope to what that one reached.

`StripeEventsProofs` (constants: `StripeAssumption`; any events, amounts, rate,
number of requests, lost answers and crashes):

* `EventsTyped`: TypeOK with what each handler holds.
* `RecordedOnlyIfApplied`: an event enters log or index only from a handler whose
  proof found the ledger's amount.
* `SharesAreExact`: `ExactShare`. The strengthening `ExactInv` says that the totals of
  log and index are the recorded disputes' cents at the rate, so the proportional
  share of the next one divides without a remainder (`ProportionalExact`).
* `CursorSkipsNothing`: `NothingSkipped`, without further assumptions. `HouseInv` says
  that the index is the log's while the process is up, that a silent event that is
  remembered is in the log or was refused by the disk, and that silent events are in
  the backfill's hands only; `PassInv`, with `Due`, says that
  whatever a pass has still to handle or has handled covers everything between the
  saved and the next cursor that was not created between the lists.

`ReceiptOutboxProofs` (constants: `OutboxAssumption`; any attempts, sequence numbers,
workers, crashes and failed persists):

* `OutboxTyped`, `AlwaysLoadable`: from `ShapeInv`, which says of every directory that
  of two files of an attempt one supersedes the other, and that a persist under way has
  put its file above the one it replaces. However many files crashes and failed
  persists leave, a winner then exists (`WinnerWins`): superseding raises a bounded
  rank, and a set of numbers has a least one (`LeastNumber`, from the well-foundedness
  of the naturals).
* `EvidenceIsDurable`: `EvidenceDurable` needs that the ledger's heads, and every
  positive answer a worker holds, are receipts the ledger accepted (`EvidenceInv`):
  a worker may remove a file on an answer that is much older than the file's place
  in the directory.
* `ClosesFreezeNothing`: `CloseInv` extends the property to closes still on the wire. A
  session that is over queues nothing (`QuietKept`), so a close sent then stays
  harmless however late it is applied.

`GatewayJobsProofs` (constants: `JobsAssumption` and `ReuseEarly = FALSE`; any jobs and
vault bounds, any crashes, and any disk faults):

* The operations of the vault are first described by what they do to the slot of a
  job: the slots of other jobs stay or are evicted (`Trimmed`), the job's own is
  recorded, protected or left. The eviction loops are bounded searches for the
  smallest set of oldest records that makes room; the proof needs only that what
  goes was counted, hence neither running nor pending.
* `JobsInv` is the inductive invariant: `Sound` relates, job by job, memory, file and
  sizes (a terminal record is what the file says; a pending one has a file that
  supersedes it, though it may be newer after a failed sync; a
  record that ended with evidence is settled), `PhaseOf` ties a request to the record
  it staged, `WorkerInv` says that the worker's copy still names the evidence of the
  job it holds, which is where early reuse of a key would break it.
* `JobsTyped`, `SettledFirst`, `EndsStaged` follow from it; `EvidenceIsKept` and
  `RunsOnce` are action properties of its steps. For `EvidenceIsKept` every writer is
  shown to store what supersedes the record it replaces: `VoucherFits`,
  `CheckpointFits` and `FeatureFits` for a running stream, `ProvenRecord` for the
  closure, `UpdateReceiptKeeps` for the worker's old copy.

Two more theorems of that module ask for a disk that works, `MaxFaults = 0`:

* `VaultRefinesLifecycle`, that is `Spec => ImplementsLifecycle`. `RefInv` adds that file
  and memory agree (`Mirror`) and that a request in flight holds its copy, with
  evidence once dispatched (`Held`). Every step then moves each job's life as
  `JobLifecycle` allows: expiry changes no life (`PurgeLives`), eviction only forgets
  what ended (`EvictedMoves`), a crash turns what was accepted into its fallback and
  what ran into a pending job (`LostMemory`). With a failing disk the mapping is not a
  refinement: a write that fails after its rename leaves a file memory does not know
  of, and TLC shows the refused `Submit` that does so.
* `VaultOpens`: `VaultReopens` from `ReopenInv`. While the gateway runs, the sizes it
  counts are those of its files and their sum fits (`Tight`): every operation makes room
  before it writes. While it is down, the files fit (`Bounded`), so `load` has nothing
  pending to evict. With a failing disk this is false: a write may fail when the
  directory is synced, after the rename (job_store.rs:859-866), so that the larger file
  is in place while the old size is counted. Another job takes the room, and after a
  crash the vault does not open, because what is pending may not be evicted. TLC shows
  it in `jobs_lifecycle` with `MaxJobs = 2`, `MaxTime = 0` and `MaxFaults = 1`.

`StripeConnectProofs` (constants: `ConnectAssumption`; any providers, accounts, codes,
requests, failed and torn appends and crashes, a log of any length):

* `CodesExchangedOnce` from `ExchangeInv`: a handler that is about to present a code has
  logged its attempt, nobody has presented it, and no other handler is about to.
* `AccountsReload` (`LogReloads`) and `AccountsJustified` (`BindingJustified`) from
  `ConnectInv`. It adds that the store is the reading of the log without the failed lines
  that were not read back (`LogInv`, `Faithful`),
  that a consent has the source it claims (`Sourced`), that each line has its evidence
  (`AllEvident`), and what each handler has established on its way to a binding
  (`Carries`), which must still be true several awaits later. `Loaded` is a recursive
  function over the log; `LoadAppends` shows by induction over the lines that reading a
  log with one more line is one more `load_record` after reading the log. `Lasting` is
  what no step takes back, so that evidence once given stays.

`SumProofs` (no constants): the library's induction theorems take an operator as a
parameter, which these provers cannot instantiate. Stated with a set in its place
(`NatInductionSet`, `SubsetInduction`: a set that contains the start and is closed under
the step contains everything) they can be used, with the set
`{n \in Nat : ...}` of the numbers that have the property. From them: what
`SumFunctionOnSet` of the community modules computes for every finite set (`SumEmpty`,
`SumIn`, `SumOut`), and how it behaves under disjoint union, pointwise sum, change at one
place, grouping and renaming.

`SupervisorProofs` (constants: `SupervisorAssumption`): `SupervisorTyped`, and
`StatusIsTrue` from `OwnedInv`, which adds to the types that a child which had its name
to itself when it was added is the only task of that name not yet ended for as long
as it owns the entry; without it an old task's mark could be taken for its own.

Only model-checked: all liveness, which this prover cannot do (`RootLands`,
`ReservationsResolve`, `ReceiptsSettle`, `ProviderEntriesRetire`, `ReservationsClose`,
`PendingResolves`, `SilentRecorded`, `ConsentEnds`, `TasksObey`). Every safety property of a
passing run is stated by a theorem, with the hypotheses named above. `VaultOpens` and
`VaultRefinesLifecycle` are about a disk that works, as is the run `jobs_lifecycle`.

## 10. Findings

* **Payout rotation** (`ledger_rotation`). A receipt reserved under the old payout
  revision, whose final receipt lands in an epoch from which the new revision is
  active, can never be settled (contract.js:17184), and since a page that leaves a
  receipt out cannot be the last one, neither can its epoch. `README.md:660` says
  such reservations continue to settle. Shortest case: rotate in epoch 1 (active
  from epoch 2), reserve under the old revision, freeze the epoch, and the
  final receipt goes to the next one.

Further disagreements, each shown by TLC when the named change is made to a run's
`.cfg`:

* **Burn cap**: `burnClaimable` caps the burn at the spend minus two floored
  shares. That remainder is 2 at a spend of 6 and 1 at 7, so a burn at 6 exceeds
  the cap at 7; `contracts/scripts/pool-property.mjs:60` asserts that it cannot.
  Check `BurnWithinCap` in `pool_governance`. The overshoot is one wei at most, and
  solvency is unaffected; both are proved.
* **Renewed attempt**: after an attempt is closed without a receipt, reserving it
  again skips the comparison of the baseline with the prior receipt
  (contract.js:20071), so the buyer's voucher alone decides where billing resumes;
  the test at `intercom/tests/contract-receipt-settlement.test.js:966` says attempts
  must exactly chain, which it tries for a new attempt only. Check `ExactChain` in
  `ledger_billing`; `BilledOnce` without `SameBaselines` fails in the same way: a
  renewed attempt that claims 0 bills the predecessor's units again.
* **Canonical entries**: the comment at `crates/mayhem-cli/src/main.rs:61014` says that
  keeping an already canonical entry for ever eventually blocks all paid work. The
  gateway queues or still holds a checkpoint that the ledger accepted earlier; the
  attempt has then advanced to a higher receipt and been closed, so a resubmission
  is refused and the confirmed head never matches the entry exactly. Check
  `CanonicalEntriesRetire` in `outbox_liveness`.
* **Key used again**: DURABLE_STREAMING.md:92 says of a failed job that "successful
  accounting leaves the job `failed`". With `ReuseEarly = TRUE` the worker applies
  the status it read before its await to a new job of the same key (openai.rs:3856),
  and `EndsAsStaged` of `jobs_recovery` fails.
* **Interrupted job**: DURABLE_STREAMING.md:69 says "After restart, a reservation
  without receipt evidence is a failed job"; it stays pending until its reservation
  is closed. Check `InterruptedIsFailed` in `jobs_recovery`.
* **Backfill**: `README.md:354` presents a payment as credited, and the test at
  `services/paygate/tests/stripe.rs:2961` the cursor as not advancing past an event
  that was not handled. An event created between two lists of a pass (lib.rs:4442-4510
  makes a call per type) is behind the saved cursor and never listed again. Check
  `CursorWaits` in `stripe_events`. A dispute that only the backfill sees, while a
  webhook still works on its payment, is likewise dropped as unrelated.
* **Account log**: if `sync_all` fails after the line was written (lib.rs:5328), the log has
  a record that memory lacks. A retry in a later second appends a second line for the
  same nonce, which `load` refuses (lib.rs:5250-5261), so the paygate does not start
  again; and if the account was meanwhile bound to someone else, the refused binding
  comes back beside it at the next start. Check `Loaded({}).sound` as an invariant of
  `stripe_connect`.
* **Removed child**: the test `supervisor_control_add_remove_child_updates_state`
  (mayhemd main.rs:2212) asserts that a removed child is out of the state. If the
  request arrives while the child's start is being noted, `mark_child_started`
  inserts the entry again, with no task to own it, and adding the name is refused
  until it is removed a second time. Check `RemovedStaysGone` in `supervisor` with
  `MaxFaults = 0`. Likewise a child added under the name of one that is still
  stopping has its entry overwritten by the old task (`alone` in
  `StatusTruthful`), and both processes run for that time; the CLI waits for the
  old process, which narrows the window but does not close it.

Observed while modelling and not covered by a property: the builder's page sizing
and the contract's batch limit count differently; a slash between two pages makes
the epoch marker inconsistent (contract.js:10655); a chargeback freezes the user
(`frozen/<user>`), but `spendReserveTargeted` does not look at that record; the event
log and the cursor are written in place, so a torn write is possible; a webhook
connection dropped half-way leaves the event claimed in memory; a deauthorisation
that races an onboarding can be swallowed (lib.rs 5065-5092); two writes of the
supervisor's state file can land in the opposite order of their snapshots, and a
signal that arrives while it handles a request is lost; a provider admitted at the
limit relies on the admission reserve for all of its sessions.

## 11. What is not modelled

`PROJECT.json` gives the reason per component. In short:

* payouts, holdbacks, slashing, fraud proofs, pricing and the roller and watcher
  scripts: JavaScript back-office code around the ledger, left out in favour of the
  Rust services;
* engines, enclaves, attestation, cryptography: out of a model checker's reach;
* transports: they appear as lost, late and repeated messages;
* vendored peers, dashboards, catalog and installers: no logic of the market's
  own.

The models cover a small share of the repository's lines. `mayhem-cli/src/main.rs`
(135,000 lines), `mayhem-gateway/src/openai.rs` (53,000) and `mayhem-engine` (14,000)
are for the most part command-line parsing, request and response translation,
validation of documents, hardware probing, reports, pages and tests in the same
files: sequential code over strings and JSON, without state that outlives a call.
The parts of those files that keep durable state or run concurrently are the ones
modelled. Provider selection within a request (`failover.rs`, `provider_table.rs`) is
scoring over snapshots; its outcome, the attempts of a billing id, is taken in any
order.

## Running

    tlc -config ledger_settlement.cfg MCSpendLedger
    tlc -config pool_governance.cfg MCInferencePool
    tlc -config outbox_safety.cfg MCReceiptOutbox
    tlc -config jobs_recovery.cfg MCGatewayJobs
    tlc -config stripe_events.cfg MCStripeEvents
    tlc -config stripe_connect.cfg MCStripeConnect
    tlc -config supervisor.cfg MCSupervisor
    tlapm InferencePoolProofs.tla      (and the other ...Proofs.tla)

Operators marked "Mutant" are faulty variants of the definition after them;
`PROJECT.json` names the property each one breaks when it takes that definition's
place.
