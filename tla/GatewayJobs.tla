---------------------------- MODULE GatewayJobs ----------------------------
(***************************************************************************)
(* The gateway's durable job vault (crates/mayhem-gateway/src/             *)
(* job_store.rs), the request handlers that write a job's evidence into    *)
(* it, and the recovery worker that settles what a handler left behind     *)
(* (openai.rs, openai/failure_recovery.rs).                                *)
(*                                                                         *)
(* The vault is one value behind a mutex: its operations are operators     *)
(* that return the vault after the call and whether the call succeeded.    *)
(* A job is named by the id its idempotency key yields; ids are ordered.   *)
(* A record keeps what the control flow reads: the evidence is "none",     *)
(* the signed voucher ("reservation"), a "checkpoint" or a "final"         *)
(* receipt, with the status it is to end in, the provider's signed         *)
(* settlement feature, and the proof of a canonical closure.  When a job   *)
(* fails over to another provider, its record turns to the new attempt and *)
(* keeps the receipt of the one before, for as long as the new one has     *)
(* none.  Results and artifacts count only as bytes; the identity of the   *)
(* request is left out.                                                    *)
(*                                                                         *)
(* Definitions marked "Mutant" are faulty variants that the properties     *)
(* are tested against; no specification uses them.                         *)
(***************************************************************************)
EXTENDS Integers, FiniteSets, FiniteSetsExt

CONSTANTS
    Jobs,        \* job ids, natural numbers above 0
    MaxJobs,     \* max_jobs
    MaxBytes,    \* max_bytes
    Ttl,         \* ttl_seconds
    PassLimit,   \* GATEWAY_RECEIPT_ACK_RECOVERY_MAX_JOBS_PER_PASS
    ReuseEarly,  \* whether a key is used again while recovery still holds its earlier job
    Outcomes,    \* the ways a paid session ends that are explored (bound)
    Stuck,       \* jobs whose provider is gone and whose reservation is never closed
    MaxAttempts, \* attempts of one job, with one provider each (bound)
    MaxTime,     \* seconds explored (bound)
    MaxCrashes,  \* crashes explored (bound)
    MaxFaults,   \* failing disk operations explored (bound)
    NoRecord     \* the absent record

Terminal == {"completed", "cancelled", "failed"}
Statuses == Terminal \cup {"pending"}
Evidence == {"none", "reservation", "checkpoint", "final"}
Errors   == {"none", "interrupted", "stream", "ack_pending", "cancelled", "failure"}
Faults   == {"none", "write", "sync"}

\* att and prior: the attempt the evidence is of, and what is kept of the attempt before.
Record == [status: Statuses, ev: Evidence, as: Terminal, feature: BOOLEAN, settled: BOOLEAN,
           att: 0..MaxAttempts, prior: Evidence,
           err: Errors, info: BOOLEAN, fin: 0..MaxTime, bytes: 1..2]

Phases      == {"idle", "open", "running", "staged", "handed", "queued", "ending", "failing"}
WorkerSteps == {"idle", "deliver", "store", "queue", "finish", "close"}

ASSUME JobsAssumption ==
    /\ IsFiniteSet(Jobs) /\ Jobs \subseteq Nat \ {0}
    /\ MaxJobs \in Nat \ {0} /\ MaxBytes \in Nat /\ MaxBytes >= 2
    /\ Ttl \in Nat \ {0} /\ PassLimit \in Nat \ {0}
    /\ ReuseEarly \in BOOLEAN /\ Stuck \subseteq Jobs /\ Outcomes \subseteq Terminal
    /\ MaxAttempts \in Nat \ {0} /\ MaxTime \in Nat /\ MaxCrashes \in Nat /\ MaxFaults \in Nat
    /\ NoRecord \notin Record

VARIABLES
    vault,    \* the GatewayJobStore and its directory
    up,       \* the gateway is running
    now,      \* seconds
    phase,    \* phase[j]: where the request that owns job j stands
    kind,     \* kind[j]: the outcome its final receipt was staged for
    queued,   \* jobs whose final receipt has reached the settlement outbox or the ledger
    resv,     \* resv[j][a]: the canonical reservation of j's attempt a
    worker,   \* the recovery worker: its step and the snapshot of the job it holds
    todo,     \* what is left of its pass
    after,    \* the id its last pass stopped at
    crashes,  \* number of crashes so far
    faults    \* number of disk faults so far

vars == <<vault, up, now, phase, kind, queued, resv, worker, todo, after, crashes, faults>>

Unreserved == [a \in 0..MaxAttempts |-> "none"]

Idle == [step |-> "idle", job |-> 0, snap |-> NoRecord]

EmptyVault ==
    [disk |-> [j \in Jobs |-> NoRecord], records |-> [j \in Jobs |-> NoRecord],
     recovery |-> [j \in Jobs |-> NoRecord], active |-> {}, reconciling |-> {},
     sealed |-> [j \in Jobs |-> 0]]

Slots == [Jobs -> Record \cup {NoRecord}]

TypeOK ==
    /\ vault \in [disk: Slots, records: Slots, recovery: Slots, active: SUBSET Jobs,
                  reconciling: SUBSET Jobs, sealed: [Jobs -> 0..2]]
    /\ up \in BOOLEAN
    /\ now \in 0..MaxTime
    /\ phase \in [Jobs -> Phases]
    /\ kind \in [Jobs -> Terminal]
    /\ queued \subseteq Jobs
    /\ resv \in [Jobs -> [0..MaxAttempts -> {"none", "open", "expired", "closed"}]]
    /\ worker \in [step: WorkerSteps, job: Jobs \cup {0}, snap: Record \cup {NoRecord}]
    /\ todo \subseteq Jobs
    /\ after \in Jobs \cup {0}
    /\ crashes \in 0..MaxCrashes /\ faults \in 0..MaxFaults

Init ==
    /\ vault = EmptyVault
    /\ up = TRUE
    /\ now = 0
    /\ phase = [j \in Jobs |-> "idle"]
    /\ kind = [j \in Jobs |-> "completed"]
    /\ queued = {}
    /\ resv = [j \in Jobs |-> Unreserved]
    /\ worker = Idle
    /\ todo = {}
    /\ after = 0
    /\ crashes = 0 /\ faults = 0

----------------------------------------------------------------------------
(* The vault: room.                                                        *)

Has(slots, j) == slots[j] # NoRecord

\* records_counted_for_job_limit: pending jobs are retained separately.
Counted(v) == {j \in Jobs : Has(v.records, j) /\ j \notin v.reconciling}

Sizes(v, S) == SumFunctionOnSet(v.sealed, S)

Drop(v, E) ==
    [v EXCEPT !.records = [j \in Jobs |-> IF j \in E THEN NoRecord ELSE @[j]],
              !.disk = [j \in Jobs |-> IF j \in E THEN NoRecord ELSE @[j]],
              !.sealed = [j \in Jobs |-> IF j \in E THEN 0 ELSE @[j]],
              !.reconciling = @ \ E]

Older(v, i, j) ==
    \/ v.records[i].fin < v.records[j].fin
    \/ v.records[i].fin = v.records[j].fin /\ i < j

\* The loops of make_room_for_job, make_room_for_bytes and enforce_bounds: the oldest of C
\* go until the rest fits, that is, those in every set of oldest ones that makes room; when
\* none does, all of C is gone and the call fails.
MakeRoom(v, C, Fits(_)) ==
    LET sets == {E \in SUBSET C : /\ \A i \in E, j \in C \ E : Older(v, i, j)
                                  /\ Fits(E)}
    IN  [v |-> Drop(v, {j \in C : \A E \in sets : j \in E}), ok |-> sets # {}]

RoomForJob(v) ==
    MakeRoom(v, Counted(v),
        LAMBDA E : Cardinality(Counted(v) \ E) + Cardinality(v.active) < MaxJobs)

\* Mutant: the files of running and pending jobs are not counted.
RoomOfRecords(v, j, bytes) ==
    MakeRoom(v, Counted(v) \ {j},
        LAMBDA E : Sizes(v, Counted(v) \ (E \cup {j})) + bytes <= MaxBytes)

RoomForBytes(v, j, bytes) ==
    MakeRoom(v, Counted(v) \ {j},
        LAMBDA E : Sizes(v, Jobs \ (E \cup {j})) + bytes <= MaxBytes)

\* enforce_bounds; keep is the record the caller has just written.
EnforceBounds(v, keep) ==
    MakeRoom(v, Counted(v) \ keep,
        LAMBDA E : /\ Cardinality(Counted(v) \ E) <= MaxJobs
                   /\ Sizes(v, Jobs \ E) <= MaxBytes)

\* Mutant: age alone decides.
PurgedByAge(v) == Drop(v, {j \in Jobs : Has(v.records, j) /\ v.records[j].fin + Ttl <= now})

\* purge_expired: a pending job never expires.
Purged(v) ==
    Drop(v, {j \in Jobs : /\ Has(v.records, j)
                          /\ v.records[j].status # "pending"
                          /\ v.records[j].fin + Ttl <= now})

----------------------------------------------------------------------------
(* The vault: writes.  flt is what the disk does to the write.             *)

\* Mutant: an existing file is overwritten.
PersistOver(v, j, r, flt) ==
    [v |-> IF flt = "write" THEN v ELSE [v EXCEPT !.disk[j] = r], ok |-> flt = "none"]

\* persist: a fresh record must not find a file, a replacement must; the file is renamed
\* into place before the directory is synced.
Persist(v, j, r, flt) ==
    IF (v.sealed[j] > 0) # Has(v.disk, j) THEN [v |-> v, ok |-> FALSE]
    ELSE [v |-> IF flt = "write" THEN v ELSE [v EXCEPT !.disk[j] = r], ok |-> flt = "none"]

Written(room, j, r, flt) ==
    IF room.ok THEN Persist(room.v, j, r, flt) ELSE room

\* persist_active_recovery.
PutActive(v, j, r, flt) ==
    LET w == Written(RoomForBytes(v, j, r.bytes), j, r, flt)
    IN  IF w.ok THEN [v |-> [w.v EXCEPT !.recovery[j] = r, !.sealed[j] = r.bytes], ok |-> TRUE]
        ELSE w

\* The tail that complete, finish_reconciliation and update_reconciliation_receipt share.
PutRecord(v, j, r, flt) ==
    LET w == Written(RoomForBytes(v, j, r.bytes), j, r, flt)
    IN  IF ~w.ok THEN w
        ELSE EnforceBounds(
                [w.v EXCEPT !.records[j] = r, !.sealed[j] = r.bytes,
                            !.active = @ \ {j}, !.recovery[j] = NoRecord,
                            !.reconciling = IF r.status = "pending" THEN @ \cup {j}
                                            ELSE @ \ {j}],
                {j})

Failure(v) == [v |-> v, ok |-> FALSE]
Success(v) == [v |-> v, ok |-> TRUE]

Fallback ==
    [status |-> "failed", ev |-> "none", as |-> "failed", feature |-> FALSE, settled |-> FALSE,
     att |-> 0, prior |-> "none",
     err |-> "interrupted", info |-> TRUE, fin |-> now, bytes |-> 1]

\* begin and, under the same lock, protect_active; the key stays active when the fallback
\* cannot be written.
BeginJob(v, j, flt) ==
    LET room == RoomForJob(v)
    IN  IF ~room.ok THEN room
        ELSE PutActive([room.v EXCEPT !.active = @ \cup {j}], j, Fallback, flt)

\* update_active_receipt: the whole receipt is replaced by the caller's, that of r.
UpdateActive(v, j, r, flt) ==
    IF j \notin v.active \/ ~Has(v.recovery, j) THEN Success(v)
    ELSE PutActive(v, j, [v.recovery[j] EXCEPT !.status = "pending", !.ev = r.ev, !.as = r.as,
                             !.feature = r.feature, !.settled = r.settled, !.att = r.att,
                             !.prior = r.prior, !.err = "stream", !.info = FALSE,
                             !.fin = now], flt)

\* Mutant: a failure replaces whatever evidence there was.
CompletePlain(v, j, r, flt) ==
    IF Has(v.records, j) \/ j \notin v.active THEN Failure(v) ELSE PutRecord(v, j, r, flt)

\* complete_with_error_info: evidence of the interrupted session outranks a plain failure.
Complete(v, j, r, flt) ==
    IF Has(v.records, j) \/ j \notin v.active THEN Failure(v)
    ELSE LET old == v.recovery[j]
             kept == IF r.status \in {"failed", "cancelled"} /\ old # NoRecord /\ old.ev # "none"
                     THEN [r EXCEPT !.status = old.status, !.ev = old.ev, !.as = old.as,
                                    !.feature = old.feature, !.settled = old.settled,
                                    !.att = old.att, !.prior = old.prior]
                     ELSE r
         IN  PutRecord(v, j, kept, flt)

\* finish_reconciliation.
Finish(v, j, status, err, flt) ==
    IF ~Has(v.records, j) THEN Failure(v)
    ELSE LET r == v.records[j] IN
         CASE r.status = status /\ r.err = err -> Success([v EXCEPT !.reconciling = @ \ {j}])
           [] r.status # status \/ r.err # err ->
                IF r.status # "pending" THEN Failure(v)
                ELSE PutRecord(v, j, [r EXCEPT !.status = status, !.err = err, !.fin = now], flt)

Receipt(r) == <<r.ev, r.as, r.feature, r.settled, r.att, r.prior>>

\* update_reconciliation_receipt: the whole receipt is replaced by the caller's copy.
UpdateReceipt(v, j, r, flt) ==
    IF ~Has(v.records, j) THEN Failure(v)
    ELSE IF v.records[j].status # "pending" THEN Failure(v)
    ELSE IF Receipt(v.records[j]) = Receipt(r) THEN Success(v)
    ELSE PutRecord(v, j, [v.records[j] EXCEPT !.ev = r.ev, !.as = r.as, !.feature = r.feature,
                                              !.settled = r.settled, !.att = r.att,
                                              !.prior = r.prior, !.fin = now], flt)

\* load: the directory is read, interrupted checkpoints of older builds return to recovery,
\* expired records go and the bounds are enforced.
Load(v) ==
    LET repaired == [j \in Jobs |->
            IF v.disk[j] # NoRecord
               /\ v.disk[j].status # "pending" /\ v.disk[j].ev = "checkpoint" /\ ~v.disk[j].settled
            THEN [v.disk[j] EXCEPT !.status = "pending"] ELSE v.disk[j]]
        read == [EmptyVault EXCEPT
            !.disk = repaired, !.records = repaired,
            !.reconciling = {j \in Jobs : Has(repaired, j) /\ repaired[j].status = "pending"},
            !.sealed = [j \in Jobs |-> IF Has(repaired, j) THEN repaired[j].bytes ELSE 0]]
    IN  EnforceBounds(Purged(read), {})

----------------------------------------------------------------------------
(* Requests.                                                               *)

Fault(flt) ==
    /\ flt \in Faults
    /\ flt # "none" => faults < MaxFaults
    /\ faults' = IF flt = "none" THEN faults ELSE faults + 1

At(j, p) == up /\ phase[j] = p
Goto(j, p) == phase' = [phase EXCEPT ![j] = p]

recoveryVars == <<worker, todo, after>>

\* prepare_gateway_job_with_cancellation: an existing or active job is only reported.  That a
\* key is not used again while the worker holds its earlier job is not checked by begin: it
\* is a duty of clients, who "must not redispatch expired request keys"
\* (DURABLE_STREAMING.md); ReuseEarly lifts it.
Submit(j, flt) ==
    /\ At(j, "idle") /\ Fault(flt)
    /\ ReuseEarly \/ worker.job # j
    /\ LET v == Purged(vault) IN
       IF Has(v.records, j) \/ j \in v.active
       THEN vault' = v /\ UNCHANGED <<phase, resv, queued>>
       ELSE LET b == BeginJob(v, j, flt) IN
            /\ vault' = b.v
            /\ Goto(j, IF b.ok THEN "open" ELSE "idle")
            /\ resv' = [resv EXCEPT ![j] = IF b.ok THEN Unreserved ELSE @]
            /\ queued' = IF b.ok THEN queued \ {j} ELSE queued
    /\ UNCHANGED <<up, now, kind, recoveryVars, crashes>>

\* The next attempt's signed voucher: the receipt of the attempt before is kept beside it,
\* without what that one kept of its own predecessor.
Voucher(r) ==
    [r EXCEPT !.ev = "reservation", !.as = "failed", !.feature = FALSE, !.settled = FALSE,
              !.att = @ + 1, !.prior = r.ev]

\* persist_reservation, of the first attempt and of each failover to another provider, whose
\* reservation is a new one: the voucher is stored, then the request frames are sent.
Dispatch(j, flt) ==
    /\ up /\ phase[j] \in {"open", "running"} /\ Fault(flt)
    /\ Has(vault.recovery, j) /\ vault.recovery[j].att < MaxAttempts
    /\ LET r == Voucher(vault.recovery[j])
           u == UpdateActive(vault, j, r, flt) IN
       /\ vault' = u.v
       /\ Goto(j, IF u.ok THEN "running" ELSE "ending")
       /\ resv' = [resv EXCEPT ![j][r.att] = "open"]
    /\ UNCHANGED <<up, now, kind, queued, recoveryVars, crashes>>

\* gateway_job_settled_receipt of a checkpoint: nothing is kept of an earlier attempt.
CheckpointReceipt(r) ==
    [r EXCEPT !.ev = "checkpoint", !.as = "cancelled", !.feature = FALSE, !.settled = FALSE,
              !.prior = "none"]

\* persist_stream_checkpoint_evidence, before the checkpoint is acknowledged.
Checkpoint(j, flt) ==
    /\ At(j, "running") /\ Fault(flt)
    /\ Has(vault.recovery, j)
    /\ LET u == UpdateActive(vault, j, CheckpointReceipt(vault.recovery[j]), flt) IN
       vault' = u.v /\ Goto(j, IF u.ok THEN "running" ELSE "ending")
    /\ UNCHANGED <<up, now, kind, queued, resv, recoveryVars, crashes>>

\* persist_reconciliation_settlement_feature for a checkpoint of a running stream.
CheckpointHandoff(j, flt) ==
    /\ At(j, "running") /\ Fault(flt)
    /\ Has(vault.recovery, j) /\ vault.recovery[j].ev = "checkpoint"
    /\ LET r == [vault.recovery[j] EXCEPT !.feature = TRUE]
           u == UpdateActive(Purged(vault), j, r, flt) IN
       vault' = u.v /\ Goto(j, IF u.ok THEN "running" ELSE "ending")
    /\ UNCHANGED <<up, now, kind, queued, resv, recoveryVars, crashes>>

\* An execution that needs no receipt (persist_completed_if_active).
CompleteUnpaid(j, flt) ==
    /\ At(j, "open") /\ Fault(flt)
    /\ LET c == Complete(vault, j, [Fallback EXCEPT !.status = "completed", !.err = "none",
                                       !.info = FALSE, !.bytes = 2], flt) IN
       vault' = c.v /\ Goto(j, IF c.ok THEN "idle" ELSE "ending")
    /\ UNCHANGED <<up, now, kind, queued, resv, recoveryVars, crashes>>

StagedError(k)   == [completed |-> "ack_pending", cancelled |-> "cancelled", failed |-> "failure"][k]
TerminalError(k) == [completed |-> "none", cancelled |-> "cancelled", failed |-> "failure"][k]

\* stage_completed_invocation_job, stage_cancelled_invocation_job and the failed receipt of
\* settle_failed_direct_session_frame: the final receipt is stored before it is acknowledged.
Stage(j, k, flt) ==
    /\ At(j, "running") /\ Fault(flt)
    /\ Has(vault.recovery, j)
    /\ LET c == Complete(vault, j, [Fallback EXCEPT !.status = "pending", !.ev = "final",
                            !.as = k, !.att = vault.recovery[j].att, !.err = StagedError(k),
                            !.info = (k = "failed"), !.bytes = IF k = "completed" THEN 2 ELSE 1], flt) IN
       vault' = c.v /\ Goto(j, IF c.ok THEN "staged" ELSE "failing")
    /\ kind' = [kind EXCEPT ![j] = k]
    /\ UNCHANGED <<up, now, queued, resv, recoveryVars, crashes>>

\* The acknowledgement is sent, the provider answers with its signed feature, and the
\* feature is stored with the job.
Handoff(j, flt) ==
    /\ At(j, "staged") /\ Fault(flt)
    /\ LET v == Purged(vault)
           u == IF Has(v.records, j)
                THEN UpdateReceipt(v, j, [v.records[j] EXCEPT !.feature = TRUE], flt)
                ELSE Failure(v) IN
       vault' = u.v /\ Goto(j, IF u.ok THEN "handed" ELSE "failing")
    /\ UNCHANGED <<up, now, kind, queued, resv, recoveryVars, crashes>>

QueueFeature(j) ==
    /\ At(j, "handed")
    /\ queued' = queued \cup {j}
    /\ Goto(j, "queued")
    /\ UNCHANGED <<vault, up, now, kind, resv, recoveryVars, crashes, faults>>

\* finish_completed_invocation_job and its siblings.
FinishRequest(j, flt) ==
    /\ At(j, "queued") /\ Fault(flt)
    /\ LET f == Finish(vault, j, kind[j], TerminalError(kind[j]), flt) IN
       vault' = f.v /\ Goto(j, IF f.ok THEN "idle" ELSE "failing")
    /\ UNCHANGED <<up, now, kind, queued, resv, recoveryVars, crashes>>

\* The session breaks: the provider, the connection, the outbox or the engine fails, or the
\* client is gone.
Break(j) ==
    /\ up
    /\ \/ phase[j] \in {"open", "running"} /\ Goto(j, "ending")
       \/ phase[j] \in {"staged", "handed"} /\ Goto(j, "failing")
    /\ UNCHANGED <<vault, up, now, kind, queued, resv, recoveryVars, crashes, faults>>

\* spawn_owned_gateway_job_request: persist_cancelled_if_active when the client asked for it
\* and no settlement has begun, else persist_failure_if_active.
EndRequest(j, cancelled, flt) ==
    /\ up /\ Fault(flt)
    /\ phase[j] = "ending" \/ (phase[j] = "failing" /\ ~cancelled)
    /\ vault' = IF j \in vault.active
                THEN Complete(vault, j,
                        [Fallback EXCEPT !.status = IF cancelled THEN "cancelled" ELSE "failed",
                                         !.err = IF cancelled THEN "cancelled" ELSE "failure",
                                         !.info = ~cancelled], flt).v
                ELSE vault
    /\ Goto(j, "idle")
    /\ UNCHANGED <<up, now, kind, queued, resv, recoveryVars, crashes>>

\* remove, at the owner's request; an unlink that fails leaves the file behind.
Remove(j, unlinked) ==
    /\ up
    /\ ~unlinked => faults < MaxFaults
    /\ faults' = IF unlinked THEN faults ELSE faults + 1
    /\ LET v == Purged(vault) IN
       /\ Has(v.records, j) /\ j \notin v.reconciling
       /\ vault' = IF unlinked THEN Drop(v, {j}) ELSE [Drop(v, {j}) EXCEPT !.disk = v.disk]
    /\ UNCHANGED <<up, now, phase, kind, queued, resv, recoveryVars, crashes>>

----------------------------------------------------------------------------
(* The recovery worker.                                                    *)

Pending(v) == {j \in Jobs : Has(v.records, j) /\ v.records[j].status = "pending"}

\* Mutant: every pass starts at the first id.
SoonerById(a, i, j) == i < j

\* i comes before j when the sorted ids are rotated to start behind a.
Sooner(a, i, j) ==
    \/ i > a /\ (j <= a \/ i < j)
    \/ i <= a /\ j <= a /\ i < j

\* reconcile_pending_gateway_jobs_pass takes the next PassLimit pending jobs.
StartPass ==
    /\ up /\ worker = Idle /\ todo = {}
    /\ LET v == Purged(vault) IN
       /\ vault' = v
       /\ todo' = {j \in Pending(v) :
                     Cardinality({i \in Pending(v) : Sooner(after, i, j)}) < PassLimit}
    /\ UNCHANGED <<up, now, phase, kind, queued, resv, worker, after, crashes, faults>>

\* Mutant: a final receipt whose feature is stored counts as queued.
RouteTrustsFeature(r) ==
    CASE r.settled \/ r.ev \in {"reservation", "checkpoint"} -> "close"
      [] ~r.settled /\ r.ev \notin {"reservation", "checkpoint"} ->
            IF r.feature THEN "finish" ELSE "deliver"

\* Where reconcile_pending_gateway_job_once turns with the record it read: a checkpoint whose
\* feature is stored is queued before its reservation's closure is looked for.
Route(r) ==
    CASE r.settled \/ r.ev = "reservation" -> "close"
      [] ~r.settled /\ r.ev = "checkpoint" -> IF r.feature THEN "queue" ELSE "close"
      [] ~r.settled /\ r.ev = "final" -> IF r.feature THEN "queue" ELSE "deliver"

TakeJob(j) ==
    /\ up /\ worker = Idle
    /\ j \in todo /\ \A i \in todo \ {j} : Sooner(after, j, i)
    /\ todo' = todo \ {j}
    /\ after' = j
    /\ LET v == Purged(vault) IN
       /\ vault' = v
       /\ worker' = IF j \in Pending(v)
                    THEN [step |-> Route(v.records[j]), job |-> j, snap |-> v.records[j]]
                    ELSE Idle
    /\ UNCHANGED <<up, now, phase, kind, queued, resv, crashes, faults>>

Working(p) == up /\ worker.step = p

\* transport.deliver asks the provider again for its feature; when that fails the canonical
\* closure is the way out.
Deliver(answered) ==
    /\ Working("deliver")
    /\ answered => worker.job \notin Stuck
    /\ worker' = [worker EXCEPT !.step = IF answered THEN "store" ELSE "close"]
    /\ UNCHANGED <<vault, up, now, phase, kind, queued, resv, todo, after, crashes, faults>>

\* persist_gateway_job_recovery_feature.
StoreFeature(flt) ==
    /\ Working("store") /\ Fault(flt)
    /\ LET r == [worker.snap EXCEPT !.feature = TRUE]
           u == UpdateReceipt(vault, worker.job, r, flt) IN
       /\ vault' = u.v
       /\ worker' = IF u.ok THEN [worker EXCEPT !.step = "queue", !.snap = r] ELSE Idle
    /\ UNCHANGED <<up, now, phase, kind, queued, resv, todo, after, crashes>>

\* publisher.queue; a final receipt of an earlier contract version is not queued again but
\* must be confirmed, exactly, on the ledger.
RecoveryQueues(accepted) ==
    /\ Working("queue")
    /\ LET final == worker.snap.ev = "final" IN
       /\ queued' = IF accepted /\ final THEN queued \cup {worker.job} ELSE queued
       /\ worker' = IF accepted
                    THEN [worker EXCEPT !.step = IF final THEN "finish" ELSE "close"]
                    ELSE Idle
    /\ UNCHANGED <<vault, up, now, phase, kind, resv, todo, after, crashes, faults>>

RecoveryFinishes(flt) ==
    /\ Working("finish") /\ Fault(flt)
    /\ vault' = Finish(vault, worker.job, worker.snap.as, TerminalError(worker.snap.as), flt).v
    /\ worker' = Idle
    /\ UNCHANGED <<up, now, phase, kind, queued, resv, todo, after, crashes>>

\* What a confirmed closure may leave: the proof is added, and the ledger's head, when there
\* is one, replaces the receipt ("Retain final=false when the ledger closed a partial
\* checkpoint").  The head is a receipt the gateway acknowledged, so it had stored it: it is
\* no later than the one in r.
Proven(r) ==
    {[r EXCEPT !.settled = TRUE, !.ev = ev] :
        ev \in IF r.ev = "final" THEN {"final", "checkpoint"} ELSE {r.ev}}

\* Mutant: a job that recovery closes has failed.
ClosedAsFailed(r) == IF r.settled THEN r.as ELSE "failed"

ClosedStatus(r) == IF r.info THEN "failed" ELSE r.as

\* failure_recovery::reconcile: with a confirmed closure the proof is stored and the job
\* finished under one lock; past expiry the signed expiry is stored with the receipt the
\* worker read; before that nothing happens.
RecoveryCloses(flt) ==
    /\ Working("close") /\ Fault(flt)
    /\ LET ledger == resv[worker.job][worker.snap.att] IN
       \/ /\ ledger = "closed"
          /\ \E r \in Proven(worker.snap) :
                LET u == UpdateReceipt(vault, worker.job, r, flt) IN
                vault' = IF u.ok THEN Finish(u.v, worker.job, ClosedStatus(worker.snap),
                                             worker.snap.err, flt).v
                         ELSE u.v
       \/ /\ ledger = "expired"
          /\ vault' = UpdateReceipt(vault, worker.job, worker.snap, flt).v
       \/ ledger \in {"none", "open"} /\ vault' = vault
    /\ worker' = Idle
    /\ UNCHANGED <<up, now, phase, kind, queued, resv, todo, after, crashes>>

----------------------------------------------------------------------------
(* The ledger, the clock, crash and restart.                               *)

ReservationExpires(j, a) ==
    /\ resv[j][a] = "open"
    /\ resv' = [resv EXCEPT ![j][a] = "expired"]
    /\ UNCHANGED <<vault, up, now, phase, kind, queued, recoveryVars, crashes, faults>>

\* A final receipt, the provider's recovery or the buyer's expiry closes the reservation.
ReservationCloses(j, a) ==
    /\ j \notin Stuck /\ resv[j][a] \in {"open", "expired"}
    /\ resv' = [resv EXCEPT ![j][a] = "closed"]
    /\ UNCHANGED <<vault, up, now, phase, kind, queued, recoveryVars, crashes, faults>>

Tick ==
    /\ now < MaxTime
    /\ now' = now + 1
    /\ UNCHANGED <<vault, up, phase, kind, queued, resv, recoveryVars, crashes, faults>>

\* Only the directory survives; a crash may fall between the two writes of RecoveryCloses.
Crash(closing) ==
    /\ up /\ crashes < MaxCrashes
    /\ \/ ~closing /\ vault' = [EmptyVault EXCEPT !.disk = vault.disk]
       \/ /\ closing /\ Working("close") /\ resv[worker.job][worker.snap.att] = "closed"
          /\ \E r \in Proven(worker.snap) :
                vault' = [EmptyVault EXCEPT
                            !.disk = UpdateReceipt(vault, worker.job, r, "none").v.disk]
    /\ up' = FALSE
    /\ phase' = [j \in Jobs |-> "idle"]
    /\ worker' = Idle /\ todo' = {} /\ after' = 0
    /\ crashes' = crashes + 1
    /\ UNCHANGED <<now, kind, queued, resv, faults>>

Restart ==
    /\ ~up /\ Load(vault).ok
    /\ vault' = Load(vault).v
    /\ up' = TRUE
    /\ UNCHANGED <<now, phase, kind, queued, resv, recoveryVars, crashes, faults>>

Request(j) ==
    \/ \E flt \in Faults : \/ Submit(j, flt) \/ Dispatch(j, flt) \/ Checkpoint(j, flt)
                           \/ CheckpointHandoff(j, flt) \/ CompleteUnpaid(j, flt)
                           \/ Handoff(j, flt) \/ FinishRequest(j, flt)
                           \/ \E k \in Outcomes : Stage(j, k, flt)
                           \/ \E c \in BOOLEAN : EndRequest(j, c, flt)
    \/ QueueFeature(j) \/ Break(j)
    \/ \E b \in BOOLEAN : Remove(j, b)

Recovery ==
    \/ StartPass
    \/ \E j \in Jobs : TakeJob(j)
    \/ \E b \in BOOLEAN : Deliver(b) \/ RecoveryQueues(b)
    \/ \E flt \in Faults : StoreFeature(flt) \/ RecoveryFinishes(flt) \/ RecoveryCloses(flt)

Next ==
    \/ \E j \in Jobs : Request(j)
    \/ \E j \in Jobs, a \in 0..MaxAttempts : ReservationExpires(j, a) \/ ReservationCloses(j, a)
    \/ Recovery
    \/ Tick \/ Restart
    \/ \E b \in BOOLEAN : Crash(b)

Spec == Init /\ [][Next]_vars

----------------------------------------------------------------------------
(* Properties.                                                             *)

\* A key starts an execution only when nothing of an earlier one is left on disk, also when
\* memory and disk have come apart through a failed write, a failed unlink or a crash.
NoSecondExecution ==
    [][\A j \in Jobs : phase[j] = "idle" /\ phase'[j] = "open" =>
            (vault.disk[j] # NoRecord =>
                vault.disk[j].status # "pending" /\ vault.disk[j].fin + Ttl <= now)]_vars

Rank(ev) == [none |-> 0, reservation |-> 1, checkpoint |-> 2, final |-> 3][ev]

\* The record the gateway acts on: its own copy while it runs, the file while it is down.
Relied(j) ==
    IF ~up THEN vault.disk[j]
    ELSE IF Has(vault.records, j) THEN vault.records[j] ELSE vault.recovery[j]

\* What may stand in the place of the evidence d: the ledger's closure of the same attempt,
\* which stays; before that, evidence of the same attempt that is no weaker, a bare voucher
\* with what was kept of the attempt before; or the voucher of a later attempt, with d's
\* receipt kept beside it.
Supersedes(new, d) ==
    \/ new.settled /\ new.att = d.att
    \/ /\ ~d.settled /\ new.att = d.att /\ Rank(new.ev) >= Rank(d.ev)
       /\ new.ev = "reservation" => new.prior = d.prior
    \/ ~d.settled /\ new.att > d.att /\ new.ev = "reservation" /\ new.prior = d.ev

\* "Active records cannot be evicted; pending reconciliation is exempt from TTL eviction":
\* evidence the gateway has acted on stays on disk until the job is settled and gives way
\* only to what supersedes it, whoever writes last: the request, its failover, the worker
\* with its old copy, eviction, load.
EvidenceKept ==
    [][\A j \in Jobs : Relied(j) # NoRecord =>
          (Relied(j).status = "pending" =>
             /\ vault'.disk[j] # NoRecord
             /\ Supersedes(vault'.disk[j], Relied(j)))]_vars

\* A job with evidence ends only once its final receipt has been queued for settlement or
\* the ledger's closure of its reservation has been stored with it.
SettledBeforeTerminal ==
    \A j \in Jobs : LET d == vault.disk[j] IN
        d # NoRecord => (d.status \in Terminal /\ d.ev # "none" => d.settled \/ j \in queued)

\* "successful accounting leaves the job failed": whoever finishes a job, it ends as its
\* receipt was staged.
EndsAsStaged ==
    \A j \in Jobs : LET d == vault.disk[j] IN
        d # NoRecord => (d.status \in Terminal /\ d.ev = "final" => d.status = d.as)

\* While the disk works (MaxFaults = 0), the vault opens again within its bounds after a crash
\* at any instant.  With one directory sync that fails after its rename it may not.
VaultReopens == ~up => Load(vault).ok

\* The life of a job as its owner sees it (lookup_read_only): an expired record is not there.
LifeOf(j) ==
    IF up /\ Has(vault.recovery, j)
    THEN IF vault.recovery[j].ev = "none" THEN "accepted" ELSE "running"
    ELSE IF ~Has(vault.disk, j) THEN "free"
    ELSE IF vault.disk[j].status # "pending" /\ vault.disk[j].fin + Ttl <= now THEN "free"
    ELSE vault.disk[j].status

Lifecycle == INSTANCE JobLifecycle WITH life <- [j \in Jobs |-> LifeOf(j)]

\* While the disk works, the vault implements the lifecycle it promises, through crashes,
\* eviction, expiry, and the races of requests with the recovery worker.
ImplementsLifecycle == Lifecycle!LifeSpec

\* The recovery loop never stops, a crashed gateway is started again (VaultReopens says that
\* it can be), the outbox has room again and again, and reservations are closed
\* (ReceiptOutbox, ReservationsClose).  Of requests nothing is assumed: recovery does not
\* depend on them.
RecoveryBusy == up /\ (worker # Idle \/ todo # {} \/ Pending(vault) # {})

Fairness ==
    /\ []<>up
    /\ <>[]RecoveryBusy => []<><<Recovery>>_vars
    /\ \A j \in Jobs \ Stuck : /\ SF_vars(worker.job = j /\ RecoveryQueues(TRUE))
                              /\ \A a \in 0..MaxAttempts : WF_vars(ReservationCloses(j, a))

FairSpec == Spec /\ Fairness

\* Every pending job whose reservation is closed in the end is settled, even when PassLimit
\* jobs before it in the rotation never are.
PendingResolves ==
    \A j \in Jobs \ Stuck : LifeOf(j) = "pending" ~> LifeOf(j) # "pending"

\* "After restart, a reservation without receipt evidence is a failed job".
InterruptedIsFailed ==
    \A j \in Jobs : LET d == vault.disk[j] IN
        ~up /\ d # NoRecord => (d.ev \in {"none", "reservation"} => d.status = "failed")
=============================================================================
