---------------------------- MODULE StripeEvents ----------------------------
(***************************************************************************)
(* The Stripe half of the fiat paygate (services/paygate/src/lib.rs).      *)
(* Stripe pushes an event to the webhook, possibly several times and       *)
(* possibly never, and a backfill loop pulls the same events from the      *)
(* Events API behind a cursor file.  Both run handle_stripe_event: claim   *)
(* the event in the store, post a deposit or a chargeback to the ledger,   *)
(* prove the ledger state, then append the record to the event log.        *)
(*                                                                         *)
(* Every lock region and every await is a step of its own, a posted        *)
(* feature lives on at the ledger after its sender has failed or crashed,  *)
(* and only the log and the cursor survive a crash.  The ledger's two      *)
(* operations (fiatDeposit, fiatChargeback) are idempotent by reference.   *)
(*                                                                         *)
(* Left out: signatures, event types the paygate does not handle, account  *)
(* deauthorisation, and a record or cursor that is written in part.        *)
(* Definitions marked "Mutant" are faulty variants no action uses.         *)
(***************************************************************************)
EXTENDS Integers, FiniteSets

CONSTANTS
    Payments,       \* payment_intent.succeeded events
    Disputes,       \* charge.dispute.created events
    Of,             \* the payment a dispute is about
    Minor,          \* an event's amount in cents
    Created,        \* the second an event was created in
    Foreign,        \* payments of another product: no mayhem_ metadata
    Malformed,      \* payments whose mayhem_ metadata is refused
    AuPerCent,      \* AU_PER_USD_CENT
    Workers,        \* webhook requests served at a time
    Backfill,       \* the backfill loop
    Silent,         \* events whose webhook never arrives
    None,           \* no event
    MaxDeliveries, MaxLost, MaxCrashes  \* bounds on the environment

Events == Payments \cup Disputes

ASSUME StripeAssumption ==
    /\ Payments \cap Disputes = {} /\ None \notin Events
    /\ IsFiniteSet(Events)
    /\ Of \in [Disputes -> Payments]
    /\ Minor \in [Events -> Nat \ {0}] /\ Created \in [Events -> Nat \ {0}]
    /\ \A d \in Disputes : Created[Of[d]] < Created[d]
    /\ Foreign \subseteq Payments /\ Malformed \subseteq Payments
    /\ AuPerCent \in Nat \ {0}
    /\ Backfill \notin Workers
    /\ Silent \subseteq Events
    /\ MaxDeliveries \in Nat /\ MaxLost \in Nat /\ MaxCrashes \in Nat

VARIABLES
    issued,     \* events in Stripe's log
    acked,      \* events whose webhook Stripe has seen answered with success
    delivered,  \* webhook deliveries so far, per event
    up,         \* the paygate process runs
    store,      \* StripeEventStore
    disk,       \* what the event log holds, as load would index it
    task,       \* where each request and the backfill loop stand
    batch, top, \* what a backfill pass still has to handle, and the next cursor
    cursor,     \* the saved StripeBackfillCursor
    calls,      \* features on their way to the ledger
    ledger,     \* dep/fiat records: amounts applied, disputed_au_cum
    late,       \* history: events created between the two lists of a pass
    unwritten,  \* history: events whose record the disk refused
    lost, crashes

vars == <<issued, acked, delivered, up, store, disk, task, batch, top, cursor, calls,
          ledger, late, unwritten, lost, crashes>>
stripe == <<issued, acked, delivered>>
pass == <<batch, top, cursor>>
past == <<late, unwritten>>
faults == <<lost, crashes>>

Handlers == Workers \cup {Backfill}
Idle == [step |-> "idle", event |-> None, au |-> 0]
EmptyIndex == [known |-> {}, totals |-> [p \in Payments |-> [minor |-> 0, au |-> 0]]]

\* load: every record of the log is seen, and indexed.
Loaded(index) == [seen |-> index.known, processing |-> {}, sources |-> {}, index |-> index]

Init ==
    /\ issued = {} /\ acked = {} /\ delivered = [e \in Events |-> 0]
    /\ up = TRUE
    /\ disk = EmptyIndex /\ store = Loaded(EmptyIndex)
    /\ task = [h \in Handlers |-> Idle]
    /\ batch = {} /\ top = 0 /\ cursor = 0
    /\ calls = {}
    /\ ledger = [au |-> [e \in Events |-> 0], disputed |-> [p \in Payments |-> 0]]
    /\ late = {} /\ unwritten = {}
    /\ lost = 0 /\ crashes = 0

-----------------------------------------------------------------------------
(* The event store.                                                        *)

Index(index, e, au) ==
    [known |-> index.known \cup {e},
     totals |-> IF e \in Disputes
                THEN [index.totals EXCEPT ![Of[e]] =
                         [minor |-> @.minor + Minor[e], au |-> @.au + au]]
                ELSE index.totals]

Claimed(e) == e \in store.seen \cup store.processing

\* Mutant: a failed dispute keeps its hold on the deposit.
ReleasedEvent(e) == [store EXCEPT !.processing = @ \ {e}]

Released(e) == [store EXCEPT !.processing = @ \ {e}, !.sources = @ \ {e}]

\* The record is remembered before it is written, and indexed after.
Completed(e, au, written) ==
    [Released(e) EXCEPT !.seen = @ \cup {e},
                        !.index = IF written THEN Index(@, e, au) ELSE @]

\* reserve_chargeback lets one dispute of a deposit through at a time.
SourceBusy(d) == \E other \in store.sources : Of[other] = Of[d]

\* stripe_event_is_unrelated: a dispute is known by its deposit's record.
Unrelated(e) == e \in Foreign \/ (e \in Disputes /\ Of[e] \notin store.index.known)

-----------------------------------------------------------------------------
(* Amounts.                                                                *)

DepositAu(p) == Minor[p] * AuPerCent

Proportional(au, cumulative, minor) ==
    IF cumulative = minor
    THEN au
    ELSE (au \div minor) * cumulative + ((au % minor) * cumulative) \div minor

Cumulative(d) == store.index.totals[Of[d]].minor + Minor[d]

\* Mutant: what earlier disputes took is not deducted.
ShareSoFar(d) == Proportional(DepositAu(Of[d]), Cumulative(d), Minor[Of[d]])

Share(d) ==
    Proportional(DepositAu(Of[d]), Cumulative(d), Minor[Of[d]]) - store.index.totals[Of[d]].au

AuOf(e) == IF e \in Payments THEN DepositAu(e) ELSE Share(e)

\* The handler returns an error before it posts anything.
Refused(e) ==
    \/ e \in Malformed
    \/ e \in Disputes /\ (SourceBusy(e) \/ Cumulative(e) > Minor[Of[e]] \/ AuOf(e) <= 0)

-----------------------------------------------------------------------------
(* Stripe.                                                                 *)

Issue(e) ==
    /\ e \notin issued
    /\ \A other \in issued : Created[other] <= Created[e]
    /\ e \in Disputes => Of[e] \in issued
    /\ issued' = issued \cup {e}
    /\ late' = IF task[Backfill].step = "list" THEN late \cup {e} ELSE late
    /\ UNCHANGED <<acked, delivered, up, store, disk, task, pass, calls, ledger, unwritten, faults>>

\* A webhook request reaches stripe_event_is_unrelated.
Deliver(w, e) ==
    /\ up /\ task[w] = Idle
    /\ e \in issued \ (Silent \cup acked)
    /\ delivered[e] < MaxDeliveries
    /\ delivered' = [delivered EXCEPT ![e] = @ + 1]
    /\ IF Unrelated(e)
       THEN acked' = acked \cup {e} /\ UNCHANGED task
       ELSE task' = [task EXCEPT ![w] = [Idle EXCEPT !.step = "begin", !.event = e]]
            /\ UNCHANGED acked
    /\ UNCHANGED <<issued, up, store, disk, pass, calls, ledger, past, faults>>

-----------------------------------------------------------------------------
(* handle_stripe_event.                                                    *)

\* Success: a webhook is answered, if the answer arrives, and a pass goes on.
Succeed(h, e) ==
    IF h = Backfill
    THEN task' = [task EXCEPT ![h] = [Idle EXCEPT !.step = "next"]] /\ UNCHANGED acked
    ELSE /\ task' = [task EXCEPT ![h] = Idle]
         /\ \E heard \in BOOLEAN : acked' = IF heard THEN acked \cup {e} ELSE acked

\* Mutant: a pass carries on behind an event that failed.
ErrorSkips(h) ==
    /\ task' = [task EXCEPT ![h] = IF h = Backfill THEN [Idle EXCEPT !.step = "next"] ELSE Idle]
    /\ UNCHANGED batch

\* Error: a webhook is answered 5xx, and a pass ends without saving its cursor.
Error(h) ==
    /\ task' = [task EXCEPT ![h] = Idle]
    /\ batch' = IF h = Backfill THEN {} ELSE batch

Begin(h) ==
    LET e == task[h].event
    IN  /\ task[h].step = "begin"
        /\ \/ /\ Claimed(e)
              /\ Succeed(h, e)
              /\ UNCHANGED store
           \/ /\ ~Claimed(e)
              /\ store' = [store EXCEPT !.processing = @ \cup {e}]
              /\ task' = [task EXCEPT ![h].step = "work"]
              /\ UNCHANGED acked
        /\ UNCHANGED <<issued, delivered, up, disk, pass, calls, ledger, past, faults>>

Fail(h) ==
    /\ store' = Released(task[h].event)
    /\ Error(h)
    /\ UNCHANGED <<stripe, up, disk, top, cursor, ledger, past, crashes>>

Refuse(h) ==
    /\ task[h].step = "work"
    /\ Refused(task[h].event)
    /\ Fail(h)
    /\ UNCHANGED <<calls, lost>>

\* The event is validated, a dispute reserves its deposit, and the feature is sent.
Post(h) ==
    LET e == task[h].event
    IN  /\ task[h].step = "work"
        /\ ~Refused(e)
        /\ calls' = calls \cup {[event |-> e, au |-> AuOf(e)]}
        /\ task' = [task EXCEPT ![h].step = "wait", ![h].au = AuOf(e)]
        /\ store' = [store EXCEPT !.sources = IF e \in Disputes THEN @ \cup {e} ELSE @]
        /\ UNCHANGED <<stripe, up, disk, pass, ledger, past, faults>>

CallOf(h) == [event |-> task[h].event, au |-> task[h].au]

\* Mutant: an answer is enough, whatever the ledger holds.
AnsweredOnly(h) == CallOf(h) \notin calls

\* require_state_fields reads the record back and compares its amount.
Proven(h) == ledger.au[task[h].event] = task[h].au

\* complete: the disk may refuse the record, and the event stays seen.
Record(h, written) ==
    LET e == task[h].event
    IN  /\ task[h].step = "wait"
        /\ Proven(h)
        /\ store' = Completed(e, task[h].au, written)
        /\ \/ /\ written
              /\ disk' = Index(disk, e, task[h].au)
              /\ Succeed(h, e)
              /\ UNCHANGED <<batch, unwritten, lost>>
           \/ /\ ~written
              /\ lost < MaxLost /\ lost' = lost + 1
              /\ unwritten' = unwritten \cup {e}
              /\ Error(h)
              /\ UNCHANGED <<disk, acked>>
        /\ calls' = calls \ {CallOf(h)}
        /\ UNCHANGED <<issued, delivered, up, top, cursor, ledger, late, crashes>>

\* The ledger refused the feature, or never saw it.
Rejected(h) ==
    /\ task[h].step = "wait"
    /\ CallOf(h) \notin calls /\ ~Proven(h)
    /\ Fail(h)
    /\ UNCHANGED <<calls, lost>>

\* No answer comes; the feature may still arrive.
Unanswered(h) ==
    /\ task[h].step = "wait"
    /\ lost < MaxLost /\ lost' = lost + 1
    /\ Fail(h)
    /\ UNCHANGED calls

\* The server drops the request of a closed connection at whatever it awaits; what it
\* claimed in the store stays claimed.
Disconnect(w) ==
    /\ task[w] # Idle
    /\ task' = [task EXCEPT ![w] = Idle]
    /\ UNCHANGED <<stripe, up, store, disk, pass, calls, ledger, past, faults>>

-----------------------------------------------------------------------------
(* run_stripe_backfill_once.                                               *)

NotBefore(kind) == {e \in issued \cap kind : Created[e] >= cursor}

\* The cursor is read and the first list fetched.
ListPayments ==
    /\ up /\ task[Backfill] = Idle
    /\ batch' = NotBefore(Payments) /\ top' = cursor
    /\ task' = [task EXCEPT ![Backfill].step = "list"]
    /\ UNCHANGED <<stripe, up, store, disk, cursor, calls, ledger, past, faults>>

ListDisputes ==
    /\ task[Backfill].step = "list"
    /\ batch' = batch \cup NotBefore(Disputes)
    /\ task' = [task EXCEPT ![Backfill].step = "next"]
    /\ UNCHANGED <<stripe, up, store, disk, top, cursor, calls, ledger, past, faults>>

ListFails ==
    /\ task[Backfill].step = "list"
    /\ lost < MaxLost /\ lost' = lost + 1
    /\ Error(Backfill)
    /\ UNCHANGED <<stripe, up, store, disk, top, cursor, calls, ledger, past, crashes>>

Later(t, e) == IF Created[e] > t THEN Created[e] ELSE t

\* The oldest event left goes through handle_stripe_event; ids order those of one second.
BackfillNext ==
    /\ task[Backfill].step = "next"
    /\ \E e \in batch :
          /\ \A other \in batch : Created[e] <= Created[other]
          /\ batch' = batch \ {e} /\ top' = Later(top, e)
          /\ task' = IF Unrelated(e) THEN task
                     ELSE [task EXCEPT ![Backfill] = [Idle EXCEPT !.step = "begin", !.event = e]]
    /\ UNCHANGED <<stripe, up, store, disk, cursor, calls, ledger, past, faults>>

SaveCursor ==
    /\ task[Backfill].step = "next" /\ batch = {}
    /\ cursor' = top
    /\ task' = [task EXCEPT ![Backfill] = Idle]
    /\ UNCHANGED <<stripe, up, store, disk, batch, top, calls, ledger, past, faults>>

-----------------------------------------------------------------------------
(* The ledger, and the process.                                            *)

\* fiatDeposit and fiatChargeback; a reference that is known changes nothing.
Admits(c) ==
    /\ ledger.au[c.event] = 0
    /\ c.event \in Disputes =>
          /\ ledger.au[Of[c.event]] > 0
          /\ ledger.disputed[Of[c.event]] + c.au <= ledger.au[Of[c.event]]

Apply(c) ==
    /\ calls' = calls \ {c}
    /\ ledger' = IF ~Admits(c) THEN ledger
                 ELSE [au |-> [ledger.au EXCEPT ![c.event] = c.au],
                       disputed |-> IF c.event \in Disputes
                                    THEN [ledger.disputed EXCEPT ![Of[c.event]] = @ + c.au]
                                    ELSE ledger.disputed]
    /\ UNCHANGED <<stripe, up, store, disk, task, pass, past, faults>>

Vanish(c) ==
    /\ lost < MaxLost /\ lost' = lost + 1
    /\ calls' = calls \ {c}
    /\ UNCHANGED <<stripe, up, store, disk, task, pass, ledger, past, crashes>>

Crash ==
    /\ up /\ crashes < MaxCrashes
    /\ crashes' = crashes + 1
    /\ up' = FALSE
    /\ store' = Loaded(EmptyIndex)
    /\ task' = [h \in Handlers |-> Idle]
    /\ batch' = {}
    /\ UNCHANGED <<stripe, disk, top, cursor, calls, ledger, past, lost>>

Restart ==
    /\ ~up
    /\ up' = TRUE
    /\ store' = Loaded(disk)
    /\ UNCHANGED <<stripe, disk, task, pass, calls, ledger, past, faults>>

-----------------------------------------------------------------------------
Handle(h) ==
    \/ Begin(h) \/ Refuse(h) \/ Post(h)
    \/ \E written \in BOOLEAN : Record(h, written)
    \/ Rejected(h)

Pull == ListPayments \/ ListDisputes \/ BackfillNext \/ SaveCursor

Next ==
    \/ \E e \in Events : Issue(e)
    \/ \E w \in Workers, e \in Events : Deliver(w, e)
    \/ \E h \in Handlers : Handle(h) \/ Unanswered(h)
    \/ \E w \in Workers : Disconnect(w)
    \/ Pull \/ ListFails
    \/ \E c \in calls : Apply(c) \/ Vanish(c)
    \/ Crash \/ Restart

Spec == Init /\ [][Next]_vars

\* The loop runs for ever and sleeps a bounded time between passes, requests are
\* polled to their end, the ledger works through its queue and the service manager
\* restarts the process; faults are bounded by MaxLost and MaxCrashes.
Fairness ==
    /\ WF_vars(Pull) /\ WF_vars(Restart)
    /\ \A h \in Handlers : WF_vars(Handle(h))
    /\ WF_vars(\E c \in calls : Apply(c))

FairSpec == Spec /\ Fairness

-----------------------------------------------------------------------------
(* Properties.                                                             *)

IndexType ==
    [known : SUBSET Events, totals : [Payments -> [minor : Nat, au : Nat]]]

\* Every variable has its type; the cursor is a second some event was created in, and
\* memory (store) and log hold claims of existing events only.
TypeOK ==
    /\ issued \subseteq Events /\ acked \subseteq issued
    /\ delivered \in [Events -> Nat]
    /\ up \in BOOLEAN
    /\ store \in [seen : SUBSET Events, processing : SUBSET Events,
                  sources : SUBSET Disputes, index : IndexType]
    /\ disk \in IndexType
    /\ task \in [Handlers -> [step : {"idle", "begin", "work", "wait", "list", "next"},
                              event : Events \cup {None}, au : Nat]]
    /\ batch \subseteq issued
    /\ {top, cursor} \subseteq {0} \cup {Created[e] : e \in issued}
    /\ calls \subseteq [event : Events, au : Nat]
    /\ ledger \in [au : [Events -> Nat], disputed : [Payments -> Nat]]
    /\ late \subseteq issued /\ unwritten \subseteq issued
    /\ lost \in Nat /\ crashes \in Nat

\* An event is in the log, or remembered as seen, only once the ledger holds its deposit or
\* chargeback (handle_stripe_event completes behind require_state_fields), whatever answers
\* were lost, records refused and whenever the process died: what a repeated delivery or
\* the backfill passes over as a duplicate was credited or debited.
RecordedIsApplied ==
    \A e \in disk.known \cup store.index.known \cup store.seen : ledger.au[e] > 0

\* The ledger moves exactly the event's amount at the fixed rate and nothing else
\* (proportional_chargeback_au against the totals of the store): a dispute posted again
\* after others of its deposit were recorded, forgotten or lost asks for the same amount, so
\* the state proof of the retry cannot fail.
ExactShare ==
    /\ \A e \in Events : ledger.au[e] \in {0, Minor[e] * AuPerCent}
    /\ \A c \in calls : c.au = Minor[c.event] * AuPerCent

Ours(e) == e \notin Foreign \cup Malformed /\ (e \in Disputes => Of[e] \notin Foreign \cup Malformed)

\* What the backfill alone must bring: no webhook comes, and it was not created while a
\* pass was between its lists; a dispute is known by the record of its payment.
Covered(e) ==
    /\ e \in issued \cap Silent /\ Ours(e) /\ e \notin late
    /\ e \in Disputes => Of[e] \in Silent \ (late \cup unwritten)

\* The saved cursor never leaves behind an event that only the backfill can bring: one it
\* passed is on the ledger, and in the log unless the disk refused its record
\* (run_stripe_backfill_once ends a pass on the first error, "created[gte]" reads the
\* cursor's own second again, and complete remembers an event before it is written).
NothingSkipped ==
    \A e \in Events : Covered(e) /\ Created[e] < cursor =>
        ledger.au[e] > 0 /\ e \in disk.known \cup unwritten

\* A dispute is claimed and holds its deposit although its request is gone (dropped at the
\* await between reserve_chargeback and complete): only a restart releases it.
Wedged ==
    \E d \in store.sources \cap store.processing :
        \A h \in Handlers : ~(task[h].step = "wait" /\ task[h].event = d)

\* Passes end at a payment of ours that is refused, so what is not older waits behind it.
Reached(e) == \A m \in Malformed : Created[e] < Created[m]

\* A payment or dispute whose webhook never arrives is still credited or debited: passes
\* that lose an answer or a record, abort on another event or die are repeated from the same
\* cursor.  It fails only while a dropped request holds a deposit (Wedged), and of a dispute
\* whose payment's record the disk refuses.
SilentRecorded ==
    <>[]~Wedged =>
        \A e \in {s \in Silent : Ours(s) /\ Reached(s)} :
            Covered(e) ~> ledger.au[e] > 0 \/ ~Covered(e)

\* What the test at services/paygate/tests/stripe.rs:2961 says of the cursor, of every event:
\* does not hold of an event created between two lists.
CursorWaits ==
    \A e \in issued \cap Silent : Ours(e) /\ Created[e] < cursor => ledger.au[e] > 0
=============================================================================
