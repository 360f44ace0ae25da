--------------------------- MODULE ReceiptOutbox ---------------------------
(***************************************************************************)
(* The road of a co-signed usage receipt from a provider session to the    *)
(* canonical ledger: the durable outbox that provider and gateway each     *)
(* keep (ReceiptSettlementOutbox in crates/mayhem-cli/src/main.rs), the    *)
(* two submitters that relay its entries, the handoff frame that gives the *)
(* gateway its copy, and the reservation journal that closes a reservation *)
(* once its session is over (provider_failure_recovery.rs).                *)
(*                                                                         *)
(* An entry is a receipt of a billing attempt; usage and owed amount grow  *)
(* with the sequence number in every receipt a provider signs, so the      *)
(* number stands for them.  A file is one *.json entry; temporary files    *)
(* are never read and are left out.  Signatures and the contract-version   *)
(* quarantine are not modelled.                                            *)
(*                                                                         *)
(* Definitions marked "Mutant" are faulty variants that the properties     *)
(* are tested against; no specification uses them.                         *)
(***************************************************************************)
EXTENDS Integers, FiniteSets

CONSTANTS
    Attempts,      \* billing attempts, one reservation each
    MaxSeq,        \* receipts a session may produce (bound)
    MaxEntries,    \* RECEIPT_SETTLEMENT_OUTBOX_MAX_ENTRIES
    Reserve,       \* RECEIPT_SETTLEMENT_OUTBOX_ADMISSION_RESERVE
    MaxSessions,   \* sessions the provider runs at once
    BuyerExpiry,   \* whether reservations reach canonical expiry plus grace
    DiskFaults,    \* whether a persist may fail after its hard_link
    MaxCrashes,    \* process crashes and failed persists explored (bound)
    Workers,       \* the submitters of an outbox: "retry" (flush_once), "fresh"
    NoReceipt      \* the absent receipt

Outboxes == {"provider", "gateway"}
Receipts == [a: Attempts, seq: 1..MaxSeq, final: BOOLEAN]
Writes   == [new: Receipts, old: Receipts \cup {NoReceipt}]

ASSUME OutboxAssumption ==
    /\ IsFiniteSet(Attempts)
    /\ MaxSeq \in Nat \ {0}
    /\ MaxEntries \in Nat /\ Reserve \in Nat /\ Reserve < MaxEntries
    /\ MaxSessions \in Nat /\ MaxSessions <= Reserve
    /\ BuyerExpiry \in BOOLEAN /\ DiskFaults \in BOOLEAN
    /\ MaxCrashes \in Nat
    /\ Workers \subseteq {"fresh", "retry"} /\ "retry" \in Workers
    /\ NoReceipt \notin Receipts \cup Writes

VARIABLES
    files,     \* files[o]: the entries on disk in outbox o
    writing,   \* writing[o]: the persist that holds .outbox.lock after its hard_link
    up,        \* up[o]: the process that owns outbox o is running
    session,   \* session[a]: "idle", "opening", "live" (its AttemptGuard is held), "ended"
    signed,    \* signed[a]: the last receipt both sides signed
    stored,    \* stored[a]: the feature the gateway's job record holds
    handoff,   \* handoff[a]: the s.receipt_settlement frame under way
    task,      \* task[o][w]: the submission worker w waits for, and its answer
    wire,      \* receipts the relay has accepted and not yet applied
    head,      \* head[a]: the canonical receipt head
    resv,      \* resv[a]: the canonical reservation, "none", "active", "closed"
    closedBy,  \* closedBy[a]: who closed it
    expired,   \* expired[a]: canonical expiry plus receipt grace has passed
    journal,   \* journal[a]: reservation-recovery/<id>.json exists
    closeWire, \* reservation closes submitted and not yet applied
    committed, \* every receipt the ledger has accepted (history)
    crashes    \* number of crashes and failed persists so far

vars == <<files, writing, up, session, signed, stored, handoff, task, wire, head, resv,
          closedBy, expired, journal, closeWire, committed, crashes>>

ledger == <<head, resv, closedBy, committed>>
disk   == <<files, writing>>

NoTask  == [r |-> NoReceipt, ans |-> "none"]
NoHead  == [seq |-> 0, final |-> FALSE, ready |-> FALSE]

TypeOK ==
    /\ files \in [Outboxes -> SUBSET Receipts]
    /\ writing \in [Outboxes -> Writes \cup {NoReceipt}]
    /\ up \in [Outboxes -> BOOLEAN]
    /\ session \in [Attempts -> {"idle", "opening", "live", "ended"}]
    /\ signed \in [Attempts -> Receipts \cup {NoReceipt}]
    /\ stored \in [Attempts -> Receipts \cup {NoReceipt}]
    /\ handoff \in [Attempts -> Receipts \cup {NoReceipt}]
    /\ task \in [Outboxes -> [Workers ->
                    [r: Receipts \cup {NoReceipt}, ans: {"none", "ok", "refused"}]]]
    /\ wire \subseteq Receipts
    /\ head \in [Attempts -> [seq: 0..MaxSeq, final: BOOLEAN, ready: BOOLEAN]]
    /\ resv \in [Attempts -> {"none", "active", "closed"}]
    /\ closedBy \in [Attempts -> {"nobody", "receipt", "provider", "buyer"}]
    /\ expired \in [Attempts -> BOOLEAN]
    /\ journal \in [Attempts -> BOOLEAN]
    /\ closeWire \subseteq [a: Attempts, seq: 0..MaxSeq, by: {"provider", "buyer"}]
    /\ committed \subseteq Receipts
    /\ crashes \in 0..MaxCrashes

Init ==
    /\ files = [o \in Outboxes |-> {}]
    /\ writing = [o \in Outboxes |-> NoReceipt]
    /\ up = [o \in Outboxes |-> TRUE]
    /\ session = [a \in Attempts |-> "idle"]
    /\ signed = [a \in Attempts |-> NoReceipt]
    /\ stored = [a \in Attempts |-> NoReceipt]
    /\ handoff = [a \in Attempts |-> NoReceipt]
    /\ task = [o \in Outboxes |-> [w \in Workers |-> NoTask]]
    /\ wire = {}
    /\ head = [a \in Attempts |-> NoHead]
    /\ resv = [a \in Attempts |-> "none"]
    /\ closedBy = [a \in Attempts |-> "nobody"]
    /\ expired = [a \in Attempts |-> FALSE]
    /\ journal = [a \in Attempts |-> FALSE]
    /\ closeWire = {}
    /\ committed = {}
    /\ crashes = 0

----------------------------------------------------------------------------
(* The outbox directory.                                                   *)

Entries(o, a) == {r \in files[o] : r.a = a}

\* receipt_settlement_entry_supersedes: a higher sequence replaces a checkpoint, and a
\* final receipt replaces the checkpoint of its own sequence.
Supersedes(cur, r) ==
    /\ ~cur.final
    /\ r.seq > cur.seq \/ (r.seq = cur.seq /\ r.final)

\* The one entry load_entries keeps of an attempt.
Winner(o, a) ==
    IF Entries(o, a) = {} THEN NoReceipt
    ELSE CHOOSE r \in Entries(o, a) : \A q \in Entries(o, a) \ {r} : Supersedes(q, r)

Winners(o) == {Winner(o, a) : a \in {b \in Attempts : Entries(o, b) # {}}}

\* Mutant: two files of an attempt are taken for corruption.
LoadableSingle(o) == \A a \in Attempts : Cardinality(Entries(o, a)) <= 1

\* load_entries fails, and with it persist, remove and admission, when two files of an
\* attempt are in conflict.
Loadable(o) ==
    \A a \in Attempts : \A r, q \in Entries(o, a) : r = q \/ Supersedes(r, q) \/ Supersedes(q, r)

AdmissionAvailable(o) == Loadable(o) /\ Cardinality(Winners(o)) < MaxEntries - Reserve

\* persist up to the hard_link that publishes the new file: an entry that is already there
\* or that its attempt's winner outranks is left alone, a full outbox refuses.
CanLink(o, r) ==
    /\ r \notin files[o]
    /\ Loadable(o)
    /\ Winner(o, r.a) # NoReceipt => Supersedes(Winner(o, r.a), r)
    /\ Cardinality(Winners(o)) < MaxEntries

Unlocked(o) == up[o] /\ writing[o] = NoReceipt

Link(o, r) ==
    /\ files' = [files EXCEPT ![o] = @ \cup {r}]
    /\ writing' = [writing EXCEPT ![o] = [new |-> r, old |-> Winner(o, r.a)]]

\* The rest of persist: the superseded file goes, the lock is released.  The provider then
\* sends the handoff frame; the session is over after its final receipt.
FinishPersist(o) ==
    /\ up[o] /\ writing[o] # NoReceipt
    /\ files' = [files EXCEPT ![o] = @ \ {writing[o].old}]
    /\ writing' = [writing EXCEPT ![o] = NoReceipt]
    /\ LET r == writing[o].new IN
       IF o = "provider"
       THEN /\ handoff' = [handoff EXCEPT ![r.a] = IF session[r.a] = "live" THEN r ELSE @]
            /\ session' = [session EXCEPT ![r.a] = IF r.final THEN "ended" ELSE @]
       ELSE UNCHANGED <<handoff, session>>
    /\ UNCHANGED <<up, signed, stored, task, wire, ledger, expired, journal, closeWire, crashes>>

\* A call of persist after the hard_link fails: the new file is published, the superseded
\* one may be left beside it until the next start compacts the directory, and the caller
\* gets an error instead of sending or taking the handoff.
PersistFails(o, left) ==
    /\ DiskFaults /\ crashes < MaxCrashes
    /\ up[o] /\ writing[o] # NoReceipt
    /\ crashes' = crashes + 1
    /\ files' = IF left THEN files ELSE [files EXCEPT ![o] = @ \ {writing[o].old}]
    /\ writing' = [writing EXCEPT ![o] = NoReceipt]
    /\ session' = [b \in Attempts |->
                      IF o = "provider" /\ b = writing[o].new.a THEN "ended" ELSE session[b]]
    /\ UNCHANGED <<up, signed, stored, handoff, task, wire, ledger, expired, journal, closeWire>>

----------------------------------------------------------------------------
(* Sessions.                                                               *)

\* s.open passes the local checks, among them room in both outboxes, and the provider has
\* the reservation recorded on the ledger (provider_session_spend_reservation_decision).
Open(a) ==
    /\ up["provider"] /\ up["gateway"]
    /\ session[a] = "idle"
    /\ AdmissionAvailable("provider") /\ AdmissionAvailable("gateway")
    /\ Cardinality({b \in Attempts : session[b] \in {"opening", "live"}}) < MaxSessions
    /\ session' = [session EXCEPT ![a] = "opening"]
    /\ resv' = [resv EXCEPT ![a] = "active"]
    /\ UNCHANGED <<disk, up, signed, stored, handoff, task, wire, head, closedBy, expired,
                   journal, closeWire, committed, crashes>>

\* The journal entry is written and its lock held before s.accept is sent and compute
\* starts.  A session that ends before leaves a reservation that only the buyer closes.
Admit(a) ==
    /\ up["provider"]
    /\ session[a] = "opening"
    /\ Cardinality({b \in Attempts : journal[b]}) < MaxEntries
    /\ session' = [session EXCEPT ![a] = "live"]
    /\ journal' = [journal EXCEPT ![a] = TRUE]
    /\ UNCHANGED <<disk, up, signed, stored, handoff, task, wire, ledger, expired, closeWire,
                   crashes>>

LastSeq(a) == IF signed[a] = NoReceipt THEN 0 ELSE signed[a].seq

\* The buyer's acknowledgement of the next receipt arrives (wait_for_provider_receipt_ack)
\* and the provider queues it durably before the handoff.  The buyer acknowledges a receipt
\* only after it has taken the handoff of the one before.
ReceiptAcked(a, fin) ==
    /\ Unlocked("provider") /\ up["gateway"]
    /\ session[a] = "live" /\ handoff[a] = NoReceipt
    /\ LastSeq(a) < MaxSeq
    /\ signed[a] # NoReceipt => ~signed[a].final
    /\ LET r == [a |-> a, seq |-> LastSeq(a) + 1, final |-> fin] IN
       /\ signed' = [signed EXCEPT ![a] = r]
       /\ IF CanLink("provider", r)
          THEN Link("provider", r) /\ UNCHANGED session
          ELSE session' = [session EXCEPT ![a] = "ended"] /\ UNCHANGED disk
    /\ UNCHANGED <<up, stored, handoff, task, wire, ledger, expired, journal, closeWire, crashes>>

\* The session ends without a final receipt: an engine error, a timeout of the admission or
\* later, a full journal, a disconnect.  The guard is released only when no persist of the
\* session is under way.
SessionEnds(a) ==
    /\ session[a] \in {"opening", "live"}
    /\ writing["provider"] # NoReceipt => writing["provider"].new.a # a
    /\ session' = [session EXCEPT ![a] = "ended"]
    /\ UNCHANGED <<disk, up, signed, stored, handoff, task, wire, ledger, expired, journal,
                   closeWire, crashes>>

\* The gateway takes the handoff: it stores the feature with its job and queues it.
HandoffReceived(a) ==
    /\ handoff[a] # NoReceipt /\ Unlocked("gateway")
    /\ stored' = [stored EXCEPT ![a] = handoff[a]]
    /\ handoff' = [handoff EXCEPT ![a] = NoReceipt]
    /\ IF CanLink("gateway", handoff[a]) THEN Link("gateway", handoff[a]) ELSE UNCHANGED disk
    /\ UNCHANGED <<up, session, signed, task, wire, ledger, expired, journal, closeWire, crashes>>

\* The connection breaks with the frame under way.
HandoffLost(a) ==
    /\ handoff[a] # NoReceipt
    /\ handoff' = [handoff EXCEPT ![a] = NoReceipt]
    /\ session' = [session EXCEPT ![a] = "ended"]
    /\ UNCHANGED <<disk, up, signed, stored, task, wire, ledger, expired, journal, closeWire,
                   crashes>>

\* reconcile_pending_gateway_job_once queues the stored feature of a checkpoint again on
\* every pass, until the reservation is closed.
Requeue(a) ==
    /\ Unlocked("gateway")
    /\ session[a] = "ended" /\ handoff[a] = NoReceipt
    /\ stored[a] # NoReceipt /\ stored[a] = signed[a] /\ ~stored[a].final
    /\ resv[a] = "active"
    /\ CanLink("gateway", stored[a])
    /\ Link("gateway", stored[a])
    /\ UNCHANGED <<up, session, signed, stored, handoff, task, wire, ledger, expired, journal,
                   closeWire, crashes>>

----------------------------------------------------------------------------
(* Submission.                                                             *)

\* flush_once submits the winners; the fresh worker any path that was queued for it and
\* still exists.
SubmitStart(o, w, r) ==
    /\ up[o] /\ task[o][w].r = NoReceipt
    /\ Loadable(o)
    /\ r \in IF w = "retry" THEN Winners(o) ELSE files[o]
    /\ task' = [task EXCEPT ![o][w] = [r |-> r, ans |-> "none"]]
    /\ wire' = wire \cup {r}
    /\ UNCHANGED <<disk, up, session, signed, stored, handoff, ledger, expired, journal,
                   closeWire, crashes>>

\* Mutant: the ledger knows no repeated receipt.
NeverIdempotent(r) == r.seq = 0

\* The contract's rule for a receipt (recordUsageReceipt): the same receipt again is
\* accepted, a higher one advances the head of an active reservation, a final one closes it.
Idempotent(r) == head[r.a].seq = r.seq /\ head[r.a].final = r.final
Advances(r)   == resv[r.a] = "active" /\ r.seq > head[r.a].seq /\ ~head[r.a].ready

\* The relay applies a receipt and answers everyone who waits for it.
Apply(r) ==
    /\ r \in wire
    /\ wire' = wire \ {r}
    /\ task' = [o \in Outboxes |-> [w \in Workers |->
                  IF task[o][w].r = r /\ task[o][w].ans = "none"
                  THEN [r |-> r, ans |-> IF Idempotent(r) \/ Advances(r) THEN "ok" ELSE "refused"]
                  ELSE task[o][w]]]
    /\ IF ~Idempotent(r) /\ Advances(r)
       THEN /\ head' = [head EXCEPT ![r.a] = [seq |-> r.seq, final |-> r.final, ready |-> r.final]]
            /\ committed' = committed \cup {r}
            /\ resv' = [resv EXCEPT ![r.a] = IF r.final THEN "closed" ELSE @]
            /\ closedBy' = [closedBy EXCEPT ![r.a] = IF r.final THEN "receipt" ELSE @]
       ELSE UNCHANGED ledger
    /\ UNCHANGED <<disk, up, session, signed, stored, handoff, expired, journal, closeWire, crashes>>

\* confirmed_receipt_settlement_record_matches: the confirmed head is ready to settle and
\* is exactly this entry.
Confirmed(r) == head[r.a].ready /\ Idempotent(r)

\* remove: nothing happens when the attempt's winner is another entry by now.
Removes(o, r) == r \in files[o] /\ Winner(o, r.a) = r

\* Mutant: an entry that was refused counts as dealt with.
SubmitEndAnyAnswer(o, w, heard) ==
    /\ Unlocked(o) /\ Loadable(o)
    /\ task[o][w].r # NoReceipt
    /\ heard => task[o][w].ans # "none"
    /\ LET r == task[o][w].r IN
       files' = IF (heard \/ Confirmed(r)) /\ Removes(o, r)
                THEN [files EXCEPT ![o] = @ \ {r}] ELSE files
    /\ task' = [task EXCEPT ![o][w] = NoTask]
    /\ UNCHANGED <<writing, up, session, signed, stored, handoff, wire, ledger, expired,
                   journal, closeWire, crashes>>

\* submit_entry takes the answer, or gives up waiting for it: an accepted or a confirmed
\* entry is removed, any other stays for the next pass.
SubmitEnd(o, w, heard) ==
    /\ Unlocked(o) /\ Loadable(o)
    /\ task[o][w].r # NoReceipt
    /\ heard => task[o][w].ans # "none"
    /\ LET r == task[o][w].r IN
       files' = IF ((heard /\ task[o][w].ans = "ok") \/ Confirmed(r)) /\ Removes(o, r)
                THEN [files EXCEPT ![o] = @ \ {r}] ELSE files
    /\ task' = [task EXCEPT ![o][w] = NoTask]
    /\ UNCHANGED <<writing, up, session, signed, stored, handoff, wire, ledger, expired,
                   journal, closeWire, crashes>>

----------------------------------------------------------------------------
(* Closing a reservation whose session is over.                            *)

\* Mutant: the close does not wait for the outbox.
RecoveryIgnoresOutbox(a) ==
    /\ up["provider"] /\ Loadable("provider")
    /\ journal[a] /\ session[a] = "ended"
    /\ resv[a] = "active" /\ ~head[a].ready
    /\ closeWire' = closeWire \cup {[a |-> a, seq |-> head[a].seq, by |-> "provider"]}
    /\ UNCHANGED <<disk, up, session, signed, stored, handoff, task, wire, ledger, expired,
                   journal, crashes>>

\* Mutant: only a reservation with a receipt is closed.
RecoveryNeedsHead(a) ==
    /\ head[a].seq > 0
    /\ RecoveryIgnoresOutbox(a)
    /\ Entries("provider", a) = {}

\* recover_one for an active reservation: the lock is free, no receipt of the reservation
\* waits in the provider's outbox, and the close names the head it read.
RecoverySubmits(a) ==
    /\ up["provider"] /\ Loadable("provider")
    /\ journal[a] /\ session[a] = "ended"
    /\ resv[a] = "active"
    /\ Entries("provider", a) = {}
    /\ ~head[a].ready
    /\ closeWire' = closeWire \cup {[a |-> a, seq |-> head[a].seq, by |-> "provider"]}
    /\ UNCHANGED <<disk, up, session, signed, stored, handoff, task, wire, ledger, expired,
                   journal, crashes>>

\* The gateway's side (failure_recovery::reconcile): only past canonical expiry and grace.
ExpirySubmits(a) ==
    /\ up["gateway"]
    /\ session[a] = "ended"
    /\ expired[a] /\ resv[a] = "active"
    /\ closeWire' = closeWire \cup {[a |-> a, seq |-> head[a].seq, by |-> "buyer"]}
    /\ UNCHANGED <<disk, up, session, signed, stored, handoff, task, wire, ledger, expired,
                   journal, crashes>>

\* closeUsageReservation: the close must name the head as it is when it is applied.
CloseApplies(c) ==
    /\ c \in closeWire
    /\ closeWire' = closeWire \ {c}
    /\ IF resv[c.a] = "active" /\ head[c.a].seq = c.seq /\ ~head[c.a].ready
       THEN /\ resv' = [resv EXCEPT ![c.a] = "closed"]
            /\ closedBy' = [closedBy EXCEPT ![c.a] = c.by]
            /\ head' = [head EXCEPT ![c.a].ready = c.seq > 0]
       ELSE UNCHANGED <<resv, closedBy, head>>
    /\ UNCHANGED <<disk, up, session, signed, stored, handoff, task, wire, expired, journal,
                   committed, crashes>>

\* recover_one for a closed reservation removes the journal entry.
RecoveryRetires(a) ==
    /\ up["provider"] /\ journal[a] /\ session[a] = "ended"
    /\ resv[a] = "closed"
    /\ journal' = [journal EXCEPT ![a] = FALSE]
    /\ UNCHANGED <<disk, up, session, signed, stored, handoff, task, wire, ledger, expired,
                   closeWire, crashes>>

ExpiryPasses(a) ==
    /\ BuyerExpiry /\ resv[a] = "active" /\ ~expired[a]
    /\ expired' = [expired EXCEPT ![a] = TRUE]
    /\ UNCHANGED <<disk, up, session, signed, stored, handoff, task, wire, ledger, journal,
                   closeWire, crashes>>

----------------------------------------------------------------------------
(* Crash and restart.                                                      *)

\* The process that owns the outbox dies: a persist stops after its hard_link, submissions
\* are forgotten, locks are released, sessions and the frames they sent are gone.
Crash(o) ==
    /\ up[o] /\ crashes < MaxCrashes
    /\ crashes' = crashes + 1
    /\ up' = [up EXCEPT ![o] = FALSE]
    /\ writing' = [writing EXCEPT ![o] = NoReceipt]
    /\ task' = [task EXCEPT ![o] = [w \in Workers |-> NoTask]]
    /\ session' = [a \in Attempts |-> IF session[a] = "idle" THEN "idle" ELSE "ended"]
    /\ handoff' = [a \in Attempts |-> NoReceipt]
    /\ UNCHANGED <<files, signed, stored, wire, ledger, expired, journal, closeWire>>

\* ReceiptSettlementOutbox::new compacts the directory to the winners.
Restart(o) ==
    /\ ~up[o] /\ Loadable(o)
    /\ up' = [up EXCEPT ![o] = TRUE]
    /\ files' = [files EXCEPT ![o] = Winners(o)]
    /\ UNCHANGED <<writing, session, signed, stored, handoff, task, wire, ledger, expired,
                   journal, closeWire, crashes>>

Next ==
    \/ \E a \in Attempts :
          \/ Open(a) \/ Admit(a) \/ SessionEnds(a) \/ HandoffReceived(a) \/ HandoffLost(a) \/ Requeue(a)
          \/ RecoverySubmits(a) \/ ExpirySubmits(a) \/ RecoveryRetires(a) \/ ExpiryPasses(a)
          \/ \E fin \in BOOLEAN : ReceiptAcked(a, fin)
    \/ \E o \in Outboxes :
          \/ FinishPersist(o) \/ Crash(o) \/ Restart(o)
          \/ \E left \in BOOLEAN : PersistFails(o, left)
          \/ \E w \in Workers : \/ \E r \in files[o] : SubmitStart(o, w, r)
                                \/ \E heard \in BOOLEAN : SubmitEnd(o, w, heard)
    \/ \E r \in wire : Apply(r)
    \/ \E c \in closeWire : CloseApplies(c)

Spec == Init /\ [][Next]_vars

\* The tasks that never stop: every lock is released, a crashed process is restarted, the
\* retry loop submits again and again, recovery passes over the journal, sessions end.
\* The network is fair: an answer that is awaited again and again is heard in the end.
\* That recovery comes round to every journal entry, though a pass takes eight of them, is
\* assumed here per attempt and not checked.
AnswersRetry(o) == \E r \in wire : task[o]["retry"].r = r /\ Apply(r)

Fairness ==
    /\ \A o \in Outboxes :
          /\ WF_vars(FinishPersist(o) \/ \E left \in BOOLEAN : PersistFails(o, left))
          /\ WF_vars(Restart(o))
          /\ WF_vars(\E r \in files[o] : SubmitStart(o, "retry", r))
          /\ WF_vars(\E heard \in BOOLEAN : SubmitEnd(o, "retry", heard))
          /\ SF_vars(SubmitEnd(o, "retry", TRUE))
          /\ SF_vars(AnswersRetry(o))
    /\ \A a \in Attempts :
          /\ WF_vars(SessionEnds(a))
          /\ WF_vars(HandoffReceived(a) \/ HandoffLost(a))
          /\ WF_vars(RecoverySubmits(a))
          /\ WF_vars(RecoveryRetires(a))
    /\ WF_vars(\E c \in closeWire : CloseApplies(c))

FairSpec == Spec /\ Fairness

----------------------------------------------------------------------------
(* Properties.                                                             *)

\* Two files of one attempt are never in conflict, whatever instant a crash left the
\* directory in: load_entries, and with it admission of paid work, never fails.
OutboxLoadable == \A o \in Outboxes : Loadable(o)

\* The provider's own close never freezes the ledger's high-water mark below a receipt that
\* still waits in its outbox (provider_failure_recovery.rs: "Give already-signed final or
\* checkpoint receipts their durable delivery opportunity").
CloseFreezesNothing ==
    \A a \in Attempts : closedBy[a] = "provider" =>
        \A r \in Entries("provider", a) : r.seq <= head[a].seq

\* Signed evidence leaves an outbox only for a higher receipt of the same attempt that is
\* there, or once the ledger has accepted it.
EvidenceDurable ==
    [][\A o \in Outboxes : \A r \in files[o] \ files'[o] :
          r \in committed' \/ \E q \in files'[o] : q.a = r.a /\ Supersedes(r, q)]_vars

\* While no reservation expires, they are closed only by the provider itself or by a final
\* receipt, so everything it queued is relayed and leaves the outbox (spawn_retry, remove).
\* The disk works here: a superseded file that a failed persist leaves comes up again when
\* its successor is removed, is refused by the ledger, and waits for the next start.
ProviderEntriesRetire ==
    \A r \in Receipts : r \in files["provider"] ~> r \notin files["provider"]

\* Every reservation whose compute was journaled is closed in the end and forgotten.
ReservationsClose == \A a \in Attempts : journal[a] ~> ~journal[a]

\* "retaining that already-canonical entry forever eventually blocks all new paid work":
\* an entry the ledger has accepted leaves the gateway's outbox.
CanonicalEntriesRetire ==
    \A r \in Receipts :
        (r \in files["gateway"] /\ r \in committed) ~> r \notin files["gateway"]
=============================================================================
