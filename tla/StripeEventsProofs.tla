-------------------------- MODULE StripeEventsProofs --------------------------
(***************************************************************************)
(* Proofs about the paygate's Stripe events for every set of payments and  *)
(* disputes, every amount and rate, and any number of webhook requests,    *)
(* lost answers and crashes.                                               *)
(***************************************************************************)
EXTENDS StripeEvents, TLAPS

\* proportional_chargeback_au returns a number.
LEMMA ProportionalInt ==
    ASSUME NEW au \in Nat, NEW c \in Nat, NEW m \in Nat \ {0}
    PROVE  Proportional(au, c, m) \in Nat
<1>1. au \div m \in Nat /\ au % m \in Nat
  OBVIOUS
<1>2. (au \div m) * c \in Nat /\ (au % m) * c \in Nat
  BY <1>1
<1>3. ((au % m) * c) \div m \in Nat
  BY <1>2
<1> QED
  BY <1>2, <1>3 DEF Proportional

\* A deposit of m cents at k au each divides without a remainder.
LEMMA ProportionalExact ==
    ASSUME NEW k \in Nat, NEW c \in Nat, NEW m \in Nat \ {0}
    PROVE  Proportional(m * k, c, m) = k * c
<1>1. (m * k) \div m = k /\ (m * k) % m = 0
  OBVIOUS
<1>2. 0 * c = 0 /\ 0 \div m = 0
  OBVIOUS
<1>3. m * k = k * m /\ k * c \in Nat
  OBVIOUS
<1> QED
  BY <1>1, <1>2, <1>3 DEF Proportional

----------------------------------------------------------------------------
Working(h) == task[h].step \in {"begin", "work", "wait"}

\* TypeOK with what each handler holds: an issued event, and a positive amount once it waits.
TypeInv ==
    /\ TypeOK
    /\ \A h \in Handlers : Working(h) => task[h].event \in issued
    /\ \A h \in Handlers : task[h].step = "wait" => task[h].au > 0

\* Recording an event keeps an index well typed.
LEMMA IndexTyped ==
    ASSUME NEW index \in IndexType, NEW e \in Events, NEW au \in Nat
    PROVE  Index(index, e, au) \in IndexType
<1>1. CASE e \in Disputes
  <2>1. Of[e] \in Payments /\ Minor[e] \in Nat
    BY <1>1, StripeAssumption DEF Events
  <2>2. [minor |-> index.totals[Of[e]].minor + Minor[e], au |-> index.totals[Of[e]].au + au]
            \in [minor : Nat, au : Nat]
    BY <2>1 DEF IndexType
  <2> QED
    BY <1>1, <2>1, <2>2 DEF Index, IndexType
<1>2. CASE e \notin Disputes
  BY <1>2 DEF Index, IndexType
<1> QED
  BY <1>1, <1>2

\* The amount a handler is about to post is a number.
LEMMA AmountTyped ==
    ASSUME TypeOK, NEW e \in Events
    PROVE  AuOf(e) \in Int
<1>1. CASE e \in Payments
  <2>1. Minor[e] \in Nat /\ AuPerCent \in Nat
    BY StripeAssumption
  <2> QED
    BY <1>1, <2>1 DEF AuOf, DepositAu
<1>2. CASE e \in Disputes /\ e \notin Payments
  <2>1. Of[e] \in Payments
    BY <1>2, StripeAssumption
  <2>2. Of[e] \in Events
    BY <2>1 DEF Events
  <2>3. Minor[Of[e]] \in Nat \ {0} /\ Minor[e] \in Nat /\ AuPerCent \in Nat
    BY <2>2, StripeAssumption
  <2>4. store.index.totals[Of[e]].minor \in Nat /\ store.index.totals[Of[e]].au \in Nat
    BY <2>1 DEF TypeOK, IndexType
  <2>5. DepositAu(Of[e]) \in Nat /\ Cumulative(e) \in Nat
    BY <2>3, <2>4 DEF DepositAu, Cumulative
  <2>6. Proportional(DepositAu(Of[e]), Cumulative(e), Minor[Of[e]]) \in Nat
    BY <2>3, <2>5, ProportionalInt
  <2> QED
    BY <1>2, <2>4, <2>6 DEF AuOf, Share
<1> QED
  BY <1>1, <1>2 DEF Events

\* Every step keeps the state well typed.
LEMMA TypeStep ==
    ASSUME TypeInv, [Next]_vars
    PROVE  TypeInv'
<1> USE DEF stripe, pass, past, faults, Handlers, Working
<1>0. TypeOK
  BY DEF TypeInv
<1>a. Backfill \notin Workers
  BY StripeAssumption
<1>1. ASSUME NEW e \in Events, Issue(e) PROVE TypeInv'
  BY <1>1 DEF TypeInv, TypeOK, Issue
<1>2. ASSUME NEW w \in Workers, NEW e \in Events, Deliver(w, e) PROVE TypeInv'
  <2>1. e \in issued /\ w \in Handlers
    BY <1>2 DEF Deliver
  <2>2. CASE Unrelated(e)
    BY <1>2, <2>1, <2>2 DEF TypeInv, TypeOK, Deliver
  <2>3. CASE ~Unrelated(e)
    <3>1. task' = [task EXCEPT ![w] = [step |-> "begin", event |-> e, au |-> 0]]
      BY <1>2, <2>3 DEF Deliver, Idle
    <3>2. delivered' \in [Events -> Nat]
      BY <1>2 DEF TypeInv, TypeOK, Deliver
    <3> QED
      BY <1>2, <2>1, <2>3, <3>1, <3>2 DEF TypeInv, TypeOK, Deliver
  <2> QED
    BY <2>2, <2>3
<1>3. ASSUME NEW h \in Handlers, Begin(h) PROVE TypeInv'
  <2>1. task[h].event \in issued /\ task[h].event \in Events
    BY <1>3 DEF TypeInv, TypeOK, Begin
  <2> QED
    BY <1>3, <2>1 DEF TypeInv, TypeOK, Begin, Succeed, Idle
<1>4. ASSUME NEW h \in Handlers, Fail(h), calls' \subseteq calls, lost' \in Nat PROVE TypeInv'
  BY <1>4 DEF TypeInv, TypeOK, Fail, Released, Error, Idle
<1>5. ASSUME NEW h \in Handlers, Post(h) PROVE TypeInv'
  <2>1. task[h].event \in issued /\ task[h].event \in Events
    BY <1>5 DEF TypeInv, TypeOK, Post
  <2>2. AuOf(task[h].event) \in Int
    BY <1>0, <2>1, AmountTyped
  <2>3. AuOf(task[h].event) > 0
    <3>1. CASE task[h].event \in Disputes
      BY <1>5, <2>2, <3>1 DEF Post, Refused
    <3>2. CASE task[h].event \in Payments
      <4>1. Minor[task[h].event] \in Nat \ {0} /\ AuPerCent \in Nat \ {0}
        BY <2>1, StripeAssumption
      <4> QED
        BY <3>2, <4>1 DEF AuOf, DepositAu
    <3> QED
      BY <2>1, <3>1, <3>2 DEF Events
  <2>4. AuOf(task[h].event) \in Nat
    BY <2>2, <2>3
  <2>5. store' \in [seen : SUBSET Events, processing : SUBSET Events,
                    sources : SUBSET Disputes, index : IndexType]
    BY <1>5 DEF TypeInv, TypeOK, Post
  <2> QED
    BY <1>5, <2>1, <2>3, <2>4, <2>5 DEF TypeInv, TypeOK, Post
<1>6. ASSUME NEW h \in Handlers, NEW written \in BOOLEAN, Record(h, written) PROVE TypeInv'
  <2>1. task[h].event \in issued /\ task[h].event \in Events /\ task[h].au \in Nat
    BY <1>6 DEF TypeInv, TypeOK, Record
  <2>2. /\ Index(disk, task[h].event, task[h].au) \in IndexType
        /\ Index(store.index, task[h].event, task[h].au) \in IndexType
    BY <1>0, <2>1, IndexTyped DEF TypeOK
  <2>3. disk' \in IndexType
    BY <1>6, <2>2 DEF Record, TypeInv, TypeOK
  <2>4. store' \in [seen : SUBSET Events, processing : SUBSET Events,
                    sources : SUBSET Disputes, index : IndexType]
    BY <1>6, <2>1, <2>2 DEF Record, TypeInv, TypeOK, Completed, Released
  <2>5. /\ acked' \subseteq issued /\ batch' \subseteq issued
        /\ \E idle \in {Idle, [Idle EXCEPT !.step = "next"]} : task' = [task EXCEPT ![h] = idle]
    BY <1>6, <2>1 DEF TypeInv, TypeOK, Record, Succeed, Error
  <2>6. PICK idle \in {Idle, [Idle EXCEPT !.step = "next"]} : task' = [task EXCEPT ![h] = idle]
    BY <2>5
  <2>7. /\ idle \in [step : {"idle", "next"}, event : {None}, au : {0}]
    BY DEF Idle
  <2>8. /\ calls' \subseteq calls
        /\ UNCHANGED <<issued, delivered, up, top, cursor, ledger, late, crashes>>
    BY <1>6 DEF Record
  <2>9. unwritten' \subseteq issued /\ lost' \in Nat
    BY <1>6, <2>1 DEF Record, TypeInv, TypeOK
  <2> QED
    BY <2>3, <2>4, <2>5, <2>6, <2>7, <2>8, <2>9 DEF TypeInv, TypeOK
<1>7. ASSUME NEW w \in Workers, Disconnect(w) PROVE TypeInv'
  BY <1>7 DEF TypeInv, TypeOK, Disconnect, Idle
<1>8. CASE ListPayments \/ ListDisputes
  BY <1>8 DEF TypeInv, TypeOK, ListPayments, ListDisputes, NotBefore, Idle
<1>9. CASE ListFails
  BY <1>9 DEF TypeInv, TypeOK, ListFails, Error, Idle
<1>10. CASE BackfillNext
  <2>1. PICK e \in batch :
            /\ batch' = batch \ {e} /\ top' = Later(top, e)
            /\ task' = IF Unrelated(e) THEN task
                       ELSE [task EXCEPT ![Backfill] = [Idle EXCEPT !.step = "begin", !.event = e]]
    BY <1>10 DEF BackfillNext
  <2>2. e \in issued /\ e \in Events /\ Backfill \in Handlers
    BY DEF TypeInv, TypeOK
  <2>3. top' \in {0} \cup {Created[x] : x \in issued}
    BY <2>1, <2>2 DEF Later, TypeInv, TypeOK
  <2>4. UNCHANGED <<stripe, up, store, disk, cursor, calls, ledger, past, faults>>
    BY <1>10 DEF BackfillNext
  <2> HIDE DEF Later
  <2>5. CASE Unrelated(e)
    BY <2>1, <2>3, <2>4, <2>5 DEF TypeInv, TypeOK
  <2>6. CASE ~Unrelated(e)
    <3> DEFINE begin == [Idle EXCEPT !.step = "begin", !.event = e]
    <3>1. begin \in [step : {"begin"}, event : {e}, au : {0}]
      BY DEF Idle
    <3>2. task' = [task EXCEPT ![Backfill] = begin]
      BY <2>1, <2>6
    <3> HIDE DEF begin
    <3>3. task' \in [Handlers -> [step : {"idle", "begin", "work", "wait", "list", "next"},
                                  event : Events \cup {None}, au : Nat]]
      BY <1>0, <2>2, <3>1, <3>2 DEF TypeOK
    <3>4. \A h \in Handlers : task'[h] \in {task[h], begin}
      BY <1>0, <2>2, <3>2 DEF TypeOK
    <3> QED
      BY <2>1, <2>2, <2>3, <2>4, <3>1, <3>3, <3>4 DEF TypeInv, TypeOK
  <2> QED
    BY <2>5, <2>6
<1>11. CASE SaveCursor
  BY <1>11 DEF TypeInv, TypeOK, SaveCursor, Idle
<1>12. ASSUME NEW c \in calls, Apply(c) PROVE TypeInv'
  <2>1. c \in [event : Events, au : Nat]
    BY DEF TypeInv, TypeOK
  <2>2. c.event \in Disputes => Of[c.event] \in Payments
    BY StripeAssumption
  <2> QED
    BY <1>12, <2>1, <2>2 DEF TypeInv, TypeOK, Apply, Admits
<1>13. ASSUME NEW c \in calls, Vanish(c) PROVE TypeInv'
  BY <1>13 DEF TypeInv, TypeOK, Vanish
<1>14. EmptyIndex \in IndexType
  BY DEF EmptyIndex, IndexType
<1>15. CASE Crash
  <2>1. store' \in [seen : SUBSET Events, processing : SUBSET Events,
                    sources : SUBSET Disputes, index : IndexType]
    BY <1>14, <1>15 DEF Crash, Loaded, IndexType
  <2>2. task' = [h \in Handlers |-> [step |-> "idle", event |-> None, au |-> 0]] /\ batch' = {}
    BY <1>15 DEF Crash, Idle
  <2>3. crashes' \in Nat /\ UNCHANGED <<stripe, disk, top, cursor, calls, ledger, past, lost>>
    BY <1>0, <1>15 DEF Crash, TypeOK
  <2>a. up' \in BOOLEAN
    BY <1>15 DEF Crash
  <2>4. task' \in [Handlers -> [step : {"idle", "begin", "work", "wait", "list", "next"},
                                event : Events \cup {None}, au : Nat]]
    BY <2>2
  <2>5. \A h \in Handlers : task'[h].step = "idle"
    BY <2>2
  <2>6. TypeOK'
    BY <1>0, <2>1, <2>2, <2>3, <2>a, <2>4 DEF TypeOK
  <2> QED
    BY <2>5, <2>6 DEF TypeInv
<1>16. CASE Restart
  BY <1>16 DEF TypeInv, TypeOK, Restart, Loaded, IndexType
<1>17. CASE UNCHANGED vars
  BY <1>17 DEF TypeInv, TypeOK, vars
<1>18. ASSUME NEW h \in Handlers, Refuse(h) \/ Rejected(h) \/ Unanswered(h) PROVE TypeInv'
  BY <1>0, <1>4, <1>18 DEF Refuse, Rejected, Unanswered, TypeOK
<1> QED
  BY <1>1, <1>2, <1>3, <1>5, <1>6, <1>7, <1>8, <1>9, <1>10, <1>11, <1>12, <1>13,
     <1>15, <1>16, <1>17, <1>18 DEF Next, Handle, Pull

\* The initial states satisfy the type invariant.
LEMMA TypeInit ==
    ASSUME Init
    PROVE  TypeInv
<1>1. EmptyIndex \in IndexType
  BY DEF EmptyIndex, IndexType
<1>2. store \in [seen : SUBSET Events, processing : SUBSET Events,
                sources : SUBSET Disputes, index : IndexType]
  BY <1>1 DEF Init, Loaded, EmptyIndex, IndexType
<1>3. task \in [Handlers -> [step : {"idle"}, event : {None}, au : {0}]]
  BY DEF Init, Idle
<1>4. up \in BOOLEAN
  BY DEF Init
<1>5. disk \in IndexType
  BY <1>1 DEF Init
<1>6. delivered \in [Events -> Nat] /\ ledger \in [au : [Events -> Nat], disputed : [Payments -> Nat]]
  BY DEF Init
<1>7. task \in [Handlers -> [step : {"idle", "begin", "work", "wait", "list", "next"},
                            event : Events \cup {None}, au : Nat]]
  BY <1>3
<1>8. \A h \in Handlers : task[h].step = "idle"
  BY <1>3
<1>9. TypeOK
  BY <1>2, <1>4, <1>5, <1>6, <1>7 DEF Init, TypeOK
<1> QED
  BY <1>8, <1>9 DEF TypeInv, Working

\* The paygate's state stays well typed: totals and amounts are never negative, and a saved
\* cursor is the second of an event Stripe has issued (run_stripe_backfill_once).
THEOREM EventsTyped == Spec => []TypeInv
<1> QED
  BY TypeInit, TypeStep, PTL DEF Spec

----------------------------------------------------------------------------
(* What is recorded has been applied.                                      *)

\* A step that records nothing, applies nothing and is no restart.
Quiet ==
    /\ disk' = disk /\ ledger' = ledger /\ unwritten' = unwritten
    /\ store'.index = store.index /\ store'.seen = store.seen

\* The steps that touch neither the index nor the ledger keep the type invariant.
LEMMA QuietStep ==
    ASSUME TypeInv,
           \/ \E e \in Events : Issue(e)
           \/ \E w \in Workers, e \in Events : Deliver(w, e)
           \/ \E h \in Handlers : \/ Begin(h) \/ Refuse(h) \/ Post(h)
                                \/ Rejected(h) \/ Unanswered(h)
           \/ \E w \in Workers : Disconnect(w)
           \/ Pull \/ ListFails
           \/ \E c \in calls : Vanish(c)
           \/ UNCHANGED vars
    PROVE  Quiet
<1> USE DEF Quiet, stripe, pass, past, faults
<1>1. /\ store = [store EXCEPT !.processing = store.processing]
      /\ "index" \in DOMAIN store /\ "seen" \in DOMAIN store
  BY DEF TypeInv, TypeOK
<1>2. ASSUME NEW e, Issue(e) PROVE Quiet
  BY <1>2 DEF Issue
<1>3. ASSUME NEW w, NEW e, Deliver(w, e) PROVE Quiet
  BY <1>3 DEF Deliver
<1>4. ASSUME NEW h, Begin(h) PROVE Quiet
  BY <1>1, <1>4 DEF Begin, TypeInv, TypeOK
<1>5. ASSUME NEW h, Fail(h) PROVE Quiet
  BY <1>1, <1>5 DEF Fail, Released, TypeInv, TypeOK
<1>6. ASSUME NEW h, Post(h) PROVE Quiet
  BY <1>1, <1>6 DEF Post, TypeInv, TypeOK
<1>7. ASSUME NEW w, Disconnect(w) PROVE Quiet
  BY <1>7 DEF Disconnect
<1>8. CASE Pull \/ ListFails
  BY <1>8 DEF Pull, ListFails, ListPayments, ListDisputes, BackfillNext, SaveCursor
<1>9. ASSUME NEW c, Vanish(c) PROVE Quiet
  BY <1>9 DEF Vanish
<1>10. CASE UNCHANGED vars
  BY <1>10 DEF vars
<1> QED
  BY <1>2, <1>3, <1>4, <1>5, <1>6, <1>7, <1>8, <1>9, <1>10 DEF Refuse, Rejected, Unanswered

\* Every step is quiet, or one of the four that are not.
LEMMA StepKinds ==
    ASSUME TypeInv, [Next]_vars
    PROVE  \/ Quiet
           \/ \E h \in Handlers : \E written \in BOOLEAN : Record(h, written)
           \/ \E c \in calls : Apply(c)
           \/ Crash \/ Restart
  BY QuietStep DEF Next, Handle

\* The records an index holds, once one more is added.
LEMMA IndexKnown ==
    ASSUME NEW index, NEW e, NEW au
    PROVE  Index(index, e, au).known = index.known \cup {e}
  BY DEF Index

\* RecordedIsApplied with the events whose record the disk refused.
AppliedInv ==
    /\ RecordedIsApplied
    /\ \A e \in unwritten : ledger.au[e] > 0

\* Every step keeps what is recorded, seen or refused by the disk applied.
LEMMA RecordedStep ==
    ASSUME TypeInv, AppliedInv, [Next]_vars
    PROVE  AppliedInv'
<1> USE DEF AppliedInv, RecordedIsApplied
<1>1. CASE Quiet
  BY <1>1 DEF Quiet
<1>2. ASSUME NEW h \in Handlers, NEW written \in BOOLEAN, Record(h, written)
      PROVE  AppliedInv'
  <2>1. task[h].event \in Events /\ task[h].au > 0
    BY <1>2 DEF Record, TypeInv, TypeOK, Working
  <2>2. ledger.au[task[h].event] > 0 /\ ledger' = ledger
    BY <1>2, <2>1 DEF Record, Proven
  <2>3. disk'.known \subseteq disk.known \cup {task[h].event}
    BY <1>2, IndexKnown DEF Record
  <2>4. store'.index.known \subseteq store.index.known \cup {task[h].event}
    BY <1>2, IndexKnown DEF Record, Completed, Released, TypeInv, TypeOK
  <2>5. /\ store'.seen = store.seen \cup {task[h].event}
        /\ unwritten' \subseteq unwritten \cup {task[h].event}
    BY <1>2 DEF Record, Completed, Released, TypeInv, TypeOK
  <2> QED
    BY <2>2, <2>3, <2>4, <2>5
<1>3. ASSUME NEW c \in calls, Apply(c) PROVE AppliedInv'
  <2>1. c.event \in Events /\ c.au \in Nat
    BY DEF TypeInv, TypeOK
  <2>2. \A e \in Events : ledger.au[e] > 0 => ledger'.au[e] > 0
    BY <1>3, <2>1 DEF Apply, Admits, TypeInv, TypeOK
  <2>3. disk' = disk /\ store' = store /\ unwritten' = unwritten
    BY <1>3 DEF Apply, past
  <2>4. /\ disk.known \subseteq Events /\ store.index.known \subseteq Events
        /\ store.seen \subseteq Events /\ unwritten \subseteq Events
    BY DEF TypeInv, TypeOK, IndexType
  <2> QED
    BY <2>2, <2>3, <2>4
<1>4. CASE Crash
  BY <1>4 DEF Crash, Loaded, EmptyIndex, past
<1>5. CASE Restart
  BY <1>5 DEF Restart, Loaded, past
<1> QED
  BY <1>1, <1>2, <1>3, <1>4, <1>5, StepKinds

\* The initial states have recorded nothing.
LEMMA AppliedInit ==
    ASSUME Init
    PROVE  AppliedInv
  BY DEF Init, AppliedInv, RecordedIsApplied, EmptyIndex, Loaded

\* An event in the log, or remembered as seen, has been credited or debited at the ledger,
\* whatever was lost or refused and whenever the process died (handle_stripe_event).
THEOREM RecordedOnlyIfApplied == Spec => []RecordedIsApplied
<1>1. AppliedInv => RecordedIsApplied
  BY DEF AppliedInv
<1> QED
  BY <1>1, AppliedInit, RecordedStep, EventsTyped, PTL DEF Spec

----------------------------------------------------------------------------
(* Every posted amount is the event's own.                                 *)

Exact(e) == Minor[e] * AuPerCent

ExactTotals(index) == \A p \in Payments : index.totals[p].au = AuPerCent * index.totals[p].minor

\* ExactShare with the totals in memory and in the log, and the amounts handlers wait for.
ExactInv ==
    /\ ExactShare
    /\ ExactTotals(disk) /\ ExactTotals(store.index)
    /\ \A h \in Handlers : task[h].step = "wait" => task[h].au = Exact(task[h].event)

\* Indexing an event with its exact share keeps the totals exact.
LEMMA ExactIndex ==
    ASSUME NEW index \in IndexType, NEW e \in Events, ExactTotals(index)
    PROVE  ExactTotals(Index(index, e, Exact(e)))
<1>1. Minor[e] \in Nat /\ AuPerCent \in Nat
  BY StripeAssumption
<1>2. CASE e \in Disputes
  <2>1. Of[e] \in Payments
    BY <1>2, StripeAssumption
  <2>2. index.totals[Of[e]].minor \in Nat /\ index.totals[Of[e]].au \in Nat
    BY <2>1 DEF IndexType
  <2>3. AuPerCent * (index.totals[Of[e]].minor + Minor[e])
            = AuPerCent * index.totals[Of[e]].minor + Minor[e] * AuPerCent
    BY <1>1, <2>2
  <2>4. index.totals[Of[e]].au = AuPerCent * index.totals[Of[e]].minor
    BY <2>1 DEF ExactTotals
  <2>5. index.totals[Of[e]].au + Exact(e) = AuPerCent * (index.totals[Of[e]].minor + Minor[e])
    BY <2>3, <2>4 DEF Exact
  <2>6. Index(index, e, Exact(e)).totals
            = [index.totals EXCEPT ![Of[e]] = [minor |-> @.minor + Minor[e], au |-> @.au + Exact(e)]]
    BY <1>2 DEF Index
  <2> QED
    BY <2>1, <2>5, <2>6 DEF ExactTotals, IndexType
<1>3. CASE e \notin Disputes
  BY <1>3 DEF Index, ExactTotals
<1> QED
  BY <1>2, <1>3

\* With exact totals, a dispute's share is its own amount, whatever came before it.
LEMMA ShareIsExact ==
    ASSUME TypeOK, ExactTotals(store.index), NEW e \in Events
    PROVE  AuOf(e) = Exact(e)
<1>1. CASE e \in Payments
  BY <1>1 DEF AuOf, DepositAu, Exact
<1>2. CASE e \in Disputes /\ e \notin Payments
  <2>1. Of[e] \in Payments /\ Of[e] \in Events
    BY <1>2, StripeAssumption DEF Events
  <2>2. Minor[Of[e]] \in Nat \ {0} /\ Minor[e] \in Nat /\ AuPerCent \in Nat
    BY <2>1, StripeAssumption
  <2>3. store.index.totals[Of[e]].minor \in Nat
    BY <2>1 DEF TypeOK, IndexType
  <2>4. Cumulative(e) \in Nat
    BY <2>2, <2>3 DEF Cumulative
  <2>5. Proportional(Minor[Of[e]] * AuPerCent, Cumulative(e), Minor[Of[e]]) = AuPerCent * Cumulative(e)
    BY <2>2, <2>4, ProportionalExact
  <2>6. store.index.totals[Of[e]].au = AuPerCent * store.index.totals[Of[e]].minor
    BY <2>1 DEF ExactTotals
  <2>7. AuPerCent * (store.index.totals[Of[e]].minor + Minor[e])
           - AuPerCent * store.index.totals[Of[e]].minor = Minor[e] * AuPerCent
    BY <2>2, <2>3
  <2>8. Share(e) = Exact(e)
    BY <2>5, <2>6, <2>7 DEF Share, DepositAu, Cumulative, Exact
  <2> QED
    BY <1>2, <2>8 DEF AuOf
<1> QED
  BY <1>1, <1>2 DEF Events

\* Every step keeps amounts exact.
LEMMA ExactStep ==
    ASSUME TypeInv, ExactInv, [Next]_vars
    PROVE  ExactInv'
<1> USE DEF stripe, pass, past, faults
<1>0. TypeOK
  BY DEF TypeInv
<1>1. ASSUME Quiet, calls' \subseteq calls,
             \A h \in Handlers : task'[h].step = "wait" => task'[h] = task[h]
      PROVE  ExactInv'
  BY <1>1 DEF ExactInv, ExactShare, ExactTotals, Exact, Quiet
<1>2. ASSUME NEW h \in Handlers, Post(h) PROVE ExactInv'
  <2>1. task[h].event \in Events
    BY <1>2 DEF TypeInv, TypeOK, Post, Working
  <2>2. AuOf(task[h].event) = Exact(task[h].event)
    BY <1>0, <2>1, ShareIsExact DEF ExactInv
  <2>3. Quiet
    BY <1>2, QuietStep
  <2>4. \A c \in calls' : c.au = Minor[c.event] * AuPerCent
    BY <1>2, <2>2 DEF Post, Exact, ExactInv, ExactShare
  <2>5. ASSUME NEW g \in Handlers, task'[g].step = "wait" PROVE task'[g].au = Exact(task'[g].event)
    <3>1. CASE g = h
      BY <1>2, <2>2, <3>1 DEF Post, TypeInv, TypeOK
    <3>2. CASE g # h
      BY <1>2, <2>5, <3>2 DEF Post, TypeInv, TypeOK, ExactInv
    <3> QED
      BY <3>1, <3>2
  <2> QED
    BY <2>3, <2>4, <2>5 DEF ExactInv, ExactShare, ExactTotals, Exact, Quiet
<1>3. ASSUME NEW h \in Handlers, NEW written \in BOOLEAN, Record(h, written) PROVE ExactInv'
  <2>1. task[h].event \in Events /\ task[h].au = Exact(task[h].event)
    BY <1>3 DEF Record, TypeInv, TypeOK, Working, ExactInv
  <2>2. disk \in IndexType /\ store.index \in IndexType
    BY DEF TypeInv, TypeOK
  <2>3. ExactTotals(disk')
    BY <1>3, <2>1, <2>2, ExactIndex DEF Record, ExactInv
  <2>4. store'.index = IF written THEN Index(store.index, task[h].event, task[h].au) ELSE store.index
    BY <1>3 DEF Record, Completed, Released, TypeInv, TypeOK
  <2>5. ExactTotals(store'.index)
    BY <2>1, <2>2, <2>4, ExactIndex DEF ExactInv
  <2>6. ledger' = ledger /\ calls' \subseteq calls
    BY <1>3 DEF Record
  <2>7. \A g \in Handlers : task'[g].step = "wait" => task'[g] = task[g]
    BY <1>3 DEF Record, Succeed, Error, Idle, TypeInv, TypeOK
  <2>8. ExactShare'
    BY <2>6 DEF ExactInv, ExactShare
  <2> QED
    BY <2>3, <2>5, <2>7, <2>8 DEF ExactInv, ExactTotals, Exact
<1>4. ASSUME NEW c \in calls, Apply(c) PROVE ExactInv'
  <2>1. c \in [event : Events, au : Nat] /\ c.au = Minor[c.event] * AuPerCent
    BY DEF TypeInv, TypeOK, ExactInv, ExactShare
  <2>2. \A e \in Events : ledger'.au[e] = ledger.au[e] \/ (e = c.event /\ ledger'.au[e] = c.au)
    BY <1>4, <2>1 DEF Apply, TypeInv, TypeOK
  <2>3. ExactShare'
    BY <1>4, <2>1, <2>2 DEF ExactInv, ExactShare, Apply
  <2> QED
    BY <1>4, <2>3 DEF ExactInv, ExactTotals, Exact, Apply
<1>5. CASE Crash
  <2>1. ExactTotals(EmptyIndex)
    <3>1. AuPerCent * 0 = 0
      BY StripeAssumption
    <3> QED
      BY <3>1 DEF ExactTotals, EmptyIndex
  <2>2. store'.index = EmptyIndex
    BY <1>5 DEF Crash, Loaded
  <2>3. \A h \in Handlers : task'[h].step # "wait"
    BY <1>5 DEF Crash, Idle
  <2>4. disk' = disk /\ ledger' = ledger /\ calls' = calls
    BY <1>5 DEF Crash
  <2> QED
    BY <2>1, <2>2, <2>3, <2>4 DEF ExactInv, ExactShare, ExactTotals
<1>6. CASE Restart
  BY <1>6 DEF Restart, Loaded, ExactInv, ExactShare, ExactTotals, Exact
<1>7. ASSUME NEW h \in Handlers, Begin(h) \/ Refuse(h) \/ Rejected(h) \/ Unanswered(h)
      PROVE  ExactInv'
  <2>1. Quiet
    BY <1>7, QuietStep
  <2>2. calls' = calls
    BY <1>7 DEF Begin, Refuse, Rejected, Unanswered
  <2>3. \A g \in Handlers : task'[g].step = "wait" => task'[g] = task[g]
    BY <1>7 DEF Begin, Succeed, Refuse, Rejected, Unanswered, Fail, Error, Idle, TypeInv, TypeOK
  <2> QED
    BY <1>1, <2>1, <2>2, <2>3
<1>8. CASE \/ \E e \in Events : Issue(e)
           \/ \E w \in Workers, e \in Events : Deliver(w, e)
           \/ \E w \in Workers : Disconnect(w)
           \/ Pull \/ ListFails
           \/ \E c \in calls : Vanish(c)
           \/ UNCHANGED vars
  <2>1. Quiet
    BY <1>8, QuietStep
  <2>2. calls' \subseteq calls
    BY <1>8 DEF Issue, Deliver, Disconnect, Pull, ListPayments, ListDisputes, BackfillNext,
                SaveCursor, ListFails, Vanish, vars
  <2> DEFINE Waits == \A h \in Handlers : task'[h].step = "wait" => task'[h] = task[h]
  <2>3. ASSUME NEW h \in Handlers, NEW t, t.step # "wait", task' = [task EXCEPT ![h] = t]
        PROVE  Waits
    BY <2>3 DEF TypeInv, TypeOK
  <2>4. ASSUME NEW w \in Workers, NEW e, Deliver(w, e) PROVE Waits
    <3>1. [Idle EXCEPT !.step = "begin", !.event = e].step = "begin" /\ w \in Handlers
      BY DEF Idle, Handlers
    <3> QED
      BY <2>3, <2>4, <3>1 DEF Deliver
  <2>6. ASSUME NEW w \in Workers, Disconnect(w) PROVE Waits
    BY <2>3, <2>6 DEF Disconnect, Idle, Handlers
  <2>7. ASSUME ListPayments \/ ListDisputes \/ SaveCursor \/ ListFails PROVE Waits
    <3>1. Backfill \in Handlers /\ Idle.step = "idle"
      BY DEF Idle, Handlers
    <3>2. CASE ListPayments \/ ListDisputes
      BY <3>1, <3>2 DEF ListPayments, ListDisputes, TypeInv, TypeOK
    <3>3. CASE SaveCursor \/ ListFails
      BY <2>3, <3>1, <3>3 DEF SaveCursor, ListFails, Error
    <3> QED
      BY <2>7, <3>2, <3>3
  <2>8. ASSUME BackfillNext PROVE Waits
    <3>1. PICK e \in batch : task' = IF Unrelated(e) THEN task
                       ELSE [task EXCEPT ![Backfill] = [Idle EXCEPT !.step = "begin", !.event = e]]
      BY <2>8 DEF BackfillNext
    <3>2. [Idle EXCEPT !.step = "begin", !.event = e].step = "begin" /\ Backfill \in Handlers
      BY DEF Idle, Handlers
    <3>3. CASE Unrelated(e)
      BY <3>1, <3>3
    <3>4. CASE ~Unrelated(e)
      BY <2>3, <3>1, <3>2, <3>4
    <3> QED
      BY <3>3, <3>4
  <2>5. ASSUME NEW e, NEW c, Issue(e) \/ Vanish(c) PROVE task' = task
    BY <2>5 DEF Issue, Vanish
  <2> QED
    BY <1>1, <1>8, <2>1, <2>2, <2>4, <2>5, <2>6, <2>7, <2>8 DEF Pull, vars
<1> QED
  BY <1>2, <1>3, <1>4, <1>5, <1>6, <1>7, <1>8 DEF Next, Handle

\* A retry of a dispute asks for the amount of the first attempt: what the ledger moves for
\* an event is the event's amount at the fixed rate (proportional_chargeback_au).
THEOREM SharesAreExact == Spec => []ExactShare
<1>1. Init => ExactInv
  <2>1. AuPerCent * 0 = 0
    BY StripeAssumption
  <2> QED
    BY <2>1 DEF Init, ExactInv, ExactShare, ExactTotals, Loaded, EmptyIndex, Idle
<1>2. ExactInv => ExactShare
  BY DEF ExactInv
<1> QED
  BY <1>1, <1>2, ExactStep, EventsTyped, PTL DEF Spec

----------------------------------------------------------------------------
(* The cursor leaves nothing behind.                                       *)

\* Memory agrees with the log, and silent events are in the backfill's hands only.
HouseInv ==
    /\ up => store.index.known = disk.known
    /\ ~up => \A h \in Handlers : task[h].step = "idle"
    /\ \A w \in Workers : Working(w) => task[w].event \notin Silent
    /\ \A e \in store.processing \cap Silent :
          task[Backfill].step \in {"work", "wait"} /\ task[Backfill].event = e
    /\ store.seen \cap Silent \subseteq disk.known \cup unwritten
    /\ \A d \in issued \cap Disputes : Of[d] \in issued

\* What a handler that ends leaves of the store, the log and the tasks.
LEMMA ReleaseStep ==
    ASSUME TypeInv, NEW h \in Handlers, Working(h), NEW idle,
           idle.step \notin {"begin", "work", "wait"},
           HouseInv, task' = [task EXCEPT ![h] = idle],
           store'.processing = store.processing \ {task[h].event}
    PROVE  /\ \A w \in Workers : Working(w)' => task'[w].event \notin Silent
           /\ \A e \in store'.processing \cap Silent :
                 task'[Backfill].step \in {"work", "wait"} /\ task'[Backfill].event = e
<1>1. ASSUME NEW w \in Workers, Working(w)' PROVE task'[w] = task[w] /\ w # h
  BY <1>1 DEF Working, TypeInv, TypeOK, Handlers
<1>2. ASSUME NEW e \in store'.processing \cap Silent
      PROVE  /\ task'[Backfill] = task[Backfill]
             /\ task[Backfill].step \in {"work", "wait"} /\ task[Backfill].event = e
  <2>1. task[Backfill].event = e /\ e # task[h].event /\ task[Backfill].step \in {"work", "wait"}
    BY <1>2 DEF HouseInv
  <2> QED
    BY <2>1 DEF TypeInv, TypeOK, Handlers
<1> QED
  BY <1>1, <1>2 DEF HouseInv, Working

\* Every step keeps the bookkeeping of a pass.
LEMMA HouseStep ==
    ASSUME TypeInv, HouseInv, [Next]_vars
    PROVE  HouseInv'
<1> USE DEF stripe, pass, past, faults
<1>a. Backfill \notin Workers /\ Backfill \in Handlers /\ Workers \subseteq Handlers
  BY StripeAssumption DEF Handlers
<1>b. Idle.step = "idle"
  BY DEF Idle
<1>1. ASSUME NEW e \in Events, Issue(e) PROVE HouseInv'
  BY <1>1 DEF Issue, HouseInv, Working
<1>2. ASSUME NEW w \in Workers, NEW e \in Events, Deliver(w, e) PROVE HouseInv'
  <2>1. up /\ e \notin Silent /\ UNCHANGED <<issued, up, store, disk, unwritten>>
    BY <1>2 DEF Deliver
  <2>2. task' = task \/ task' = [task EXCEPT ![w] = [Idle EXCEPT !.step = "begin", !.event = e]]
    BY <1>2 DEF Deliver
  <2>3. [Idle EXCEPT !.step = "begin", !.event = e].event = e
    BY DEF Idle
  <2>4. task'[Backfill] = task[Backfill]
    BY <1>a, <2>2 DEF TypeInv, TypeOK
  <2>5. \A g \in Workers : task'[g] = task[g] \/ task'[g].event = e
    BY <1>a, <2>2, <2>3 DEF TypeInv, TypeOK
  <2> QED
    BY <2>1, <2>4, <2>5 DEF HouseInv, Working
<1>3. ASSUME NEW h \in Handlers, Begin(h) PROVE HouseInv'
  <2>1. UNCHANGED <<issued, up, disk, unwritten>> /\ store'.index = store.index /\ store'.seen = store.seen
    BY <1>3 DEF Begin, TypeInv, TypeOK
  <2>2. up
    BY <1>3 DEF Begin, HouseInv
  <2>3. \A g \in Handlers : g # h => task'[g] = task[g]
    BY <1>3 DEF Begin, Succeed, TypeInv, TypeOK
  <2>4. CASE Claimed(task[h].event)
    <3>1. task'[h].step \in {"idle", "next"} /\ store' = store
      BY <1>3, <1>b, <2>4 DEF Begin, Succeed, Idle, TypeInv, TypeOK
    <3>2. \A e \in store.processing \cap Silent : Backfill # h
      BY <1>3 DEF Begin, HouseInv
    <3>3. \A w \in Workers : Working(w)' => task'[w].event \notin Silent
      BY <1>a, <2>3, <3>1 DEF Working, HouseInv
    <3> QED
      BY <1>a, <2>1, <2>2, <2>3, <3>1, <3>2, <3>3 DEF HouseInv
  <2>5. CASE ~Claimed(task[h].event)
    <3>1. /\ store'.processing = store.processing \cup {task[h].event}
          /\ task'[h].step = "work" /\ task'[h].event = task[h].event
      BY <1>3, <2>5 DEF Begin, TypeInv, TypeOK
    <3>2. h # Backfill => task[h].event \notin Silent
      BY <1>3 DEF Begin, HouseInv, Working, Handlers
    <3>3. \A w \in Workers : Working(w)' => task'[w].event \notin Silent
      BY <1>3, <1>a, <2>3, <3>1, <3>2 DEF Working, HouseInv
    <3>4. \A e \in store.processing \cap Silent : Backfill # h
      BY <1>3 DEF Begin, HouseInv
    <3>5. \A e \in store'.processing \cap Silent :
             task'[Backfill].step \in {"work", "wait"} /\ task'[Backfill].event = e
      BY <1>a, <2>3, <3>1, <3>2, <3>4 DEF HouseInv
    <3> QED
      BY <2>1, <2>2, <3>3, <3>5 DEF HouseInv
  <2> QED
    BY <2>4, <2>5
<1>4. ASSUME NEW h \in Handlers, Working(h), Fail(h) PROVE HouseInv'
  <2>1. /\ UNCHANGED <<issued, up, disk, unwritten>> /\ store'.index = store.index
        /\ store'.seen = store.seen /\ store'.processing = store.processing \ {task[h].event}
    BY <1>4 DEF Fail, Released, TypeInv, TypeOK
  <2>2. up
    BY <1>4 DEF HouseInv, Working
  <2>3. task' = [task EXCEPT ![h] = Idle]
    BY <1>4 DEF Fail, Error
  <2> QED
    BY <1>4, <1>b, <2>1, <2>2, <2>3, ReleaseStep DEF HouseInv
<1>5. ASSUME NEW h \in Handlers, Post(h) PROVE HouseInv'
  <2>1. /\ UNCHANGED <<issued, up, disk, unwritten>> /\ store'.index = store.index
        /\ store'.seen = store.seen /\ store'.processing = store.processing
    BY <1>5 DEF Post, TypeInv, TypeOK
  <2>2. up /\ Working(h)
    BY <1>5 DEF Post, HouseInv, Working
  <2>3. /\ \A g \in Handlers : g # h => task'[g] = task[g]
        /\ task'[h].step = "wait" /\ task'[h].event = task[h].event
    BY <1>5 DEF Post, TypeInv, TypeOK
  <2> QED
    BY <1>a, <2>1, <2>2, <2>3 DEF HouseInv, Working
<1>6. ASSUME NEW h \in Handlers, NEW written \in BOOLEAN, Record(h, written) PROVE HouseInv'
  <2>1. /\ UNCHANGED <<issued, up>>
        /\ store'.processing = store.processing \ {task[h].event}
        /\ store'.seen = store.seen \cup {task[h].event}
    BY <1>6 DEF Record, Completed, Released, TypeInv, TypeOK
  <2>2. up /\ Working(h)
    BY <1>6 DEF Record, HouseInv, Working
  <2>3. PICK idle \in {Idle, [Idle EXCEPT !.step = "next"]} : task' = [task EXCEPT ![h] = idle]
    BY <1>6 DEF Record, Succeed, Error
  <2>4. idle.step \notin {"begin", "work", "wait"}
    BY DEF Idle
  <2>5. store'.index.known = disk'.known /\ disk.known \subseteq disk'.known
    <3>1. store'.index = IF written THEN Index(store.index, task[h].event, task[h].au)
                                    ELSE store.index
      BY <1>6 DEF Record, Completed, Released, TypeInv, TypeOK
    <3>2. disk' = IF written THEN Index(disk, task[h].event, task[h].au) ELSE disk
      BY <1>6 DEF Record
    <3>3. store.index.known = disk.known
      BY <2>2 DEF HouseInv
    <3>4. CASE written
      <4>1. /\ store'.index.known = store.index.known \cup {task[h].event}
            /\ disk'.known = disk.known \cup {task[h].event}
        BY <3>1, <3>2, <3>4, IndexKnown
      <4> QED
        BY <3>3, <4>1
    <3>5. CASE ~written
      BY <3>1, <3>2, <3>3, <3>5
    <3> QED
      BY <3>4, <3>5
  <2>6. task[h].event \in disk'.known \cup unwritten' /\ unwritten \subseteq unwritten'
    BY <1>6, IndexKnown DEF Record
  <2> QED
    BY <2>1, <2>2, <2>3, <2>4, <2>5, <2>6, ReleaseStep DEF HouseInv
<1>7. ASSUME NEW w \in Workers, Disconnect(w) PROVE HouseInv'
  <2>1. \A h \in Handlers : task'[h] \in {task[h], Idle}
    BY <1>7, <1>a DEF Disconnect, TypeInv, TypeOK
  <2>2. task'[Backfill] = task[Backfill]
    BY <1>7, <1>a DEF Disconnect, TypeInv, TypeOK
  <2> QED
    BY <1>7, <1>a, <1>b, <2>1, <2>2 DEF Disconnect, HouseInv, Working
<1>8. CASE Pull \/ ListFails
  <2>1. UNCHANGED <<issued, up, store, disk, unwritten>> /\ \A w \in Workers : task'[w] = task[w]
    BY <1>8, <1>a DEF Pull, ListPayments, ListDisputes, BackfillNext, SaveCursor, ListFails,
                      Error, TypeInv, TypeOK
  <2>2. task[Backfill].step \notin {"begin", "work", "wait"} /\ up
    BY <1>8, <1>a, <1>b DEF Pull, ListPayments, ListDisputes, BackfillNext, SaveCursor, ListFails,
                            HouseInv
  <2> QED
    BY <2>1, <2>2 DEF HouseInv, Working
<1>9. ASSUME NEW c, Apply(c) \/ Vanish(c) PROVE HouseInv'
  BY <1>9 DEF Apply, Vanish, HouseInv, Working
<1>10. CASE Crash
  BY <1>10, <1>a, <1>b DEF Crash, Loaded, EmptyIndex, HouseInv, Working
<1>11. CASE Restart
  BY <1>11, <1>a DEF Restart, Loaded, HouseInv, Working
<1>12. CASE UNCHANGED vars
  BY <1>12 DEF vars, HouseInv, Working
<1>13. ASSUME NEW h \in Handlers, Refuse(h) \/ Rejected(h) \/ Unanswered(h) PROVE HouseInv'
  BY <1>4, <1>13 DEF Refuse, Rejected, Unanswered, Working
<1> QED
  BY <1>1, <1>2, <1>3, <1>5, <1>6, <1>7, <1>8, <1>9, <1>10, <1>11, <1>12, <1>13 DEF Next, Handle

\* What a covered event counts as once the cursor has passed it.
Kept == disk.known \cup unwritten

\* During a pass, a covered event is kept, in the batch, being handled, or not older than
\* the cursor the pass will save and than what is left of the batch.
Due(e) ==
    \/ e \in Kept \cup batch
    \/ Working(Backfill) /\ task[Backfill].event = e
    \/ Created[e] >= top /\ \A b \in batch : Created[b] <= Created[e]

\* The first list of a pass misses no payment but those created since.
Listed ==
    /\ top = cursor
    /\ \A p \in issued \cap Payments : p \notin late /\ Created[p] >= cursor => p \in batch

PassInv ==
    /\ \A e \in Events : Covered(e) /\ Created[e] < cursor => e \in Kept
    /\ task[Backfill].step = "list" => Listed
    /\ (task[Backfill].step = "next" \/ Working(Backfill)) =>
          \A e \in Events : Covered(e) => Due(e)

\* An event that was issued is covered after a step only if it was before.
LEMMA CoveredBefore ==
    ASSUME issued' = issued, late \subseteq late', unwritten \subseteq unwritten', NEW e, Covered(e)'
    PROVE  Covered(e)
  BY DEF Covered

\* The backfill loop rests: only what the saved cursor passed is of interest.
LEMMA PassRests ==
    ASSUME PassInv, cursor' = cursor, issued' = issued, late' = late,
           disk.known \subseteq disk'.known, unwritten \subseteq unwritten',
           task'[Backfill].step = "idle"
    PROVE  PassInv'
<1>1. \A e : Covered(e)' => Covered(e)
  BY CoveredBefore
<1>2. Kept \subseteq Kept'
  BY DEF Kept
<1> QED
  BY <1>1, <1>2 DEF PassInv, Working

\* The pass stays where it is while the log may grow.
LEMMA PassStays ==
    ASSUME PassInv, cursor' = cursor, issued' = issued, top' = top, batch' = batch,
           late' = late, disk.known \subseteq disk'.known, unwritten \subseteq unwritten',
           task'[Backfill].event = task[Backfill].event,
           task'[Backfill].step = "list" => task[Backfill].step = "list",
           Working(Backfill)' = Working(Backfill),
           task'[Backfill].step = "next" => task[Backfill].step = "next"
    PROVE  PassInv'
<1>1. \A e : Covered(e)' => Covered(e)
  BY CoveredBefore
<1>2. task'[Backfill].step = "list" => Listed'
  BY DEF PassInv, Listed
<1>3. \A e : Due(e) => Due(e)'
  BY DEF Due, Kept
<1>4. Kept \subseteq Kept'
  BY DEF Kept
<1> QED
  BY <1>1, <1>2, <1>3, <1>4 DEF PassInv

\* Every step keeps what a pass has behind it recorded.
LEMMA PassStep ==
    ASSUME TypeInv, HouseInv, PassInv, [Next]_vars
    PROVE  PassInv'
<1> USE DEF stripe, pass, past, faults
<1>a. Backfill \notin Workers /\ Backfill \in Handlers /\ Workers \subseteq Handlers
  BY StripeAssumption DEF Handlers
<1>b. Idle.step = "idle"
  BY DEF Idle
<1>c. \A e \in Events : Created[e] \in Nat
  BY StripeAssumption
<1>d. /\ issued \subseteq Events /\ batch \subseteq issued
      /\ top \in {0} \cup {Created[e] : e \in issued}
      /\ cursor \in {0} \cup {Created[e] : e \in issued}
  BY DEF TypeInv, TypeOK
<1>1. ASSUME NEW e \in Events, Issue(e) PROVE PassInv'
  <2>1. /\ UNCHANGED <<disk, task, batch, top, cursor, unwritten>> /\ issued' = issued \cup {e}
        /\ \A other \in issued : Created[other] <= Created[e]
        /\ late' = IF task[Backfill].step = "list" THEN late \cup {e} ELSE late
    BY <1>1 DEF Issue
  <2>2. Created[e] >= cursor /\ Created[e] >= top
    BY <1>c, <1>d, <2>1
  <2>3. \A f \in Events : f # e /\ Covered(f)' => Covered(f)
    BY <2>1 DEF Covered
  <2>4. Kept' = Kept
    BY <2>1 DEF Kept
  <2>5. \A f \in Events : Covered(f)' /\ Created[f] < cursor' => f \in Kept'
    BY <1>c, <1>d, <2>1, <2>2, <2>3, <2>4 DEF PassInv
  <2>6. CASE task[Backfill].step = "list"
    <3>1. Listed'
      BY <1>c, <2>1, <2>6 DEF PassInv, Listed
    <3> QED
      BY <2>1, <2>5, <2>6, <3>1 DEF PassInv, Working
  <2>7. CASE task[Backfill].step # "list"
    <3>1. Due(e)'
      BY <1>d, <2>1, <2>2 DEF Due
    <3>2. \A f : Due(f) => Due(f)'
      BY <2>1, <2>4 DEF Due, Working
    <3> QED
      BY <2>1, <2>3, <2>5, <2>7, <3>1, <3>2 DEF PassInv, Working
  <2> QED
    BY <2>6, <2>7
<1>2. ASSUME NEW w \in Workers, NEW e \in Events, Deliver(w, e) PROVE PassInv'
  <2>1. task'[Backfill] = task[Backfill] /\ UNCHANGED <<issued, disk, batch, top, cursor, late, unwritten>>
    BY <1>2, <1>a DEF Deliver, TypeInv, TypeOK
  <2> QED
    BY <2>1, PassStays DEF Working
<1>3. ASSUME NEW h \in Workers, Begin(h) \/ Fail(h) \/ Post(h) PROVE PassInv'
  <2>1. task'[Backfill] = task[Backfill] /\ UNCHANGED <<issued, disk, batch, top, cursor, late, unwritten>>
    BY <1>3, <1>a DEF Begin, Succeed, Fail, Error, Post, TypeInv, TypeOK
  <2> QED
    BY <2>1, PassStays DEF Working
<1>4. ASSUME NEW h \in Workers, NEW written \in BOOLEAN, Record(h, written) PROVE PassInv'
  <2>1. task'[Backfill] = task[Backfill] /\ UNCHANGED <<issued, batch, top, cursor, late>>
    BY <1>4, <1>a DEF Record, Succeed, Error, TypeInv, TypeOK
  <2>2. disk.known \subseteq disk'.known /\ unwritten \subseteq unwritten'
    BY <1>4, IndexKnown DEF Record
  <2> QED
    BY <2>1, <2>2, PassStays DEF Working
<1>5. CASE Begin(Backfill)
  <2>1. UNCHANGED <<issued, disk, batch, top, cursor, late, unwritten>> /\ Working(Backfill)
    BY <1>5 DEF Begin, Working
  <2>2. CASE Claimed(task[Backfill].event)
    <3>1. task'[Backfill].step = "next"
      BY <1>5, <1>a, <2>2 DEF Begin, Succeed, Idle, TypeInv, TypeOK
    <3>2. task[Backfill].event \in Silent => task[Backfill].event \in Kept
      BY <1>5, <2>2 DEF Begin, Claimed, HouseInv, Kept
    <3>3. Kept' = Kept /\ \A e : Covered(e)' => Covered(e) /\ e \in Silent
      BY <2>1 DEF Kept, Covered
    <3>4. \A e \in Silent : Due(e) => Due(e)'
      BY <2>1, <3>2, <3>3 DEF Due
    <3> QED
      BY <2>1, <3>1, <3>3, <3>4 DEF PassInv
  <2>3. CASE ~Claimed(task[Backfill].event)
    <3>1. task'[Backfill].step = "work" /\ task'[Backfill].event = task[Backfill].event
      BY <1>5, <1>a, <2>3 DEF Begin, TypeInv, TypeOK
    <3> QED
      BY <2>1, <3>1, PassStays DEF Working
  <2> QED
    BY <2>2, <2>3
<1>6. CASE Fail(Backfill)
  <2>1. task'[Backfill].step = "idle" /\ UNCHANGED <<issued, cursor, disk, late, unwritten>>
    BY <1>6, <1>a, <1>b DEF Fail, Error, TypeInv, TypeOK
  <2> QED
    BY <2>1, PassRests
<1>7. CASE Post(Backfill)
  <2>1. /\ task'[Backfill].step = "wait" /\ task'[Backfill].event = task[Backfill].event
        /\ UNCHANGED <<issued, disk, batch, top, cursor, late, unwritten>> /\ Working(Backfill)
    BY <1>7, <1>a DEF Post, TypeInv, TypeOK, Working
  <2> QED
    BY <2>1, PassStays DEF Working
<1>8. ASSUME NEW written \in BOOLEAN, Record(Backfill, written) PROVE PassInv'
  <2>1. UNCHANGED <<issued, top, cursor, late>> /\ Working(Backfill)
    BY <1>8 DEF Record, Working
  <2>2. disk.known \subseteq disk'.known /\ unwritten \subseteq unwritten'
    BY <1>8, IndexKnown DEF Record
  <2>3. CASE written
    <3>1. task'[Backfill].step = "next" /\ batch' = batch
      BY <1>8, <1>a, <2>3 DEF Record, Succeed, Idle, TypeInv, TypeOK
    <3>2. task[Backfill].event \in Kept' /\ Kept \subseteq Kept'
      BY <1>8, <2>2, <2>3, IndexKnown DEF Record, Kept
    <3>3. \A e : Due(e) => Due(e)'
      BY <2>1, <3>1, <3>2 DEF Due
    <3>4. \A e : Covered(e)' => Covered(e)
      BY <2>1, <2>2, CoveredBefore
    <3> QED
      BY <2>1, <3>1, <3>2, <3>3, <3>4 DEF PassInv
  <2>4. CASE ~written
    <3>1. task'[Backfill].step = "idle"
      BY <1>8, <1>a, <1>b, <2>4 DEF Record, Error, TypeInv, TypeOK
    <3> QED
      BY <2>1, <2>2, <3>1, PassRests
  <2> QED
    BY <2>3, <2>4
<1>9. CASE ListPayments
  <2>1. task'[Backfill].step = "list" /\ UNCHANGED <<issued, cursor, disk, late, unwritten>>
    BY <1>9, <1>a DEF ListPayments, TypeInv, TypeOK
  <2>2. Listed'
    BY <1>9, <2>1 DEF ListPayments, NotBefore, Listed
  <2>3. Kept' = Kept /\ \A e : Covered(e)' => Covered(e)
    BY <2>1 DEF Kept, Covered
  <2> QED
    BY <2>1, <2>2, <2>3 DEF PassInv, Working
<1>10. CASE ListDisputes
  <2>1. task'[Backfill].step = "next" /\ UNCHANGED <<issued, cursor, disk, top, late, unwritten>>
    BY <1>10, <1>a DEF ListDisputes, TypeInv, TypeOK
  <2>2. batch' = batch \cup NotBefore(Disputes) /\ Listed
    BY <1>10 DEF ListDisputes, PassInv
  <2>3. Kept' = Kept /\ \A e : Covered(e)' => Covered(e)
    BY <2>1 DEF Kept, Covered
  <2>4. ASSUME NEW e \in Events, Covered(e) PROVE Due(e)'
    <3>1. CASE Created[e] >= cursor
      BY <2>2, <2>4, <3>1 DEF NotBefore, Due, Events, Covered, Listed
    <3>2. CASE Created[e] < cursor
      BY <2>3, <2>4, <3>2 DEF PassInv, Due
    <3> QED
      BY <1>c, <1>d, <3>1, <3>2
  <2> QED
    BY <2>1, <2>3, <2>4 DEF PassInv
<1>11. CASE ListFails \/ SaveCursor
  <2>1. task'[Backfill].step = "idle" /\ UNCHANGED <<issued, disk, late, unwritten>>
    BY <1>11, <1>a, <1>b DEF ListFails, Error, SaveCursor, TypeInv, TypeOK
  <2>2. CASE ListFails
    BY <2>1, <2>2, PassRests DEF ListFails
  <2>3. CASE SaveCursor
    <3>1. \A e \in Events : Covered(e) => e \in Kept \/ Created[e] >= top
      BY <2>3 DEF SaveCursor, PassInv, Due, Working
    <3>2. cursor' = top
      BY <2>3 DEF SaveCursor
    <3>3. Kept' = Kept /\ \A e : Covered(e)' => Covered(e)
      BY <2>1 DEF Kept, Covered
    <3> QED
      BY <1>c, <1>d, <2>1, <3>1, <3>2, <3>3 DEF PassInv, Working
  <2> QED
    BY <1>11, <2>2, <2>3
<1>12. CASE BackfillNext
  <2>1. PICK e \in batch :
            /\ \A other \in batch : Created[e] <= Created[other]
            /\ batch' = batch \ {e} /\ top' = Later(top, e)
            /\ task' = IF Unrelated(e) THEN task
                       ELSE [task EXCEPT ![Backfill] = [Idle EXCEPT !.step = "begin", !.event = e]]
    BY <1>12 DEF BackfillNext
  <2>2. /\ task[Backfill].step = "next" /\ UNCHANGED <<issued, cursor, disk, store, late, unwritten>>
        /\ up
    BY <1>12, <1>a DEF BackfillNext, HouseInv
  <2>3. e \in Events /\ e \in issued /\ Created[e] \in Nat /\ top \in Nat
    BY <1>c, <1>d
  <2>4. ~Working(Backfill)
    BY <2>2 DEF Working
  <2>a. Kept' = Kept /\ \A f : Covered(f)' => Covered(f)
    BY <2>2 DEF Kept, Covered
  <2>5. ASSUME NEW f \in Events, Covered(f), f # e PROVE f \in Kept \cup batch' \/
            (Created[f] >= top' /\ \A b \in batch' : Created[b] <= Created[f])
    <3>1. Due(f)
      BY <2>2, <2>5 DEF PassInv
    <3>2. CASE Created[f] >= top /\ \A b \in batch : Created[b] <= Created[f]
      BY <2>1, <3>2 DEF Later
    <3> QED
      BY <2>1, <2>4, <2>5, <3>1, <3>2 DEF Due
  <2>6. CASE Unrelated(e)
    <3>1. task' = task
      BY <2>1, <2>6
    <3>2. ASSUME Covered(e) PROVE FALSE
      <4>1. /\ e \in Disputes /\ Of[e] \notin disk.known /\ Of[e] \notin Foreign \cup Malformed
            /\ Of[e] \in Silent /\ Of[e] \notin late /\ Of[e] \notin unwritten
        BY <2>2, <2>6, <3>2 DEF Unrelated, Ours, HouseInv, Covered
      <4>2. Of[e] \in issued /\ Of[e] \in Payments /\ Of[e] \notin Disputes /\ Of[e] \in Events
        BY <2>3, <4>1, StripeAssumption DEF HouseInv, Events
      <4>3. Covered(Of[e])
        BY <4>1, <4>2 DEF Ours, Covered
      <4>4. Due(Of[e])
        BY <2>2, <4>2, <4>3 DEF PassInv
      <4>5. Created[Of[e]] < Created[e] /\ Created[Of[e]] \in Nat
        BY <1>c, <1>d, <4>1, <4>2, StripeAssumption
      <4>6. Of[e] \notin batch
        BY <2>1, <2>3, <4>5
      <4> QED
        BY <2>3, <2>4, <4>1, <4>4, <4>5, <4>6 DEF Due, Kept
    <3>3. \A f \in Events : Covered(f) => Due(f)'
      BY <2>2, <2>5, <2>a, <3>2 DEF Due
    <3> QED
      BY <2>2, <2>a, <3>1, <3>3 DEF PassInv
  <2>7. CASE ~Unrelated(e)
    <3>1. task' = [task EXCEPT ![Backfill] = [Idle EXCEPT !.step = "begin", !.event = e]]
      BY <2>1, <2>7
    <3>2. task'[Backfill].step = "begin" /\ task'[Backfill].event = e
      BY <1>a, <3>1 DEF Idle, TypeInv, TypeOK
    <3>3. \A f \in Events : Covered(f) => Due(f)'
      BY <2>2, <2>5, <2>a, <3>2 DEF Due, Working
    <3> QED
      BY <2>2, <2>a, <3>2, <3>3 DEF PassInv
  <2> QED
    BY <2>6, <2>7
<1>13. ASSUME NEW c, Apply(c) \/ Vanish(c) PROVE PassInv'
  <2>1. UNCHANGED <<issued, disk, task, batch, top, cursor, late, unwritten>>
    BY <1>13 DEF Apply, Vanish
  <2> QED
    BY <2>1, PassStays DEF Working
<1>14. CASE Crash
  <2>1. task'[Backfill].step = "idle" /\ UNCHANGED <<issued, cursor, disk, late, unwritten>>
    BY <1>14, <1>a, <1>b DEF Crash
  <2> QED
    BY <2>1, PassRests
<1>15. CASE Restart \/ UNCHANGED vars
  <2>1. UNCHANGED <<issued, disk, task, batch, top, cursor, late, unwritten>>
    BY <1>15 DEF Restart, vars
  <2> QED
    BY <2>1, PassStays DEF Working
<1>16. ASSUME NEW h \in Handlers, Handle(h) \/ Unanswered(h) PROVE PassInv'
  <2>1. \/ Begin(h) \/ Fail(h) \/ Post(h)
        \/ \E written \in BOOLEAN : Record(h, written)
    BY <1>16 DEF Handle, Refuse, Rejected, Unanswered
  <2>2. h \in Workers \/ h = Backfill
    BY DEF Handlers
  <2> QED
    BY <1>3, <1>4, <1>5, <1>6, <1>7, <1>8, <2>1, <2>2
<1>17. ASSUME NEW w \in Workers, Disconnect(w) PROVE PassInv'
  <2>1. task'[Backfill] = task[Backfill] /\ UNCHANGED <<issued, disk, batch, top, cursor, late, unwritten>>
    BY <1>17, <1>a DEF Disconnect, TypeInv, TypeOK
  <2> QED
    BY <2>1, PassStays DEF Working
<1> QED
  BY <1>1, <1>2, <1>9, <1>10, <1>11, <1>12, <1>13, <1>14, <1>15, <1>16, <1>17 DEF Next, Pull

\* The saved cursor never leaves behind an event that only the backfill can bring
\* (run_stripe_backfill_once): whatever is created between the lists of a pass, whichever
\* records the disk refuses and whichever requests are dropped, a covered event it has
\* passed is on the ledger, and in the log unless the disk refused it.
THEOREM CursorSkipsNothing == Spec => []NothingSkipped
<1>1. Init => HouseInv
  <2> SUFFICES ASSUME Init PROVE HouseInv
    OBVIOUS
  <2>1. up /\ store.index = disk /\ issued = {}
    BY DEF Init, Loaded
  <2>2. store.processing = {} /\ store.seen = {}
    BY DEF Init, Loaded, EmptyIndex
  <2>3. \A w \in Workers : task[w].step = "idle"
    BY DEF Init, Idle, Handlers
  <2> QED
    BY <2>1, <2>2, <2>3 DEF HouseInv, Working
<1>2. Init => PassInv
  <2>1. Init => task[Backfill].step = "idle"
    BY DEF Init, Idle, Handlers
  <2> QED
    BY <2>1 DEF Init, PassInv, Covered, Working
<1>3. AppliedInv /\ PassInv => NothingSkipped
  <2> SUFFICES ASSUME AppliedInv, PassInv, NEW e \in Events, Covered(e), Created[e] < cursor
               PROVE  ledger.au[e] > 0 /\ e \in disk.known \cup unwritten
    BY DEF NothingSkipped
  <2>1. e \in disk.known \cup unwritten
    BY DEF PassInv, Kept
  <2> QED
    BY <2>1 DEF AppliedInv, RecordedIsApplied
<1> QED
  BY <1>1, <1>2, <1>3, AppliedInit, RecordedStep, HouseStep, PassStep, EventsTyped, PTL DEF Spec
=============================================================================
