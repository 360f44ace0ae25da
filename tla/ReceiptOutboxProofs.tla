------------------------ MODULE ReceiptOutboxProofs ------------------------
(***************************************************************************)
(* Theorems about the receipt outboxes, for any number of attempts,        *)
(* receipts, workers and crashes.                                          *)
(*                                                                         *)
(* The safety of the directory rests on one fact, DirectoryShape: any two  *)
(* files of an attempt are ranked, and a persist under way has put its     *)
(* file above the one it replaces.  However many files crashes and failed  *)
(* persists leave, the winner of an attempt exists: ranks are bounded      *)
(* numbers, and of the numbers by which they miss the bound there is a     *)
(* least one.                                                              *)
(***************************************************************************)
EXTENDS ReceiptOutbox, WellFoundedInduction, TLAPS

----------------------------------------------------------------------------
(* The shape of a directory.                                               *)

\* A persist under way has its new file in place, and the old one is of the same attempt.
WritePair(o) ==
    writing[o] # NoReceipt =>
        /\ up[o] /\ writing[o].new \in files[o]
        /\ writing[o].old # NoReceipt =>
              /\ writing[o].old \in files[o] /\ writing[o].old.a = writing[o].new.a
              /\ Supersedes(writing[o].old, writing[o].new)

DirectoryShape(o) == Loadable(o) /\ WritePair(o)

\* What a step may do to outbox o: nothing; link a file; drop the superseded one, or fail to;
\* drop an entry the ledger accepted; stop; start from the winners.
LinkStep(o) ==
    /\ Unlocked(o) /\ up'[o]
    /\ \E r \in Receipts :
          /\ CanLink(o, r)
          /\ files'[o] = files[o] \cup {r}
          /\ writing'[o] = [new |-> r, old |-> Winner(o, r.a)]

FinishStep(o) ==
    /\ up[o] /\ up'[o] /\ writing[o] # NoReceipt
    /\ files'[o] = files[o] \ {writing[o].old} /\ writing'[o] = NoReceipt

Accepted(o, r) == Confirmed(r) \/ \E w \in Workers : task[o][w].r = r /\ task[o][w].ans = "ok"

\* A persist that failed: the superseded file may be left.
FailStep(o) ==
    /\ up[o] /\ up'[o] /\ writing[o] # NoReceipt /\ writing'[o] = NoReceipt
    /\ files'[o] = files[o] \/ files'[o] = files[o] \ {writing[o].old}

DropStep(o) ==
    /\ Unlocked(o) /\ up'[o] /\ writing'[o] = NoReceipt
    /\ \E r \in files[o] : Accepted(o, r) /\ files'[o] = files[o] \ {r}

StopStep(o)  == ~up'[o] /\ writing'[o] = NoReceipt /\ files'[o] = files[o]
StartStep(o) == ~up[o] /\ up'[o] /\ writing'[o] = writing[o] /\ files'[o] = Winners(o)
IdleStep(o)  == up'[o] = up[o] /\ writing'[o] = writing[o] /\ files'[o] = files[o]

DiskStep(o) ==
    \/ IdleStep(o) \/ LinkStep(o) \/ FinishStep(o) \/ FailStep(o) \/ DropStep(o) \/ StopStep(o)
    \/ StartStep(o)

\* The fields of a receipt.
LEMMA ReceiptFields ==
    ASSUME NEW r \in Receipts
    PROVE  /\ r.a \in Attempts /\ r.seq \in 1..MaxSeq /\ r.final \in BOOLEAN
           /\ r # NoReceipt
           /\ r = [a |-> r.a, seq |-> r.seq, final |-> r.final]
BY OutboxAssumption DEF Receipts

\* How far a receipt is below the highest an attempt can have.
Below(r) == 2 * (MaxSeq - r.seq) + (IF r.final THEN 0 ELSE 1)

\* A receipt that outranks another is less far below.
LEMMA SupersedesLower ==
    ASSUME NEW r \in Receipts, NEW q \in Receipts, Supersedes(q, r)
    PROVE  Below(r) \in Nat /\ Below(q) \in Nat /\ Below(r) < Below(q)
<1>1. /\ r.seq \in 1..MaxSeq /\ q.seq \in 1..MaxSeq /\ MaxSeq \in Nat
      /\ r.final \in BOOLEAN /\ q.final \in BOOLEAN
  BY ReceiptFields, OutboxAssumption
<1>2. CASE r.seq > q.seq
  BY <1>1, <1>2 DEF Below, Supersedes
<1>3. CASE r.seq = q.seq /\ r.final
  BY <1>1, <1>3 DEF Below, Supersedes
<1>. QED  BY <1>2, <1>3 DEF Supersedes

\* Outranking is transitive.
LEMMA SupersedesTransitive ==
    ASSUME NEW p \in Receipts, NEW q \in Receipts, NEW r \in Receipts,
           Supersedes(p, q), Supersedes(q, r)
    PROVE  Supersedes(p, r)
<1>1. p.seq \in Int /\ q.seq \in Int /\ r.seq \in Int
  BY ReceiptFields, OutboxAssumption
<1>. QED  BY <1>1 DEF Supersedes

\* A nonempty set of natural numbers has a least one.
LEMMA LeastNumber ==
    ASSUME NEW T, T \subseteq Nat, T # {}
    PROVE  \E n \in T : \A k \in T : ~(k < n)
<1>1. PICK n \in T : \A k \in T : ~(<<k, n>> \in OpToRel(<, Nat))
  BY NatLessThanWellFounded, WFMin
<1>2. \A k \in T : ~(k < n)
  BY <1>1 DEF OpToRel
<1>. QED  BY <1>2

\* load_entries keeps one entry of an attempt, and it outranks the others.
LEMMA WinnerWins ==
    ASSUME NEW o \in Outboxes, NEW a \in Attempts, files[o] \subseteq Receipts, Loadable(o),
           Entries(o, a) # {}
    PROVE  /\ Winner(o, a) \in Entries(o, a)
           /\ \A q \in Entries(o, a) \ {Winner(o, a)} : Supersedes(q, Winner(o, a))
<1>. DEFINE Wins(r) == \A q \in Entries(o, a) \ {r} : Supersedes(q, r)
            T == {Below(r) : r \in Entries(o, a)}
<1>1. Entries(o, a) \subseteq Receipts
  BY DEF Entries
<1>2. T \subseteq Nat /\ T # {}
  <2>1. ASSUME NEW r \in Entries(o, a)
        PROVE  Below(r) \in Nat
    BY <1>1, ReceiptFields, OutboxAssumption DEF Below
  <2>. QED  BY <2>1
<1>3. PICK r \in Entries(o, a) : \A q \in Entries(o, a) : ~(Below(q) < Below(r))
  <2>1. PICK n \in T : \A k \in T : ~(k < n)
    BY <1>2, LeastNumber
  <2>2. PICK r \in Entries(o, a) : Below(r) = n
    BY <2>1
  <2>. QED  BY <2>1, <2>2
<1>4. Wins(r)
  <2>. SUFFICES ASSUME NEW q \in Entries(o, a), q # r
                PROVE  Supersedes(q, r)
    OBVIOUS
  <2>1. Supersedes(q, r) \/ Supersedes(r, q)
    BY DEF Loadable
  <2>. QED  BY <1>1, <1>3, <2>1, SupersedesLower
<1>5. Winner(o, a) = CHOOSE x \in Entries(o, a) : Wins(x)
  BY DEF Winner
<1>. HIDE DEF Wins
<1>6. Winner(o, a) \in Entries(o, a) /\ Wins(Winner(o, a))
  BY <1>4, <1>5
<1>. QED  BY <1>6 DEF Wins

\* What loading keeps of a directory is one of the files of each attempt.
LEMMA WinnersAreFiles ==
    ASSUME NEW o \in Outboxes, files[o] \subseteq Receipts, Loadable(o)
    PROVE  \A r \in Winners(o) : /\ r \in files[o] /\ r.a \in Attempts /\ r = Winner(o, r.a)
                                 /\ Entries(o, r.a) # {}
<1>. SUFFICES ASSUME NEW b \in Attempts, Entries(o, b) # {}
              PROVE  /\ Winner(o, b) \in files[o] /\ Winner(o, b).a = b
  BY DEF Winners
<1>. QED  BY WinnerWins DEF Entries

\* Linking a new file keeps the shape of a directory.
LEMMA LinkKeepsShape ==
    ASSUME TypeOK, NEW o \in Outboxes, DirectoryShape(o), LinkStep(o)
    PROVE  DirectoryShape(o)'
<1>1. PICK r \in Receipts :
          /\ CanLink(o, r)
          /\ files'[o] = files[o] \cup {r}
          /\ writing'[o] = [new |-> r, old |-> Winner(o, r.a)]
  BY DEF LinkStep
<1>2. /\ up[o] /\ up'[o] /\ writing[o] = NoReceipt /\ files[o] \subseteq Receipts
      /\ r \notin files[o]
  BY <1>1 DEF LinkStep, Unlocked, CanLink, TypeOK
<1>3. \A p, q \in files[o] : p.a = q.a => p = q \/ Supersedes(p, q) \/ Supersedes(q, p)
  <2>. SUFFICES ASSUME NEW p \in files[o], NEW q \in files[o], p.a = q.a
                PROVE  p = q \/ Supersedes(p, q) \/ Supersedes(q, p)
    OBVIOUS
  <2>1. p \in Entries(o, p.a) /\ q \in Entries(o, p.a) /\ p.a \in Attempts
    BY <1>2, ReceiptFields DEF Entries
  <2>. QED  BY <2>1 DEF DirectoryShape, Loadable
<1>. DEFINE w == Winner(o, r.a)
<1>4. r.a \in Attempts /\ r # NoReceipt
  BY ReceiptFields
<1>5. ASSUME NEW q \in files[o], q.a = r.a
      PROVE  Supersedes(q, r) /\ Supersedes(w, r)
  <2>1. q \in Entries(o, r.a)
    BY <1>5 DEF Entries
  <2>2. w \in Entries(o, r.a) /\ (q # w => Supersedes(q, w))
    BY <1>2, <1>4, <2>1, WinnerWins DEF DirectoryShape
  <2>3. w \in Receipts /\ q \in Receipts /\ w # NoReceipt
    BY <1>2, <2>2, ReceiptFields DEF Entries
  <2>4. Supersedes(w, r)
    BY <1>1, <2>3 DEF CanLink
  <2>. HIDE DEF w
  <2>. QED  BY <2>2, <2>3, <2>4, SupersedesTransitive
<1>6. w # NoReceipt => w \in files[o] /\ w.a = r.a
  <2>1. CASE Entries(o, r.a) = {}
    BY <2>1 DEF Winner
  <2>2. CASE Entries(o, r.a) # {}
    BY <1>2, <1>4, <2>2, WinnerWins DEF DirectoryShape, Entries
  <2>. QED  BY <2>1, <2>2
<1>7. writing'[o] # NoReceipt /\ writing'[o].new = r /\ writing'[o].old = w
  <2>1. w \in Receipts \cup {NoReceipt}
    BY <1>2, <1>6
  <2>2. [new |-> r, old |-> w] \in Writes
    BY <2>1 DEF Writes
  <2>. QED  BY <1>1, <2>2, OutboxAssumption
<1>8. Loadable(o)'
  <2>. SUFFICES ASSUME NEW p \in files'[o], NEW q \in files'[o], p.a = q.a, p # q
                PROVE  Supersedes(p, q) \/ Supersedes(q, p)
    BY DEF Loadable, Entries
  <2>. QED  BY <1>1, <1>3, <1>5
<1>9. WritePair(o)'
  BY <1>1, <1>2, <1>5, <1>6, <1>7 DEF WritePair, Supersedes
<1>. QED  BY <1>8, <1>9 DEF DirectoryShape

\* A directory that no persist works on keeps the shape when files leave it.
LEMMA FewerFiles ==
    ASSUME NEW o \in Outboxes, DirectoryShape(o), files'[o] \subseteq files[o],
           writing'[o] = NoReceipt
    PROVE  DirectoryShape(o)'
<1>1. Loadable(o)'
  BY DEF DirectoryShape, Loadable, Entries, Supersedes
<1>. QED  BY <1>1 DEF DirectoryShape, WritePair

\* Every step of the disk keeps the shape.
LEMMA ShapeKept ==
    ASSUME TypeOK, NEW o \in Outboxes, DirectoryShape(o), DiskStep(o)
    PROVE  DirectoryShape(o)'
<1>1. CASE IdleStep(o)
  <2>1. Loadable(o)'
    BY <1>1 DEF IdleStep, DirectoryShape, Loadable, Entries, Supersedes
  <2>. QED  BY <1>1, <2>1 DEF IdleStep, DirectoryShape, WritePair, Supersedes
<1>2. CASE FinishStep(o) \/ FailStep(o) \/ DropStep(o) \/ StopStep(o)
  <2>1. files'[o] \subseteq files[o] /\ writing'[o] = NoReceipt
    BY <1>2 DEF FinishStep, FailStep, DropStep, StopStep
  <2>. QED  BY <2>1, FewerFiles
<1>3. CASE StartStep(o)
  <2>1. files[o] \subseteq Receipts /\ Loadable(o)
    BY DEF TypeOK, DirectoryShape
  <2>2. files'[o] \subseteq files[o]
    BY <1>3, <2>1, WinnersAreFiles DEF StartStep
  <2>3. writing'[o] = NoReceipt
    BY <1>3 DEF StartStep, DirectoryShape, WritePair
  <2>. QED  BY <2>2, <2>3, FewerFiles
<1>. QED  BY <1>1, <1>2, <1>3, LinkKeepsShape DEF DiskStep

----------------------------------------------------------------------------
(* Types and steps.                                                        *)

ShapeInv == TypeOK /\ \A o \in Outboxes : DirectoryShape(o)

\* The types of the disk, and of the rest.
DiskTypeOK ==
    /\ files \in [Outboxes -> SUBSET Receipts]
    /\ writing \in [Outboxes -> Writes \cup {NoReceipt}]
    /\ up \in [Outboxes -> BOOLEAN]

\* Link is what it is for one outbox, and keeps the types.
LEMMA LinkTyped ==
    ASSUME ShapeInv, NEW o \in Outboxes, NEW r \in Receipts, Unlocked(o), CanLink(o, r),
           Link(o, r), up' = up
    PROVE  DiskTypeOK' /\ \A p \in Outboxes : DiskStep(p)
<1>1. Winner(o, r.a) \in Receipts \cup {NoReceipt}
  <2>1. CASE Entries(o, r.a) = {}
    BY <2>1 DEF Winner
  <2>2. CASE Entries(o, r.a) # {}
    <3>1. r.a \in Attempts
      BY ReceiptFields
    <3>2. Winner(o, r.a) \in Entries(o, r.a)
      BY <2>2, <3>1, WinnerWins DEF ShapeInv, DirectoryShape, TypeOK
    <3>. QED  BY <3>2 DEF ShapeInv, TypeOK, Entries
  <2>. QED  BY <2>1, <2>2
<1>2. [new |-> r, old |-> Winner(o, r.a)] \in Writes
  BY <1>1 DEF Writes
<1>3. DiskTypeOK'
  BY <1>2 DEF DiskTypeOK, Link, ShapeInv, TypeOK
<1>4. LinkStep(o)
  BY DEF LinkStep, Link, Unlocked, ShapeInv, TypeOK
<1>5. \A p \in Outboxes : p # o => IdleStep(p)
  BY DEF IdleStep, Link, ShapeInv, TypeOK
<1>. QED  BY <1>3, <1>4, <1>5 DEF DiskStep

\* A step that leaves the disk alone is one of them.
LEMMA DiskIdle ==
    ASSUME ShapeInv, UNCHANGED <<disk, up>>
    PROVE  DiskTypeOK' /\ \A p \in Outboxes : DiskStep(p)
BY DEF DiskTypeOK, DiskStep, IdleStep, disk, ShapeInv, TypeOK

\* Setting the ready flag of a head leaves the rest.
LEMMA ReadyReplaced ==
    ASSUME NEW h \in [seq: 0..MaxSeq, final: BOOLEAN, ready: BOOLEAN], NEW b \in BOOLEAN
    PROVE  /\ [h EXCEPT !.ready = b] \in [seq: 0..MaxSeq, final: BOOLEAN, ready: BOOLEAN]
           /\ [h EXCEPT !.ready = b].seq = h.seq
           /\ [h EXCEPT !.ready = b].final = h.final
<1>1. CASE b = TRUE
  <2>1. /\ [h EXCEPT !.ready = TRUE] \in [seq: 0..MaxSeq, final: BOOLEAN, ready: BOOLEAN]
        /\ [h EXCEPT !.ready = TRUE].seq = h.seq
        /\ [h EXCEPT !.ready = TRUE].final = h.final
    OBVIOUS
  <2>. QED  BY <1>1, <2>1, Zenon
<1>2. CASE b = FALSE
  <2>1. /\ [h EXCEPT !.ready = FALSE] \in [seq: 0..MaxSeq, final: BOOLEAN, ready: BOOLEAN]
        /\ [h EXCEPT !.ready = FALSE].seq = h.seq
        /\ [h EXCEPT !.ready = FALSE].final = h.final
    OBVIOUS
  <2>. QED  BY <1>2, <2>1, Zenon
<1>. QED  BY <1>1, <1>2

\* Every step of the system is a disk step of either outbox and keeps the types.
LEMMA StepsTyped ==
    ASSUME ShapeInv, [Next]_vars
    PROVE  TypeOK' /\ \A p \in Outboxes : DiskStep(p)
<1>. DEFINE Good == TypeOK' /\ \A p \in Outboxes : DiskStep(p)
<1>0. TypeOK
  BY DEF ShapeInv
<1>1. ASSUME NEW a \in Attempts, Admit(a)
      PROVE  Good
  BY <1>0, <1>1, DiskIdle DEF Admit, TypeOK, DiskTypeOK, ledger
<1>2. ASSUME NEW a \in Attempts, SessionEnds(a)
      PROVE  Good
  BY <1>0, <1>2, DiskIdle DEF SessionEnds, TypeOK, DiskTypeOK, ledger
<1>3. ASSUME NEW a \in Attempts, HandoffReceived(a)
      PROVE  Good
  <2>1. handoff[a] \in Receipts
    BY <1>0, <1>3 DEF HandoffReceived, TypeOK
  <2>2. DiskTypeOK' /\ \A p \in Outboxes : DiskStep(p)
    <3>1. CASE CanLink("gateway", handoff[a])
      BY <1>3, <2>1, <3>1, LinkTyped DEF HandoffReceived, Outboxes
    <3>2. CASE ~CanLink("gateway", handoff[a])
      BY <1>3, <3>2, DiskIdle DEF HandoffReceived
    <3>. QED  BY <3>1, <3>2
  <2>. QED  BY <1>0, <1>3, <2>1, <2>2 DEF HandoffReceived, TypeOK, DiskTypeOK, ledger
<1>4. ASSUME NEW a \in Attempts, HandoffLost(a)
      PROVE  Good
  BY <1>0, <1>4, DiskIdle DEF HandoffLost, TypeOK, DiskTypeOK, ledger
<1>5. ASSUME NEW a \in Attempts, Requeue(a)
      PROVE  Good
  <2>1. stored[a] \in Receipts
    BY <1>0, <1>5 DEF Requeue, TypeOK
  <2>2. DiskTypeOK' /\ \A p \in Outboxes : DiskStep(p)
    BY <1>5, <2>1, LinkTyped DEF Requeue, Outboxes
  <2>. QED  BY <1>0, <1>5, <2>2 DEF Requeue, TypeOK, DiskTypeOK, ledger
<1>6. ASSUME NEW a \in Attempts, RecoverySubmits(a)
      PROVE  Good
  BY <1>0, <1>6, DiskIdle DEF RecoverySubmits, TypeOK, DiskTypeOK, ledger
<1>7. ASSUME NEW a \in Attempts, ExpirySubmits(a)
      PROVE  Good
  BY <1>0, <1>7, DiskIdle DEF ExpirySubmits, TypeOK, DiskTypeOK, ledger
<1>8. ASSUME NEW a \in Attempts, RecoveryRetires(a)
      PROVE  Good
  BY <1>0, <1>8, DiskIdle DEF RecoveryRetires, TypeOK, DiskTypeOK, ledger
<1>9. ASSUME NEW a \in Attempts, ExpiryPasses(a)
      PROVE  Good
  BY <1>0, <1>9, DiskIdle DEF ExpiryPasses, TypeOK, DiskTypeOK, ledger
<1>10. ASSUME NEW a \in Attempts, NEW fin \in BOOLEAN, ReceiptAcked(a, fin)
       PROVE  Good
  <2>. DEFINE r == [a |-> a, seq |-> LastSeq(a) + 1, final |-> fin]
  <2>1. LastSeq(a) \in 0..MaxSeq
    <3>1. CASE signed[a] = NoReceipt
      BY <3>1, OutboxAssumption DEF LastSeq
    <3>2. CASE signed[a] # NoReceipt
      <4>1. signed[a] \in Receipts
        BY <1>0, <3>2 DEF TypeOK
      <4>2. signed[a].seq \in 1..MaxSeq
        BY <4>1, ReceiptFields
      <4>. QED  BY <3>2, <4>2, OutboxAssumption DEF LastSeq
    <3>. QED  BY <3>1, <3>2
  <2>2. LastSeq(a) + 1 \in 1..MaxSeq
    BY <1>10, <2>1, OutboxAssumption DEF ReceiptAcked
  <2>3. r \in Receipts
    BY <2>2 DEF Receipts
  <2>4. DiskTypeOK' /\ \A p \in Outboxes : DiskStep(p)
    <3>1. CASE CanLink("provider", r)
      BY <1>10, <2>3, <3>1, LinkTyped DEF ReceiptAcked, Outboxes
    <3>2. CASE ~CanLink("provider", r)
      BY <1>10, <3>2, DiskIdle DEF ReceiptAcked
    <3>. QED  BY <3>1, <3>2
  <2>5. signed' = [signed EXCEPT ![a] = r]
    BY <1>10 DEF ReceiptAcked
  <2>6. session' \in [Attempts -> {"idle", "opening", "live", "ended"}]
    <3>1. session' = session \/ session' = [session EXCEPT ![a] = "ended"]
      BY <1>10 DEF ReceiptAcked
    <3>. QED  BY <1>0, <3>1 DEF TypeOK
  <2>7. UNCHANGED <<up, stored, handoff, task, wire, ledger, expired, journal, closeWire, crashes>>
    BY <1>10 DEF ReceiptAcked
  <2>. QED  BY <1>0, <2>3, <2>4, <2>5, <2>6, <2>7 DEF TypeOK, DiskTypeOK, ledger
<1>11. ASSUME NEW o \in Outboxes, FinishPersist(o)
       PROVE  Good
  <2>1. writing[o] \in Writes /\ writing[o].new \in Receipts
    BY <1>0, <1>11 DEF FinishPersist, TypeOK, Writes
  <2>2. FinishStep(o)
    BY <1>0, <1>11 DEF FinishStep, FinishPersist, TypeOK
  <2>3. \A p \in Outboxes : p # o => IdleStep(p)
    BY <1>0, <1>11 DEF IdleStep, FinishPersist, TypeOK
  <2>4. /\ handoff' \in [Attempts -> Receipts \cup {NoReceipt}]
        /\ session' \in [Attempts -> {"idle", "opening", "live", "ended"}]
    <3>. DEFINE r == writing[o].new
    <3>1. r.a \in Attempts
      BY <2>1, ReceiptFields
    <3>2. CASE o = "provider"
      <4>1. /\ handoff' = [handoff EXCEPT ![r.a] = IF session[r.a] = "live" THEN r ELSE @]
            /\ session' = [session EXCEPT ![r.a] = IF r.final THEN "ended" ELSE @]
        BY <1>11, <3>2 DEF FinishPersist
      <4>2. (IF session[r.a] = "live" THEN r ELSE handoff[r.a]) \in Receipts \cup {NoReceipt}
        BY <1>0, <2>1, <3>1 DEF TypeOK
      <4>3. (IF r.final THEN "ended" ELSE session[r.a]) \in {"idle", "opening", "live", "ended"}
        BY <1>0, <3>1 DEF TypeOK
      <4>. HIDE DEF r
      <4>4. handoff' \in [Attempts -> Receipts \cup {NoReceipt}]
        BY <1>0, <3>1, <4>1, <4>2 DEF TypeOK
      <4>5. session' \in [Attempts -> {"idle", "opening", "live", "ended"}]
        BY <1>0, <3>1, <4>1, <4>3 DEF TypeOK
      <4>. QED  BY <4>4, <4>5
    <3>3. CASE o # "provider"
      BY <1>0, <1>11, <3>3 DEF FinishPersist, TypeOK
    <3>. QED  BY <3>2, <3>3
  <2>5. TypeOK'
    BY <1>0, <1>11, <2>4 DEF FinishPersist, TypeOK, ledger
  <2>. QED  BY <2>2, <2>3, <2>5 DEF DiskStep
<1>12. ASSUME NEW o \in Outboxes, Crash(o)
       PROVE  Good
  <2>1. StopStep(o) /\ \A p \in Outboxes : p # o => IdleStep(p)
    BY <1>0, <1>12 DEF StopStep, IdleStep, Crash, TypeOK
  <2>2. crashes' \in 0..MaxCrashes
    BY <1>0, <1>12, OutboxAssumption DEF Crash, TypeOK
  <2>3. TypeOK'
    BY <1>0, <1>12, <2>2 DEF Crash, TypeOK, ledger, NoTask
  <2>. QED  BY <2>1, <2>3 DEF DiskStep
<1>13. ASSUME NEW o \in Outboxes, Restart(o)
       PROVE  Good
  <2>1. StartStep(o) /\ \A p \in Outboxes : p # o => IdleStep(p)
    BY <1>0, <1>13 DEF StartStep, IdleStep, Restart, TypeOK
  <2>2. Winners(o) \subseteq Receipts
    BY <1>0, WinnersAreFiles DEF ShapeInv, DirectoryShape, TypeOK
  <2>3. TypeOK'
    BY <1>0, <1>13, <2>2 DEF Restart, TypeOK, ledger
  <2>. QED  BY <2>1, <2>3 DEF DiskStep
<1>14. ASSUME NEW o \in Outboxes, NEW w \in Workers, NEW r \in files[o], SubmitStart(o, w, r)
       PROVE  Good
  <2>1. r \in Receipts
    BY <1>0 DEF TypeOK
  <2>. QED  BY <1>0, <1>14, <2>1, DiskIdle DEF SubmitStart, TypeOK, DiskTypeOK, ledger
<1>15. ASSUME NEW o \in Outboxes, NEW w \in Workers, NEW heard \in BOOLEAN, SubmitEnd(o, w, heard)
       PROVE  Good
  <2>. DEFINE r == task[o][w].r
  <2>1. \A p \in Outboxes : p # o => IdleStep(p)
    BY <1>0, <1>15 DEF IdleStep, SubmitEnd, TypeOK
  <2>2. IdleStep(o) \/ DropStep(o)
    <3>1. CASE ((heard /\ task[o][w].ans = "ok") \/ Confirmed(r)) /\ Removes(o, r)
      <4>1. files'[o] = files[o] \ {r} /\ r \in files[o] /\ Accepted(o, r)
        BY <1>0, <1>15, <3>1 DEF SubmitEnd, Accepted, Removes, TypeOK
      <4>. QED  BY <1>15, <4>1 DEF DropStep, SubmitEnd, Unlocked
    <3>2. CASE ~(((heard /\ task[o][w].ans = "ok") \/ Confirmed(r)) /\ Removes(o, r))
      BY <1>15, <3>2 DEF IdleStep, SubmitEnd
    <3>. QED  BY <3>1, <3>2
  <2>3. files' \in [Outboxes -> SUBSET Receipts]
    BY <1>0, <1>15 DEF SubmitEnd, TypeOK
  <2>4. TypeOK'
    BY <1>0, <1>15, <2>3 DEF SubmitEnd, TypeOK, ledger, NoTask
  <2>. QED  BY <2>1, <2>2, <2>4 DEF DiskStep
<1>16. ASSUME NEW r \in wire, Apply(r)
       PROVE  Good
  <2>1. r \in Receipts /\ r.a \in Attempts /\ r.seq \in 0..MaxSeq /\ r.final \in BOOLEAN
    BY <1>0, ReceiptFields, OutboxAssumption DEF TypeOK
  <2>2. task' \in [Outboxes -> [Workers ->
                      [r: Receipts \cup {NoReceipt}, ans: {"none", "ok", "refused"}]]]
    BY <1>0, <1>16, <2>1 DEF Apply, TypeOK
  <2>3. /\ head' \in [Attempts -> [seq: 0..MaxSeq, final: BOOLEAN, ready: BOOLEAN]]
        /\ resv' \in [Attempts -> {"none", "active", "closed"}]
        /\ closedBy' \in [Attempts -> {"nobody", "receipt", "provider", "buyer"}]
        /\ committed' \subseteq Receipts
    <3>. DEFINE h == [seq |-> r.seq, final |-> r.final, ready |-> r.final]
    <3>1. h \in [seq: 0..MaxSeq, final: BOOLEAN, ready: BOOLEAN]
      BY <2>1
    <3>2. CASE ~Idempotent(r) /\ Advances(r)
      <4>1. /\ head' = [head EXCEPT ![r.a] = h] /\ committed' = committed \cup {r}
            /\ resv' = [resv EXCEPT ![r.a] = IF r.final THEN "closed" ELSE @]
            /\ closedBy' = [closedBy EXCEPT ![r.a] = IF r.final THEN "receipt" ELSE @]
        BY <1>16, <3>2 DEF Apply
      <4>. HIDE DEF h
      <4>2. head' \in [Attempts -> [seq: 0..MaxSeq, final: BOOLEAN, ready: BOOLEAN]]
        BY <1>0, <3>1, <4>1 DEF TypeOK
      <4>3. committed' \subseteq Receipts
        BY <1>0, <2>1, <4>1 DEF TypeOK
      <4>4. CASE r.final
        BY <1>0, <4>1, <4>2, <4>3, <4>4 DEF TypeOK
      <4>5. CASE ~r.final
        BY <1>0, <4>1, <4>2, <4>3, <4>5 DEF TypeOK
      <4>. QED  BY <4>4, <4>5
    <3>3. CASE ~(~Idempotent(r) /\ Advances(r))
      <4>1. UNCHANGED ledger
        BY <1>16, <3>3 DEF Apply
      <4>. QED  BY <1>0, <4>1 DEF TypeOK, ledger
    <3>. QED  BY <3>2, <3>3
  <2>4. UNCHANGED <<disk, up, session, signed, stored, handoff, expired, journal, closeWire, crashes>>
        /\ wire' \subseteq wire
    BY <1>16 DEF Apply
  <2>. QED  BY <1>0, <2>2, <2>3, <2>4, DiskIdle DEF TypeOK, DiskTypeOK
<1>17. ASSUME NEW c \in closeWire, CloseApplies(c)
       PROVE  Good
  <2>1. c.a \in Attempts /\ c.seq \in 0..MaxSeq /\ c.by \in {"provider", "buyer"}
    BY <1>0 DEF TypeOK
  <2>2. (c.seq > 0) \in BOOLEAN
    OBVIOUS
  <2>3. /\ head' \in [Attempts -> [seq: 0..MaxSeq, final: BOOLEAN, ready: BOOLEAN]]
        /\ resv' \in [Attempts -> {"none", "active", "closed"}]
        /\ closedBy' \in [Attempts -> {"nobody", "receipt", "provider", "buyer"}]
    <3>. DEFINE h == [head[c.a] EXCEPT !.ready = c.seq > 0]
    <3>1. h \in [seq: 0..MaxSeq, final: BOOLEAN, ready: BOOLEAN]
      <4>1. head[c.a] \in [seq: 0..MaxSeq, final: BOOLEAN, ready: BOOLEAN]
        BY <1>0, <2>1 DEF TypeOK
      <4>. QED  BY <2>2, <4>1, ReadyReplaced, Zenon
    <3>2. CASE resv[c.a] = "active" /\ head[c.a].seq = c.seq /\ ~head[c.a].ready
      <4>1. /\ head' = [head EXCEPT ![c.a] = h] /\ resv' = [resv EXCEPT ![c.a] = "closed"]
            /\ closedBy' = [closedBy EXCEPT ![c.a] = c.by]
        BY <1>17, <3>2 DEF CloseApplies
      <4>. HIDE DEF h
      <4>. QED  BY <1>0, <2>1, <3>1, <4>1 DEF TypeOK
    <3>3. CASE ~(resv[c.a] = "active" /\ head[c.a].seq = c.seq /\ ~head[c.a].ready)
      BY <1>0, <1>17, <3>3 DEF CloseApplies, TypeOK
    <3>. QED  BY <3>2, <3>3
  <2>4. UNCHANGED <<disk, up, session, signed, stored, handoff, task, wire, expired, journal,
                    committed, crashes>> /\ closeWire' \subseteq closeWire
    BY <1>17 DEF CloseApplies
  <2>. QED  BY <1>0, <2>3, <2>4, DiskIdle DEF TypeOK, DiskTypeOK
<1>18. CASE UNCHANGED vars
  BY <1>0, <1>18, DiskIdle DEF vars, TypeOK, DiskTypeOK, disk
<1>19. ASSUME NEW a \in Attempts, Open(a)
       PROVE  Good
  BY <1>0, <1>19, DiskIdle DEF Open, TypeOK, DiskTypeOK
<1>20. ASSUME NEW o \in Outboxes, NEW left \in BOOLEAN, PersistFails(o, left)
       PROVE  Good
  <2>1. files'[o] = files[o] \/ files'[o] = files[o] \ {writing[o].old}
    BY <1>0, <1>20 DEF PersistFails, TypeOK
  <2>2. FailStep(o)
    BY <1>0, <1>20, <2>1 DEF FailStep, PersistFails, TypeOK
  <2>3. \A p \in Outboxes : p # o => IdleStep(p)
    BY <1>0, <1>20 DEF IdleStep, PersistFails, TypeOK
  <2>4. files' \in [Outboxes -> SUBSET Receipts]
    BY <1>0, <1>20 DEF PersistFails, TypeOK
  <2>5. session' \in [Attempts -> {"idle", "opening", "live", "ended"}]
    BY <1>0, <1>20 DEF PersistFails, TypeOK
  <2>6. crashes' \in 0..MaxCrashes
    BY <1>0, <1>20, OutboxAssumption DEF PersistFails, TypeOK
  <2>7. TypeOK'
    BY <1>0, <1>20, <2>4, <2>5, <2>6 DEF PersistFails, TypeOK, ledger
  <2>. QED  BY <2>2, <2>3, <2>7 DEF DiskStep
<1>. QED
  BY <1>1, <1>2, <1>3, <1>4, <1>5, <1>6, <1>7, <1>8, <1>9, <1>10, <1>11, <1>12, <1>13, <1>14,
     <1>15, <1>16, <1>17, <1>18, <1>19, <1>20 DEF Next

\* The initial states have the shape.
LEMMA InitShape ==
    ASSUME Init
    PROVE  ShapeInv
<1>1. TypeOK
  <2>1. NoHead \in [seq: 0..MaxSeq, final: BOOLEAN, ready: BOOLEAN] /\ 0 \in 0..MaxCrashes
    BY OutboxAssumption DEF NoHead
  <2>. QED  BY <2>1 DEF Init, TypeOK, NoTask
<1>2. ASSUME NEW o \in Outboxes
      PROVE  DirectoryShape(o)
  <2>1. files[o] = {} /\ writing[o] = NoReceipt
    BY DEF Init
  <2>. QED  BY <2>1 DEF DirectoryShape, Loadable, Entries, WritePair
<1>. QED  BY <1>1, <1>2 DEF ShapeInv

\* Every step keeps the shape of all directories.
LEMMA ShapeInvKept ==
    ASSUME ShapeInv, [Next]_vars
    PROVE  ShapeInv'
<1>1. TypeOK' /\ \A o \in Outboxes : DiskStep(o)
  BY StepsTyped
<1>2. \A o \in Outboxes : DirectoryShape(o)'
  BY <1>1, ShapeKept DEF ShapeInv
<1>. QED  BY <1>1, <1>2 DEF ShapeInv

\* Type correctness, which rests on the existence of winners: what a persist notes as
\* superseded is a receipt of the directory or nothing (ReceiptSettlementOutbox::persist).
THEOREM OutboxTyped == Spec => []TypeOK
<1>1. Init => ShapeInv
  BY InitShape
<1>2. ShapeInv /\ [Next]_vars => ShapeInv'
  BY ShapeInvKept
<1>3. ShapeInv => TypeOK
  BY DEF ShapeInv
<1>. QED  BY <1>1, <1>2, <1>3, PTL DEF Spec

\* load_entries never fails on a conflict (OutboxLoadable), whatever instants crashes come
\* at and however many attempts, receipts and workers there are.
THEOREM AlwaysLoadable == Spec => []OutboxLoadable
<1>1. Init => ShapeInv
  BY InitShape
<1>2. ShapeInv /\ [Next]_vars => ShapeInv'
  BY ShapeInvKept
<1>3. ShapeInv => OutboxLoadable
  BY DEF ShapeInv, DirectoryShape, OutboxLoadable
<1>. QED  BY <1>1, <1>2, <1>3, PTL DEF Spec

----------------------------------------------------------------------------
(* Evidence.                                                               *)

\* What the ledger's head and every answer "ok" stand for is committed.
HeadCommitted ==
    \A a \in Attempts : head[a].seq > 0 =>
        [a |-> a, seq |-> head[a].seq, final |-> head[a].final] \in committed

OkCommitted ==
    \A o \in Outboxes : \A w \in Workers : task[o][w].ans = "ok" => task[o][w].r \in committed

EvidenceInv == ShapeInv /\ HeadCommitted /\ OkCommitted

\* A receipt the ledger calls a repetition is committed.
LEMMA IdempotentCommitted ==
    ASSUME HeadCommitted, NEW r \in Receipts, Idempotent(r)
    PROVE  r \in committed
<1>1. r.a \in Attempts /\ r.seq \in 1..MaxSeq /\ r = [a |-> r.a, seq |-> r.seq, final |-> r.final]
  BY ReceiptFields
<1>2. head[r.a].seq = r.seq /\ head[r.a].final = r.final /\ r.seq > 0
  BY <1>1, OutboxAssumption DEF Idempotent
<1>3. [a |-> r.a, seq |-> r.seq, final |-> r.final] \in committed
  BY <1>1, <1>2 DEF HeadCommitted
<1>. QED  BY <1>1, <1>3, Zenon

\* A receipt that may be dropped is committed.
LEMMA AcceptedCommitted ==
    ASSUME EvidenceInv, NEW o \in Outboxes, NEW r \in files[o], Accepted(o, r)
    PROVE  r \in committed
<1>1. r \in Receipts
  BY DEF EvidenceInv, ShapeInv, TypeOK
<1>. QED
  BY <1>1, IdempotentCommitted DEF EvidenceInv, Accepted, Confirmed, OkCommitted

\* Every step keeps the evidence of unpaid work.
LEMMA EvidenceKept ==
    ASSUME EvidenceInv, [Next]_vars
    PROVE  EvidenceInv'
<1>0. ShapeInv' /\ TypeOK /\ TypeOK'
  BY ShapeInvKept DEF EvidenceInv, ShapeInv
<1>. DEFINE Good == HeadCommitted' /\ OkCommitted'
<1>1. ASSUME UNCHANGED <<head, committed, task>>
      PROVE  Good
  BY <1>1 DEF EvidenceInv, HeadCommitted, OkCommitted
<1>2. ASSUME NEW a \in Attempts,
             \/ Open(a) \/ Admit(a) \/ SessionEnds(a) \/ HandoffReceived(a) \/ HandoffLost(a) \/ Requeue(a)
             \/ RecoverySubmits(a) \/ ExpirySubmits(a) \/ RecoveryRetires(a) \/ ExpiryPasses(a)
             \/ \E fin \in BOOLEAN : ReceiptAcked(a, fin)
      PROVE  Good
  <2>1. UNCHANGED <<head, committed, task>>
    BY <1>2 DEF Open, Admit, SessionEnds, HandoffReceived, HandoffLost, Requeue, RecoverySubmits,
         ExpirySubmits, RecoveryRetires, ExpiryPasses, ReceiptAcked, ledger
  <2>. QED  BY <1>1, <2>1
<1>3. ASSUME NEW o \in Outboxes,
             FinishPersist(o) \/ Restart(o) \/ \E left \in BOOLEAN : PersistFails(o, left)
      PROVE  Good
  <2>1. UNCHANGED <<head, committed, task>>
    BY <1>3 DEF FinishPersist, PersistFails, Restart, ledger
  <2>. QED  BY <1>1, <2>1
<1>4. ASSUME NEW o \in Outboxes, Crash(o)
      PROVE  Good
  BY <1>0, <1>4 DEF Crash, NoTask, ledger, EvidenceInv, HeadCommitted, OkCommitted, TypeOK
<1>5. ASSUME NEW o \in Outboxes, NEW w \in Workers, NEW r \in files[o], SubmitStart(o, w, r)
      PROVE  Good
  BY <1>0, <1>5 DEF SubmitStart, ledger, EvidenceInv, HeadCommitted, OkCommitted, TypeOK
<1>6. ASSUME NEW o \in Outboxes, NEW w \in Workers, NEW heard \in BOOLEAN, SubmitEnd(o, w, heard)
      PROVE  Good
  BY <1>0, <1>6 DEF SubmitEnd, NoTask, ledger, EvidenceInv, HeadCommitted, OkCommitted, TypeOK
<1>7. ASSUME NEW r \in wire, Apply(r)
      PROVE  Good
  <2>1. r \in Receipts /\ r.a \in Attempts /\ r.seq \in 1..MaxSeq
        /\ r = [a |-> r.a, seq |-> r.seq, final |-> r.final]
    BY <1>0, ReceiptFields DEF TypeOK
  <2>2. committed \subseteq committed'
    BY <1>7 DEF Apply, ledger
  <2>3. Idempotent(r) \/ Advances(r) => r \in committed'
    <3>1. CASE Idempotent(r)
      BY <2>1, <2>2, <3>1, IdempotentCommitted DEF EvidenceInv
    <3>2. CASE ~Idempotent(r) /\ Advances(r)
      BY <1>7, <3>2 DEF Apply
    <3>. QED  BY <3>1, <3>2
  <2>4. OkCommitted'
    <3>. SUFFICES ASSUME NEW o \in Outboxes, NEW w \in Workers, task'[o][w].ans = "ok"
                  PROVE  task'[o][w].r \in committed'
      BY DEF OkCommitted
    <3>1. task'[o][w] =
            IF task[o][w].r = r /\ task[o][w].ans = "none"
            THEN [r |-> r, ans |-> IF Idempotent(r) \/ Advances(r) THEN "ok" ELSE "refused"]
            ELSE task[o][w]
      BY <1>7 DEF Apply
    <3>2. CASE task[o][w].r = r /\ task[o][w].ans = "none"
      BY <2>3, <3>1, <3>2
    <3>3. CASE ~(task[o][w].r = r /\ task[o][w].ans = "none")
      BY <2>2, <3>1, <3>3 DEF EvidenceInv, OkCommitted
    <3>. QED  BY <3>2, <3>3
  <2>5. HeadCommitted'
    <3>1. CASE ~Idempotent(r) /\ Advances(r)
      <4>1. head' = [head EXCEPT ![r.a] = [seq |-> r.seq, final |-> r.final, ready |-> r.final]]
            /\ r \in committed'
        BY <1>7, <3>1 DEF Apply
      <4>2. head'[r.a].seq = r.seq /\ head'[r.a].final = r.final
        BY <1>0, <2>1, <4>1 DEF TypeOK
      <4>3. [a |-> r.a, seq |-> head'[r.a].seq, final |-> head'[r.a].final] \in committed'
        BY <2>1, <4>1, <4>2, Zenon
      <4>4. \A b \in Attempts : b # r.a => head'[b] = head[b]
        BY <1>0, <4>1 DEF TypeOK
      <4>5. ASSUME NEW b \in Attempts, b # r.a, head'[b].seq > 0
            PROVE  [a |-> b, seq |-> head'[b].seq, final |-> head'[b].final] \in committed'
        BY <2>2, <4>4, <4>5 DEF EvidenceInv, HeadCommitted
      <4>. QED  BY <4>3, <4>5, Zenon DEF HeadCommitted
    <3>2. CASE ~(~Idempotent(r) /\ Advances(r))
      <4>1. UNCHANGED ledger
        BY <1>7, <3>2 DEF Apply
      <4>. QED  BY <4>1 DEF ledger, EvidenceInv, HeadCommitted
    <3>. QED  BY <3>1, <3>2
  <2>. QED  BY <2>4, <2>5
<1>8. ASSUME NEW c \in closeWire, CloseApplies(c)
      PROVE  Good
  <2>1. committed' = committed /\ task' = task
    BY <1>8 DEF CloseApplies
  <2>2. ASSUME NEW b \in Attempts
        PROVE  head'[b].seq = head[b].seq /\ head'[b].final = head[b].final
    <3>. DEFINE h == [head[c.a] EXCEPT !.ready = c.seq > 0]
    <3>1. head' = head \/ head' = [head EXCEPT ![c.a] = h]
      BY <1>8 DEF CloseApplies
    <3>2. head[c.a] \in [seq: 0..MaxSeq, final: BOOLEAN, ready: BOOLEAN]
          /\ (c.seq > 0) \in BOOLEAN
      BY <1>0 DEF TypeOK
    <3>3. h.seq = head[c.a].seq /\ h.final = head[c.a].final
      BY <3>2, ReadyReplaced, Zenon
    <3>. HIDE DEF h
    <3>. QED  BY <1>0, <3>1, <3>3 DEF TypeOK
  <2>. QED  BY <2>1, <2>2 DEF EvidenceInv, HeadCommitted, OkCommitted
<1>9. ASSUME UNCHANGED vars
      PROVE  Good
  BY <1>1, <1>9 DEF vars
<1>10. Good
  BY <1>2, <1>3, <1>4, <1>5, <1>6, <1>7, <1>8, <1>9 DEF Next
<1>. QED  BY <1>0, <1>10 DEF EvidenceInv

\* The initial states satisfy the invariant.
LEMMA InitEvidence ==
    ASSUME Init
    PROVE  EvidenceInv
BY InitShape DEF Init, EvidenceInv, HeadCommitted, OkCommitted, NoHead, NoTask

\* What leaves a directory is committed or outranked there.
LEMMA LeavesJustified ==
    ASSUME EvidenceInv, [Next]_vars, NEW o \in Outboxes, NEW r \in files[o], r \notin files'[o]
    PROVE  r \in committed' \/ \E q \in files'[o] : q.a = r.a /\ Supersedes(r, q)
<1>0. /\ DirectoryShape(o) /\ DiskStep(o) /\ r \in Receipts /\ r.a \in Attempts
      /\ files[o] \subseteq Receipts
  BY StepsTyped, ReceiptFields DEF EvidenceInv, ShapeInv, TypeOK
<1>1. committed \subseteq committed'
  <2>1. ASSUME NEW q \in wire, Apply(q)
        PROVE  committed \subseteq committed'
    BY <2>1 DEF Apply, ledger
  <2>2. CASE \E c \in closeWire : CloseApplies(c)
    BY <2>2 DEF CloseApplies
  <2>3. ASSUME NEW a \in Attempts,
               \/ Open(a) \/ Admit(a) \/ SessionEnds(a) \/ HandoffReceived(a) \/ HandoffLost(a) \/ Requeue(a)
               \/ RecoverySubmits(a) \/ ExpirySubmits(a) \/ RecoveryRetires(a) \/ ExpiryPasses(a)
               \/ \E fin \in BOOLEAN : ReceiptAcked(a, fin)
        PROVE  committed \subseteq committed'
    BY <2>3 DEF Open, Admit, SessionEnds, HandoffReceived, HandoffLost, Requeue, RecoverySubmits,
         ExpirySubmits, RecoveryRetires, ExpiryPasses, ReceiptAcked, ledger
  <2>4. ASSUME NEW p \in Outboxes,
               \/ FinishPersist(p) \/ Crash(p) \/ Restart(p)
               \/ \E left \in BOOLEAN : PersistFails(p, left)
               \/ \E w \in Workers : \/ \E q \in files[p] : SubmitStart(p, w, q)
                                     \/ \E heard \in BOOLEAN : SubmitEnd(p, w, heard)
        PROVE  committed \subseteq committed'
    BY <2>4 DEF FinishPersist, PersistFails, Crash, Restart, SubmitStart, SubmitEnd, ledger
  <2>5. CASE UNCHANGED vars
    BY <2>5 DEF vars
  <2>. QED  BY <2>1, <2>2, <2>3, <2>4, <2>5 DEF Next
<1>2. CASE FinishStep(o) \/ FailStep(o)
  <2>1. r = writing[o].old /\ r # NoReceipt
    BY <1>0, <1>2, ReceiptFields DEF FinishStep, FailStep
  <2>2. /\ writing[o].new \in files[o] /\ writing[o].new.a = r.a
        /\ Supersedes(r, writing[o].new)
    BY <1>0, <1>2, <2>1 DEF FinishStep, FailStep, DirectoryShape, WritePair
  <2>3. writing[o].new # r
    <3>1. r.seq \in Int
      BY <1>0, ReceiptFields, OutboxAssumption
    <3>. QED  BY <2>2, <3>1 DEF Supersedes
  <2>. QED  BY <1>2, <2>1, <2>2, <2>3 DEF FinishStep, FailStep
<1>3. CASE DropStep(o)
  <2>1. Accepted(o, r)
    BY <1>3 DEF DropStep
  <2>. QED  BY <1>1, <2>1, AcceptedCommitted
<1>4. CASE StartStep(o)
  <2>1. r \in Entries(o, r.a)
    BY DEF Entries
  <2>2. /\ Winner(o, r.a) \in Entries(o, r.a)
        /\ r # Winner(o, r.a) => Supersedes(r, Winner(o, r.a))
    BY <1>0, <2>1, WinnerWins DEF DirectoryShape
  <2>3. Winner(o, r.a) \in files'[o]
    BY <1>0, <1>4, <2>1 DEF StartStep, Winners
  <2>4. Winner(o, r.a).a = r.a
    BY <2>2 DEF Entries
  <2>. QED  BY <2>2, <2>3, <2>4
<1>5. CASE IdleStep(o) \/ StopStep(o) \/ LinkStep(o)
  BY <1>5 DEF IdleStep, StopStep, LinkStep
<1>. QED  BY <1>0, <1>2, <1>3, <1>4, <1>5 DEF DiskStep

\* Signed evidence is durable (EvidenceDurable): persist, remove, compaction and crashes take
\* a receipt from a directory only for a higher one that is there or after the ledger has
\* accepted it.
THEOREM EvidenceIsDurable == Spec => EvidenceDurable
<1>1. Init => EvidenceInv
  BY InitEvidence
<1>2. EvidenceInv /\ [Next]_vars => EvidenceInv'
  BY EvidenceKept
<1>3. EvidenceInv /\ [Next]_vars =>
        [\A o \in Outboxes : \A r \in files[o] \ files'[o] :
            r \in committed' \/ \E q \in files'[o] : q.a = r.a /\ Supersedes(r, q)]_vars
  BY LeavesJustified
<1>. QED  BY <1>1, <1>2, <1>3, PTL DEF Spec, EvidenceDurable

----------------------------------------------------------------------------
(* Closing.                                                                *)

\* The session is over and the provider's outbox has nothing of it.
Quiet(a) == session[a] = "ended" /\ Entries("provider", a) = {}

CloseInv ==
    /\ ShapeInv
    /\ \A c \in closeWire : c.by = "provider" => Quiet(c.a)
    /\ \A a \in Attempts : closedBy[a] = "provider" => Quiet(a)

\* Nothing is queued for a session that is over.
LEMMA QuietKept ==
    ASSUME ShapeInv, [Next]_vars, NEW a \in Attempts, Quiet(a)
    PROVE  Quiet(a)'
<1>0. /\ TypeOK /\ "provider" \in Outboxes /\ DirectoryShape("provider")
      /\ files["provider"] \subseteq Receipts
  BY DEF ShapeInv, Outboxes, TypeOK
<1>1. ASSUME session'[a] = "ended", files'["provider"] \subseteq files["provider"]
      PROVE  Quiet(a)'
  BY <1>1 DEF Quiet, Entries
<1>2. ASSUME NEW b \in Attempts, ReceiptAcked(b, TRUE) \/ ReceiptAcked(b, FALSE)
      PROVE  Quiet(a)'
  <2>1. b # a
    BY <1>2 DEF ReceiptAcked, Quiet
  <2>2. session'[a] = session[a]
    <3>1. session' = session \/ session' = [session EXCEPT ![b] = "ended"]
      BY <1>2 DEF ReceiptAcked
    <3>. QED  BY <1>0, <2>1, <3>1 DEF TypeOK
  <2>3. ASSUME NEW q \in files'["provider"]
        PROVE  q \in files["provider"] \/ q.a = b
    <3>1. PICK fin \in BOOLEAN : ReceiptAcked(b, fin)
      BY <1>2
    <3>. DEFINE r == [a |-> b, seq |-> LastSeq(b) + 1, final |-> fin]
    <3>2. CASE CanLink("provider", r)
      BY <1>0, <3>1, <3>2 DEF ReceiptAcked, Link, TypeOK
    <3>3. CASE ~CanLink("provider", r)
      BY <3>1, <3>3 DEF ReceiptAcked, disk
    <3>. QED  BY <3>2, <3>3
  <2>. QED  BY <2>1, <2>2, <2>3 DEF Quiet, Entries
<1>3. ASSUME NEW b \in Attempts, Open(b) \/ Admit(b)
      PROVE  Quiet(a)'
  <2>1. session'[a] = "ended"
    BY <1>0, <1>3 DEF Open, Admit, TypeOK, Quiet
  <2>. QED  BY <1>1, <1>3, <2>1 DEF Open, Admit, disk
<1>4. ASSUME NEW b \in Attempts, SessionEnds(b) \/ HandoffLost(b)
      PROVE  Quiet(a)'
  <2>1. session'[a] = "ended"
    BY <1>0, <1>4 DEF SessionEnds, HandoffLost, TypeOK, Quiet
  <2>. QED  BY <1>1, <1>4, <2>1 DEF SessionEnds, HandoffLost, disk
<1>5. ASSUME NEW b \in Attempts, HandoffReceived(b) \/ Requeue(b)
      PROVE  Quiet(a)'
  <2>1. session' = session
    BY <1>5 DEF HandoffReceived, Requeue
  <2>2. files'["provider"] = files["provider"]
    BY <1>0, <1>5 DEF HandoffReceived, Requeue, Link, disk, TypeOK, Outboxes
  <2>. QED  BY <1>1, <2>1, <2>2 DEF Quiet
<1>6. ASSUME NEW b \in Attempts,
             RecoverySubmits(b) \/ ExpirySubmits(b) \/ RecoveryRetires(b) \/ ExpiryPasses(b)
      PROVE  Quiet(a)'
  <2>1. session' = session /\ files' = files
    BY <1>6 DEF RecoverySubmits, ExpirySubmits, RecoveryRetires, ExpiryPasses, disk
  <2>. QED  BY <1>1, <2>1 DEF Quiet
<1>7. ASSUME NEW o \in Outboxes, FinishPersist(o)
      PROVE  Quiet(a)'
  <2>1. files'["provider"] \subseteq files["provider"]
    BY <1>0, <1>7 DEF FinishPersist, TypeOK
  <2>2. session'[a] = "ended"
    <3>1. CASE o = "provider"
      <4>1. session' = [session EXCEPT ![writing[o].new.a] =
                          IF writing[o].new.final THEN "ended" ELSE @]
        BY <1>7, <3>1 DEF FinishPersist
      <4>. QED  BY <1>0, <4>1 DEF TypeOK, Quiet
    <3>2. CASE o # "provider"
      BY <1>7, <3>2 DEF FinishPersist, Quiet
    <3>. QED  BY <3>1, <3>2
  <2>. QED  BY <1>1, <2>1, <2>2
<1>8. ASSUME NEW o \in Outboxes, Crash(o)
      PROVE  Quiet(a)'
  BY <1>1, <1>8 DEF Crash, Quiet
<1>9. ASSUME NEW o \in Outboxes, Restart(o)
      PROVE  Quiet(a)'
  <2>1. \A r \in Winners("provider") : r \in files["provider"]
    BY <1>0, WinnersAreFiles DEF DirectoryShape
  <2>2. files'["provider"] \subseteq files["provider"]
    BY <1>0, <1>9, <2>1 DEF Restart, TypeOK
  <2>. QED  BY <1>1, <1>9, <2>2 DEF Restart, Quiet
<1>10. ASSUME NEW o \in Outboxes, NEW w \in Workers, NEW r \in files[o], SubmitStart(o, w, r)
       PROVE  Quiet(a)'
  BY <1>1, <1>10 DEF SubmitStart, Quiet, disk
<1>11. ASSUME NEW o \in Outboxes, NEW w \in Workers, NEW heard \in BOOLEAN, SubmitEnd(o, w, heard)
       PROVE  Quiet(a)'
  <2>1. files'["provider"] \subseteq files["provider"]
    BY <1>0, <1>11 DEF SubmitEnd, TypeOK
  <2>. QED  BY <1>1, <1>11, <2>1 DEF SubmitEnd, Quiet
<1>12. ASSUME NEW r \in wire, Apply(r)
       PROVE  Quiet(a)'
  BY <1>1, <1>12 DEF Apply, Quiet, disk
<1>13. ASSUME NEW c \in closeWire, CloseApplies(c)
       PROVE  Quiet(a)'
  BY <1>1, <1>13 DEF CloseApplies, Quiet, disk
<1>14. CASE UNCHANGED vars
  BY <1>1, <1>14 DEF vars, Quiet
<1>15. ASSUME NEW o \in Outboxes, NEW left \in BOOLEAN, PersistFails(o, left)
       PROVE  Quiet(a)'
  <2>1. files'["provider"] \subseteq files["provider"]
    BY <1>0, <1>15 DEF PersistFails, TypeOK
  <2>2. session'[a] = "ended"
    BY <1>15 DEF PersistFails, Quiet
  <2>. QED  BY <1>1, <2>1, <2>2
<1>. QED
  BY <1>2, <1>3, <1>4, <1>5, <1>6, <1>7, <1>8, <1>9, <1>10, <1>11, <1>12, <1>13, <1>14,
     <1>15 DEF Next

\* A new close of the provider, and a reservation it closes, are of a quiet attempt.
LEMMA ClosesQuiet ==
    ASSUME CloseInv, [Next]_vars
    PROVE  /\ \A c \in closeWire' : c.by = "provider" => c \in closeWire \/ Quiet(c.a)
           /\ \A a \in Attempts : closedBy'[a] = "provider" => Quiet(a)
<1>. DEFINE Good == /\ \A c \in closeWire' : c.by = "provider" => c \in closeWire \/ Quiet(c.a)
                    /\ \A a \in Attempts : closedBy'[a] = "provider" => Quiet(a)
<1>0. TypeOK
  BY DEF CloseInv, ShapeInv
<1>1. ASSUME closeWire' \subseteq closeWire, closedBy' = closedBy
      PROVE  Good
  BY <1>1 DEF CloseInv
<1>2. ASSUME NEW a \in Attempts,
             \/ Open(a) \/ Admit(a) \/ SessionEnds(a) \/ HandoffReceived(a) \/ HandoffLost(a) \/ Requeue(a)
             \/ RecoveryRetires(a) \/ ExpiryPasses(a)
             \/ \E fin \in BOOLEAN : ReceiptAcked(a, fin)
      PROVE  Good
  <2>1. closeWire' = closeWire /\ closedBy' = closedBy
    BY <1>2 DEF Open, Admit, SessionEnds, HandoffReceived, HandoffLost, Requeue, RecoveryRetires,
         ExpiryPasses, ReceiptAcked, ledger
  <2>. QED  BY <1>1, <2>1
<1>3. ASSUME NEW a \in Attempts, RecoverySubmits(a)
      PROVE  Good
  <2>1. /\ closeWire' = closeWire \cup {[a |-> a, seq |-> head[a].seq, by |-> "provider"]}
        /\ closedBy' = closedBy /\ Quiet(a)
    BY <1>3 DEF RecoverySubmits, Quiet, ledger
  <2>. QED  BY <2>1 DEF CloseInv
<1>4. ASSUME NEW a \in Attempts, ExpirySubmits(a)
      PROVE  Good
  <2>1. /\ closeWire' = closeWire \cup {[a |-> a, seq |-> head[a].seq, by |-> "buyer"]}
        /\ closedBy' = closedBy
    BY <1>4 DEF ExpirySubmits, ledger
  <2>. QED  BY <2>1 DEF CloseInv
<1>5. ASSUME NEW o \in Outboxes,
             \/ FinishPersist(o) \/ Crash(o) \/ Restart(o)
             \/ \E left \in BOOLEAN : PersistFails(o, left)
             \/ \E w \in Workers : \/ \E r \in files[o] : SubmitStart(o, w, r)
                                   \/ \E heard \in BOOLEAN : SubmitEnd(o, w, heard)
      PROVE  Good
  <2>1. closeWire' = closeWire /\ closedBy' = closedBy
    BY <1>5 DEF FinishPersist, PersistFails, Crash, Restart, SubmitStart, SubmitEnd, ledger
  <2>. QED  BY <1>1, <2>1
<1>6. ASSUME NEW r \in wire, Apply(r)
      PROVE  Good
  <2>1. closeWire' = closeWire
    BY <1>6 DEF Apply
  <2>2. ASSUME NEW b \in Attempts, closedBy'[b] = "provider"
        PROVE  closedBy[b] = "provider"
    <3>1. \/ closedBy' = closedBy
          \/ closedBy' = [closedBy EXCEPT ![r.a] = IF r.final THEN "receipt" ELSE @]
      BY <1>6 DEF Apply, ledger
    <3>. QED  BY <1>0, <2>2, <3>1 DEF TypeOK
  <2>. QED  BY <2>1, <2>2 DEF CloseInv
<1>7. ASSUME NEW c \in closeWire, CloseApplies(c)
      PROVE  Good
  <2>1. closeWire' \subseteq closeWire
    BY <1>7 DEF CloseApplies
  <2>2. ASSUME NEW b \in Attempts, closedBy'[b] = "provider"
        PROVE  closedBy[b] = "provider" \/ (c.by = "provider" /\ c.a = b)
    <3>1. closedBy' = closedBy \/ closedBy' = [closedBy EXCEPT ![c.a] = c.by]
      BY <1>7 DEF CloseApplies
    <3>. QED  BY <1>0, <2>2, <3>1 DEF TypeOK
  <2>. QED  BY <2>1, <2>2 DEF CloseInv
<1>8. ASSUME UNCHANGED vars
      PROVE  Good
  BY <1>1, <1>8 DEF vars
<1>. QED  BY <1>2, <1>3, <1>4, <1>5, <1>6, <1>7, <1>8 DEF Next

\* The provider closes a reservation only when nothing of it waits in its outbox, at the time
\* the close is applied and ever after (CloseFreezesNothing; recover_one and
\* closeUsageReservation).
THEOREM ClosesFreezeNothing == Spec => []CloseFreezesNothing
<1>1. Init => CloseInv
  BY InitShape DEF Init, CloseInv
<1>2. CloseInv /\ [Next]_vars => CloseInv'
  <2>. SUFFICES ASSUME CloseInv, [Next]_vars
                PROVE  CloseInv'
    OBVIOUS
  <2>1. ShapeInv' /\ \A c \in closeWire' : c.a \in Attempts
    BY ShapeInvKept DEF CloseInv, ShapeInv, TypeOK
  <2>2. \A a \in Attempts : Quiet(a) => Quiet(a)'
    BY QuietKept DEF CloseInv
  <2>3. \A c \in closeWire' : c.by = "provider" => Quiet(c.a)
    BY ClosesQuiet DEF CloseInv
  <2>4. \A c \in closeWire' : c.by = "provider" => Quiet(c.a)'
    BY <2>1, <2>2, <2>3
  <2>5. \A a \in Attempts : closedBy'[a] = "provider" => Quiet(a)'
    BY <2>2, ClosesQuiet
  <2>. QED  BY <2>1, <2>4, <2>5 DEF CloseInv
<1>3. CloseInv => CloseFreezesNothing
  BY DEF CloseInv, Quiet, CloseFreezesNothing
<1>. QED  BY <1>1, <1>2, <1>3, PTL DEF Spec
=============================================================================
