------------------------- MODULE GatewayJobsProofs -------------------------
(***************************************************************************)
(* Theorems about the gateway's job vault, for any number of jobs, any     *)
(* bounds of the vault, any crashes and any disk faults.                   *)
(*                                                                         *)
(* The vault operations are described once by what they do to a job's      *)
(* slot (the lemmas of the first part); the invariant is then kept slot by *)
(* slot.                                                                   *)
(*                                                                         *)
(* While the disk works, two more results hold.  The vault implements the  *)
(* lifecycle it promises (JobLifecycle): the initial states map to its     *)
(* initial state, and every step of requests, recovery, ledger, clock,     *)
(* crash and restart maps to a move of each job's life or leaves it.  And  *)
(* the vault opens again after a crash: the sizes it counts are those of   *)
(* its files, so that they fit when they are read back.                    *)
(***************************************************************************)
EXTENDS GatewayJobs, SumProofs, TLAPS

ResvType == [Jobs -> [0..MaxAttempts -> {"none", "open", "expired", "closed"}]]

VaultType == [disk: Slots, records: Slots, recovery: Slots, active: SUBSET Jobs,
              reconciling: SUBSET Jobs, sealed: [Jobs -> 0..2]]

----------------------------------------------------------------------------
(* What a vault operation does to the slot of a job.                       *)

\* Memory of job i is the same; Same also says so of its file.
MemorySame(v, w, i) ==
    /\ w.records[i] = v.records[i] /\ w.recovery[i] = v.recovery[i]
    /\ w.sealed[i] = v.sealed[i]
    /\ i \in w.active <=> i \in v.active
    /\ i \in w.reconciling <=> i \in v.reconciling

Same(v, w, i) == w.disk[i] = v.disk[i] /\ MemorySame(v, w, i)

\* Job i was a record that may be evicted, and is gone.
Evicted(v, w, i) ==
    /\ v.records[i] # NoRecord /\ i \notin v.reconciling
    /\ w.records[i] = NoRecord /\ w.disk[i] = NoRecord /\ w.sealed[i] = 0
    /\ i \notin w.reconciling
    /\ w.recovery[i] = v.recovery[i] /\ (i \in w.active <=> i \in v.active)

Trimmed(v, w, S) == w \in VaultType /\ \A i \in S : Same(v, w, i) \/ Evicted(v, w, i)

\* Dropping evictable records trims the vault and touches no other job.
LEMMA DropTrims ==
    ASSUME NEW v \in VaultType, NEW E \in SUBSET Jobs,
           \A i \in E : v.records[i] # NoRecord /\ i \notin v.reconciling
    PROVE  Trimmed(v, Drop(v, E), Jobs) /\ \A i \in Jobs \ E : Same(v, Drop(v, E), i)
<1>. DEFINE w == Drop(v, E)
            records == [j \in Jobs |-> IF j \in E THEN NoRecord ELSE v.records[j]]
            disk == [j \in Jobs |-> IF j \in E THEN NoRecord ELSE v.disk[j]]
            sealed == [j \in Jobs |-> IF j \in E THEN 0 ELSE v.sealed[j]]
<1>1. records \in Slots /\ disk \in Slots /\ sealed \in [Jobs -> 0..2]
  BY DEF VaultType, Slots
<1>2. w = [v EXCEPT !.records = records, !.disk = disk, !.sealed = sealed,
                    !.reconciling = @ \ E]
  BY DEF Drop
<1>. HIDE DEF w, records, disk, sealed
<1>3. /\ w \in VaultType /\ w.records = records /\ w.disk = disk /\ w.sealed = sealed
      /\ w.reconciling = v.reconciling \ E /\ w.active = v.active /\ w.recovery = v.recovery
  BY <1>1, <1>2 DEF VaultType
<1>4. ASSUME NEW i \in E
      PROVE  Evicted(v, w, i)
  BY <1>3, <1>4 DEF Evicted, records, disk, sealed
<1>5. ASSUME NEW i \in Jobs \ E
      PROVE  Same(v, w, i)
  BY <1>3, <1>5 DEF Same, MemorySame, records, disk, sealed
<1>6. Trimmed(v, w, Jobs) /\ \A i \in Jobs \ E : Same(v, w, i)
  BY <1>3, <1>4, <1>5 DEF Trimmed
<1>. QED  BY <1>6 DEF w

\* Making room evicts counted records only.
Room(v, C, m) ==
    /\ m.ok \in BOOLEAN /\ DOMAIN m = {"v", "ok"}
    /\ Trimmed(v, m.v, Jobs) /\ \A i \in Jobs \ C : Same(v, m.v, i)

\* Making room for a job only trims.
LEMMA RoomForJobTrims ==
    ASSUME NEW v \in VaultType
    PROVE  Room(v, Counted(v), RoomForJob(v))
<1>. DEFINE sets == {E \in SUBSET Counted(v) :
                        /\ \A i \in E, j \in Counted(v) \ E : Older(v, i, j)
                        /\ Cardinality(Counted(v) \ E) + Cardinality(v.active) < MaxJobs}
            least == {j \in Counted(v) : \A E \in sets : j \in E}
<1>1. RoomForJob(v) = [v |-> Drop(v, least), ok |-> sets # {}]
  BY DEF RoomForJob, MakeRoom
<1>2. least \in SUBSET Jobs /\ least \subseteq Counted(v)
      /\ \A i \in least : v.records[i] # NoRecord /\ i \notin v.reconciling
  BY DEF Counted, Has
<1>. HIDE DEF sets, least
<1>3. Trimmed(v, Drop(v, least), Jobs) /\ \A i \in Jobs \ Counted(v) : Same(v, Drop(v, least), i)
  BY <1>2, DropTrims
<1>. QED  BY <1>1, <1>3 DEF Room

\* Making room for a file trims other jobs only.
LEMMA RoomForBytesTrims ==
    ASSUME NEW v \in VaultType, NEW j \in Jobs, NEW bytes
    PROVE  Room(v, Counted(v) \ {j}, RoomForBytes(v, j, bytes))
<1>. DEFINE C == Counted(v) \ {j}
            sets == {E \in SUBSET C :
                        /\ \A i \in E, k \in C \ E : Older(v, i, k)
                        /\ Sizes(v, Jobs \ (E \cup {j})) + bytes <= MaxBytes}
            least == {k \in C : \A E \in sets : k \in E}
<1>1. RoomForBytes(v, j, bytes) = [v |-> Drop(v, least), ok |-> sets # {}]
  BY DEF RoomForBytes, MakeRoom
<1>2. least \in SUBSET Jobs /\ least \subseteq C
      /\ \A i \in least : v.records[i] # NoRecord /\ i \notin v.reconciling
  BY DEF Counted, Has
<1>. HIDE DEF sets, least
<1>3. Trimmed(v, Drop(v, least), Jobs) /\ \A i \in Jobs \ C : Same(v, Drop(v, least), i)
  BY <1>2, DropTrims
<1>. QED  BY <1>1, <1>3 DEF Room

\* Enforcing the bounds after a write trims, but not what it is to keep.
LEMMA EnforceBoundsTrims ==
    ASSUME NEW v \in VaultType, NEW keep
    PROVE  Room(v, Counted(v) \ keep, EnforceBounds(v, keep))
<1>. DEFINE C == Counted(v) \ keep
            sets == {E \in SUBSET C :
                        /\ \A i \in E, k \in C \ E : Older(v, i, k)
                        /\ /\ Cardinality(Counted(v) \ E) <= MaxJobs
                           /\ Sizes(v, Jobs \ E) <= MaxBytes}
            least == {k \in C : \A E \in sets : k \in E}
<1>1. EnforceBounds(v, keep) = [v |-> Drop(v, least), ok |-> sets # {}]
  BY DEF EnforceBounds, MakeRoom
<1>2. least \in SUBSET Jobs /\ least \subseteq C
      /\ \A i \in least : v.records[i] # NoRecord /\ i \notin v.reconciling
  BY DEF Counted, Has
<1>. HIDE DEF sets, least
<1>3. Trimmed(v, Drop(v, least), Jobs) /\ \A i \in Jobs \ C : Same(v, Drop(v, least), i)
  BY <1>2, DropTrims
<1>. QED  BY <1>1, <1>3 DEF Room

\* Expiry evicts records that are not pending.
LEMMA PurgedTrims ==
    ASSUME NEW v \in VaultType,
           \A i \in Jobs : i \in v.reconciling => v.records[i].status = "pending"
    PROVE  /\ Trimmed(v, Purged(v), Jobs)
           /\ \A i \in Jobs : Evicted(v, Purged(v), i) =>
                 v.records[i].status # "pending" /\ v.records[i].fin + Ttl <= now
<1>. DEFINE E == {j \in Jobs : /\ Has(v.records, j)
                               /\ v.records[j].status # "pending"
                               /\ v.records[j].fin + Ttl <= now}
<1>1. Purged(v) = Drop(v, E)
  BY DEF Purged
<1>2. E \in SUBSET Jobs /\ \A i \in E : v.records[i] # NoRecord /\ i \notin v.reconciling
  BY DEF Has
<1>3. Trimmed(v, Drop(v, E), Jobs) /\ \A i \in Jobs \ E : Same(v, Drop(v, E), i)
  BY <1>2, DropTrims
<1>4. \A i \in Jobs : Evicted(v, Drop(v, E), i) => i \in E
  BY <1>3 DEF Evicted, Same, MemorySame
<1>. QED  BY <1>1, <1>3, <1>4

\* A write of job j after room was made.
WroteFile(v, w, j, r, flt) ==
    /\ w.ok \in BOOLEAN
    /\ Trimmed(v, w.v, Jobs \ {j}) /\ MemorySame(v, w.v, j)
    /\ w.v.disk[j] \in {v.disk[j], r}
    /\ w.ok => w.v.disk[j] = r /\ flt = "none" /\ (v.sealed[j] > 0 <=> v.disk[j] # NoRecord)
    /\ ~w.ok /\ flt # "sync" => w.v.disk[j] = v.disk[j]

\* A write changes the file of its own job, as far as the fault lets it.
LEMMA WrittenSlots ==
    ASSUME NEW v \in VaultType, NEW j \in Jobs, NEW r \in Record, NEW flt \in Faults,
           NEW m, Room(v, Counted(v) \ {j}, m)
    PROVE  WroteFile(v, Written(m, j, r, flt), j, r, flt)
<1>0. /\ m.ok \in BOOLEAN /\ m.v \in VaultType /\ Trimmed(v, m.v, Jobs \ {j})
      /\ Same(v, m.v, j)
  BY DEF Room, Trimmed
<1>1. CASE ~m.ok
  <2>1. Written(m, j, r, flt) = m
    BY <1>1 DEF Written
  <2>. QED  BY <1>0, <1>1, <2>1 DEF WroteFile, Same
<1>2. CASE m.ok
  <2>1. Written(m, j, r, flt) = Persist(m.v, j, r, flt)
    BY <1>2 DEF Written
  <2>2. CASE (m.v.sealed[j] > 0) # Has(m.v.disk, j)
    <3>1. Persist(m.v, j, r, flt) = [v |-> m.v, ok |-> FALSE]
      BY <2>2 DEF Persist
    <3>. QED  BY <1>0, <2>1, <3>1 DEF WroteFile, Same
  <2>3. CASE (m.v.sealed[j] > 0) = Has(m.v.disk, j)
    <3>. DEFINE x == [m.v EXCEPT !.disk[j] = r]
    <3>1. Persist(m.v, j, r, flt) = [v |-> IF flt = "write" THEN m.v ELSE x, ok |-> flt = "none"]
      BY <2>3 DEF Persist
    <3>2. /\ x \in VaultType /\ x.disk[j] = r /\ \A i \in Jobs \ {j} : x.disk[i] = m.v.disk[i]
          /\ x.records = m.v.records /\ x.recovery = m.v.recovery /\ x.active = m.v.active
          /\ x.reconciling = m.v.reconciling /\ x.sealed = m.v.sealed
      BY <1>0 DEF VaultType, Slots
    <3>. HIDE DEF x
    <3>3. Trimmed(v, x, Jobs \ {j}) /\ MemorySame(v, x, j)
      BY <1>0, <3>2 DEF Trimmed, Same, MemorySame, Evicted
    <3>4. v.sealed[j] > 0 <=> v.disk[j] # NoRecord
      BY <1>0, <2>3 DEF Same, MemorySame, Has
    <3>. DEFINE w == Written(m, j, r, flt)
                put == IF flt = "write" THEN m.v ELSE x
    <3>a. w.v = put
      <4>. HIDE DEF put
      <4>1. w = [v |-> put, ok |-> flt = "none"]
        BY <2>1, <3>1 DEF put
      <4>. HIDE DEF w
      <4>. QED  BY <4>1
    <3>b. w.ok = (flt = "none")
      <4>. HIDE DEF put
      <4>1. w = [v |-> put, ok |-> flt = "none"]
        BY <2>1, <3>1 DEF put
      <4>. HIDE DEF w
      <4>. QED  BY <4>1
    <3>. HIDE DEF w
    <3>5. CASE flt = "write"
      <4>1. w.v = m.v /\ ~w.ok /\ w.ok \in BOOLEAN
        BY <3>a, <3>b, <3>5
      <4>2. WroteFile(v, w, j, r, flt)
        BY <1>0, <3>5, <4>1 DEF WroteFile, Same
      <4>. QED  BY <4>2 DEF w
    <3>6. CASE flt = "sync"
      <4>1. w.v = x /\ ~w.ok /\ w.ok \in BOOLEAN
        BY <3>a, <3>b, <3>6
      <4>2. WroteFile(v, w, j, r, flt)
        BY <3>2, <3>3, <3>6, <4>1 DEF WroteFile
      <4>. QED  BY <4>2 DEF w
    <3>7. CASE flt = "none"
      <4>1. w.v = x /\ w.ok /\ w.ok \in BOOLEAN
        BY <3>a, <3>b, <3>7
      <4>2. WroteFile(v, w, j, r, flt)
        BY <3>2, <3>3, <3>4, <3>7, <4>1 DEF WroteFile
      <4>. QED  BY <4>2 DEF w
    <3>. QED  BY <3>5, <3>6, <3>7 DEF Faults
  <2>. QED  BY <2>2, <2>3
<1>. QED  BY <1>0, <1>1, <1>2

\* persist_active_recovery: the copy of the running job is replaced, or memory is untouched.
Protected(v, w, j, r) ==
    /\ w.recovery[j] = r /\ w.disk[j] = r /\ w.sealed[j] = r.bytes
    /\ w.records[j] = v.records[j]
    /\ j \in w.active <=> j \in v.active
    /\ j \in w.reconciling <=> j \in v.reconciling

\* put_active changes the recovery copy of its own job, or nothing in memory.
LEMMA PutActiveSlots ==
    ASSUME NEW v \in VaultType, NEW j \in Jobs, NEW r \in Record, NEW flt \in Faults
    PROVE  LET w == PutActive(v, j, r, flt) IN
           /\ Trimmed(v, w.v, Jobs \ {j}) /\ w.ok \in BOOLEAN
           /\ w.ok => /\ Protected(v, w.v, j, r) /\ flt = "none"
                      /\ v.sealed[j] > 0 <=> v.disk[j] # NoRecord
           /\ ~w.ok => MemorySame(v, w.v, j) /\ w.v.disk[j] \in {v.disk[j], r}
           /\ ~w.ok /\ flt # "sync" => w.v.disk[j] = v.disk[j]
<1>. DEFINE m == RoomForBytes(v, j, r.bytes)
            x == Written(m, j, r, flt)
            w == PutActive(v, j, r, flt)
<1>1. Room(v, Counted(v) \ {j}, m)
  BY RoomForBytesTrims
<1>. HIDE DEF m
<1>2. WroteFile(v, x, j, r, flt)
  BY <1>1, WrittenSlots
<1>3. w = IF x.ok THEN [v |-> [x.v EXCEPT !.recovery[j] = r, !.sealed[j] = r.bytes], ok |-> TRUE]
          ELSE x
  BY DEF PutActive, m
<1>. HIDE DEF x, w
<1>4. CASE ~x.ok
  BY <1>2, <1>3, <1>4 DEF WroteFile, w
<1>5. CASE x.ok
  <2>. DEFINE y == [x.v EXCEPT !.recovery[j] = r, !.sealed[j] = r.bytes]
  <2>0. r.bytes \in 0..2 /\ x.v \in VaultType
    BY <1>2 DEF Record, WroteFile, Trimmed
  <2>1. /\ y \in VaultType /\ y.recovery[j] = r /\ y.sealed[j] = r.bytes
        /\ \A i \in Jobs \ {j} : y.recovery[i] = x.v.recovery[i] /\ y.sealed[i] = x.v.sealed[i]
        /\ y.disk = x.v.disk /\ y.records = x.v.records /\ y.active = x.v.active
        /\ y.reconciling = x.v.reconciling
    BY <2>0 DEF VaultType, Slots
  <2>2. w.v = y /\ w.ok = TRUE
    BY <1>3, <1>5
  <2>. HIDE DEF y
  <2>3. Trimmed(v, y, Jobs \ {j})
    BY <1>2, <2>1 DEF WroteFile, Trimmed, Same, MemorySame, Evicted
  <2>4. Protected(v, y, j, r)
    BY <1>2, <1>5, <2>1 DEF WroteFile, MemorySame, Protected
  <2>. QED  BY <1>2, <1>5, <2>2, <2>3, <2>4 DEF WroteFile, w
<1>. QED  BY <1>2, <1>4, <1>5 DEF WroteFile

\* The shared tail of complete, finish_reconciliation and update_reconciliation_receipt.
Recorded(w, j, r) ==
    /\ w.records[j] = r /\ w.disk[j] = r /\ w.sealed[j] = r.bytes
    /\ w.recovery[j] = NoRecord /\ j \notin w.active
    /\ j \in w.reconciling <=> r.status = "pending"

\* put_record changes the record of its own job; a failed one may leave the new file.
LEMMA PutRecordSlots ==
    ASSUME NEW v \in VaultType, NEW j \in Jobs, NEW r \in Record, NEW flt \in Faults
    PROVE  LET w == PutRecord(v, j, r, flt) IN
           /\ Trimmed(v, w.v, Jobs \ {j}) /\ w.ok \in BOOLEAN
           /\ w.ok => Recorded(w.v, j, r)
           /\ Recorded(w.v, j, r) \/ (MemorySame(v, w.v, j) /\ w.v.disk[j] \in {v.disk[j], r})
           /\ flt # "sync" => Recorded(w.v, j, r) \/ Same(v, w.v, j)
<1>. DEFINE m == RoomForBytes(v, j, r.bytes)
            x == Written(m, j, r, flt)
            w == PutRecord(v, j, r, flt)
            y == [x.v EXCEPT !.records[j] = r, !.sealed[j] = r.bytes,
                             !.active = @ \ {j}, !.recovery[j] = NoRecord,
                             !.reconciling = IF r.status = "pending" THEN @ \cup {j} ELSE @ \ {j}]
<1>1. Room(v, Counted(v) \ {j}, m)
  BY RoomForBytesTrims
<1>. HIDE DEF m
<1>2. WroteFile(v, x, j, r, flt)
  BY <1>1, WrittenSlots
<1>3. w = IF ~x.ok THEN x ELSE EnforceBounds(y, {j})
  BY DEF PutRecord, m
<1>. HIDE DEF x, w
<1>4. CASE ~x.ok
  BY <1>2, <1>3, <1>4 DEF WroteFile, w, Same
<1>5. CASE x.ok
  <2>0. r.bytes \in 0..2 /\ x.v \in VaultType
    BY <1>2 DEF Record, WroteFile, Trimmed
  <2>1. /\ y \in VaultType /\ y.records[j] = r /\ y.sealed[j] = r.bytes
        /\ y.recovery[j] = NoRecord
        /\ \A i \in Jobs \ {j} : /\ y.records[i] = x.v.records[i] /\ y.sealed[i] = x.v.sealed[i]
                                 /\ y.recovery[i] = x.v.recovery[i]
        /\ y.disk = x.v.disk /\ y.active = x.v.active \ {j}
        /\ y.reconciling = IF r.status = "pending" THEN x.v.reconciling \cup {j}
                           ELSE x.v.reconciling \ {j}
    BY <2>0 DEF VaultType, Slots
  <2>. HIDE DEF y
  <2>2. Trimmed(v, y, Jobs \ {j})
    BY <1>2, <2>1 DEF WroteFile, Trimmed, Same, MemorySame, Evicted
  <2>3. Recorded(y, j, r)
    BY <1>2, <1>5, <2>1 DEF WroteFile, Recorded
  <2>. DEFINE e == EnforceBounds(y, {j})
  <2>4. Room(y, Counted(y) \ {j}, e)
    BY <2>1, EnforceBoundsTrims
  <2>. HIDE DEF e
  <2>5. e.ok \in BOOLEAN /\ e.v \in VaultType /\ Same(y, e.v, j)
        /\ \A i \in Jobs : Same(y, e.v, i) \/ Evicted(y, e.v, i)
    BY <2>4 DEF Room, Trimmed
  <2>6. Recorded(e.v, j, r)
    BY <2>3, <2>5 DEF Recorded, Same, MemorySame
  <2>7. ASSUME NEW i \in Jobs \ {j}
        PROVE  Same(v, e.v, i) \/ Evicted(v, e.v, i)
    <3>1. (Same(v, y, i) \/ Evicted(v, y, i)) /\ (Same(y, e.v, i) \/ Evicted(y, e.v, i))
      BY <2>2, <2>5 DEF Trimmed
    <3>. QED  BY <3>1 DEF Same, MemorySame, Evicted
  <2>8. Trimmed(v, e.v, Jobs \ {j})
    BY <2>5, <2>7 DEF Trimmed
  <2>9. w = e
    BY <1>3, <1>5 DEF e
  <2>. QED  BY <2>5, <2>6, <2>8, <2>9 DEF w
<1>. QED  BY <1>2, <1>4, <1>5 DEF WroteFile

----------------------------------------------------------------------------
(* The invariant of a slot.                                                *)

\* The copy of job i in memory, and whether it is pending.
Mem(v, i) == IF v.records[i] # NoRecord THEN v.records[i] ELSE v.recovery[i]

Pend(v, i) == Mem(v, i) # NoRecord /\ Mem(v, i).status = "pending"

\* A record of job i, in memory or on disk; Q is what has been queued.
Good(i, r, Q) ==
    r # NoRecord =>
        /\ r.status # "pending" /\ r.ev # "none" => r.settled \/ (r.ev = "final" /\ i \in Q)
        /\ r.status # "pending" /\ r.ev = "final" => r.status = r.as
        /\ r.ev = "final" /\ r.info => r.as = "failed"
        /\ r.status = "pending" => r.ev # "none"

\* The copy of a running job.
Live(r) == r.ev # "final" /\ ~r.settled /\ (r.ev # "none" <=> r.status = "pending")

Slot(v, i, Q) ==
    /\ v.records[i] # NoRecord => i \notin v.active /\ v.recovery[i] = NoRecord
    /\ i \in v.reconciling <=> v.records[i] # NoRecord /\ v.records[i].status = "pending"
    /\ v.recovery[i] # NoRecord => i \in v.active /\ Live(v.recovery[i])
    /\ v.sealed[i] > 0 => v.records[i] # NoRecord \/ i \in v.active
    /\ v.records[i] # NoRecord /\ v.records[i].status # "pending" => v.disk[i] = v.records[i]
    /\ Good(i, v.records[i], Q) /\ Good(i, v.disk[i], Q)
    /\ Pend(v, i) => v.disk[i] # NoRecord /\ Supersedes(v.disk[i], Mem(v, i))

Sound(v, Q) == v \in VaultType /\ \A i \in Jobs : Slot(v, i, Q)

\* What was pending in v is on disk in w, or what supersedes it.
Keeps(v, w) ==
    \A i \in Jobs : Pend(v, i) => w.disk[i] # NoRecord /\ Supersedes(w.disk[i], Mem(v, i))

\* Records and copies of running jobs go or stay; no job becomes active.
Goes(v, w, i) ==
    w.records[i] \in {v.records[i], NoRecord} /\ w.recovery[i] \in {v.recovery[i], NoRecord}

Shrinks(v, w) == w.active \subseteq v.active /\ \A i \in Jobs : Goes(v, w, i)

\* As before, but job j may have got the record r, or another copy.
Grows(v, w, j, r) ==
    /\ w.active \subseteq v.active
    /\ \A i \in Jobs : Goes(v, w, i) \/ (i = j /\ w.records[i] = r /\ w.recovery[i] = NoRecord)

SameEvidence(r, d) ==
    r.ev = d.ev /\ r.as = d.as /\ r.att = d.att /\ r.prior = d.prior /\ r.settled = d.settled

\* Or a record of the same evidence; what had ended does not return.
Settles(v, w) ==
    /\ w.active \subseteq v.active
    /\ \A i \in Jobs :
          \/ Goes(v, w, i)
          \/ /\ v.records[i] # NoRecord /\ w.records[i] # NoRecord
             /\ w.recovery[i] = NoRecord
             /\ SameEvidence(w.records[i], v.records[i])
             /\ w.records[i].status = "pending" => v.records[i].status = "pending"

\* Or a record of the ledger's closure, to end as the one before.
Closes(v, w) ==
    /\ w.active \subseteq v.active
    /\ \A i \in Jobs :
          \/ Goes(v, w, i)
          \/ /\ v.records[i] # NoRecord /\ w.records[i] # NoRecord
             /\ w.recovery[i] = NoRecord
             /\ w.records[i].as = v.records[i].as
             /\ w.records[i].settled \/ SameEvidence(w.records[i], v.records[i])

Recopies(v, w, j) ==
    /\ w.active = v.active
    /\ \A i \in Jobs : Goes(v, w, i) \/ (i = j /\ w.records[i] = v.records[i])

\* The ranks of evidence.
LEMMA RankOrder ==
    /\ Rank("none") = 0 /\ Rank("reservation") = 1 /\ Rank("checkpoint") = 2 /\ Rank("final") = 3
    /\ \A ev \in Evidence : Rank(ev) \in 0..3
<1>1. /\ Rank("none") = 0 /\ Rank("reservation") = 1 /\ Rank("checkpoint") = 2
      /\ Rank("final") = 3
  BY DEF Rank
<1>. QED  BY <1>1 DEF Evidence

\* The fields of a record.
LEMMA RecordFields ==
    ASSUME NEW r \in Record
    PROVE  /\ r # NoRecord /\ r.status \in Statuses /\ r.ev \in Evidence /\ r.as \in Terminal
           /\ r.feature \in BOOLEAN /\ r.settled \in BOOLEAN /\ r.err \in Errors
           /\ r.info \in BOOLEAN /\ r.fin \in 0..MaxTime /\ r.bytes \in 1..2
           /\ r.att \in 0..MaxAttempts /\ r.prior \in Evidence
BY JobsAssumption DEF Record

\* A record of the same evidence may stand in its place.
LEMMA SameSupersedes ==
    ASSUME NEW r \in Record, NEW d \in Record, SameEvidence(r, d)
    PROVE  Supersedes(r, d)
<1>1. r.settled \in BOOLEAN /\ Rank(r.ev) \in 0..3 /\ r.ev = d.ev /\ r.prior = d.prior
      /\ r.att = d.att /\ r.settled = d.settled
  BY RecordFields, RankOrder DEF SameEvidence
<1>. QED  BY <1>1 DEF Supersedes

\* So may the record itself.
LEMMA SupersedesItself ==
    ASSUME NEW r \in Record
    PROVE  Supersedes(r, r)
BY SameSupersedes DEF SameEvidence

\* Closes is weaker than Settles, and may be followed by it.
LEMMA SettlesCloses ==
    ASSUME NEW v, NEW w, NEW x
    PROVE  /\ Settles(v, w) => Closes(v, w)
           /\ Closes(v, w) /\ Settles(w, x) => Closes(v, x)
<1>1. Settles(v, w) => Closes(v, w)
  BY DEF Settles, Closes, SameEvidence
<1>2. ASSUME Closes(v, w), Settles(w, x)
      PROVE  Closes(v, x)
  <2>1. ASSUME NEW i \in Jobs, ~Goes(v, x, i)
        PROVE  /\ v.records[i] # NoRecord /\ x.records[i] # NoRecord /\ x.recovery[i] = NoRecord
               /\ x.records[i].as = v.records[i].as
               /\ x.records[i].settled \/ SameEvidence(x.records[i], v.records[i])
    BY <1>2, <2>1 DEF Closes, Settles, Goes, SameEvidence
  <2>. QED  BY <1>2, <2>1 DEF Closes, Settles
<1>. QED  BY <1>1, <1>2

\* A slot that stays or is evicted.
LEMMA SlotTrimmed ==
    ASSUME NEW v, NEW w, NEW Q, NEW i \in Jobs, Slot(v, i, Q), Same(v, w, i) \/ Evicted(v, w, i)
    PROVE  /\ Slot(w, i, Q)
           /\ Pend(v, i) => /\ Pend(w, i) /\ Mem(w, i) = Mem(v, i)
                            /\ w.disk[i] # NoRecord
                            /\ Supersedes(w.disk[i], Mem(v, i))
           /\ Goes(v, w, i) /\ (i \in w.active <=> i \in v.active)
<1>1. CASE Same(v, w, i)
  BY <1>1 DEF Same, MemorySame, Slot, Mem, Pend, Goes
<1>2. CASE Evicted(v, w, i)
  BY <1>2 DEF Evicted, Slot, Mem, Pend, Good, Goes
<1>. QED  BY <1>1, <1>2

\* Trimming keeps a vault sound, and what is pending stays.
LEMMA TrimKeeps ==
    ASSUME NEW v, NEW w, NEW Q, Sound(v, Q), Trimmed(v, w, Jobs)
    PROVE  /\ Sound(w, Q) /\ Keeps(v, w) /\ Shrinks(v, w) /\ w.active = v.active
           /\ \A i \in Jobs : Pend(v, i) => Pend(w, i) /\ Mem(w, i) = Mem(v, i)
<1>1. ASSUME NEW i \in Jobs
      PROVE  Slot(v, i, Q) /\ (Same(v, w, i) \/ Evicted(v, w, i))
  BY DEF Sound, Trimmed
<1>2. v.active \subseteq Jobs /\ w.active \subseteq Jobs /\ w \in VaultType
  BY DEF Sound, Trimmed, VaultType
<1>3. ASSUME NEW i \in Jobs
      PROVE  /\ Slot(w, i, Q)
             /\ Pend(v, i) => /\ Pend(w, i) /\ Mem(w, i) = Mem(v, i)
                              /\ w.disk[i] # NoRecord
                              /\ Supersedes(w.disk[i], Mem(v, i))
             /\ Goes(v, w, i) /\ (i \in w.active <=> i \in v.active)
  BY <1>1, SlotTrimmed
<1>. QED  BY <1>2, <1>3 DEF Sound, Keeps, Shrinks

\* Purging expired records keeps a vault sound, and what is pending stays.
LEMMA PurgeKeeps ==
    ASSUME NEW v, NEW Q, Sound(v, Q)
    PROVE  /\ Sound(Purged(v), Q) /\ Keeps(v, Purged(v)) /\ Shrinks(v, Purged(v))
           /\ Purged(v).active = v.active
           /\ \A i \in Jobs : Pend(v, i) => Pend(Purged(v), i) /\ Mem(Purged(v), i) = Mem(v, i)
<1>1. v \in VaultType /\ \A i \in Jobs : i \in v.reconciling => v.records[i].status = "pending"
  BY DEF Sound, Slot
<1>2. Trimmed(v, Purged(v), Jobs)
  BY <1>1, PurgedTrims
<1>. QED  BY <1>2, TrimKeeps

\* What a record written over job j's slot must satisfy: it is good, it replaces no terminal
\* one, and it supersedes a pending one.
Fit(v, j, r, Q) ==
    /\ r \in Record /\ Good(j, r, Q)
    /\ v.records[j] # NoRecord => v.records[j].status = "pending"
    /\ Pend(v, j) => Supersedes(r, Mem(v, j))

\* put_record keeps a vault sound when the record is fit to follow what is there.
LEMMA PutRecordKeeps ==
    ASSUME NEW v, NEW Q, Sound(v, Q), NEW j \in Jobs, NEW r, Fit(v, j, r, Q), NEW flt \in Faults
    PROVE  LET w == PutRecord(v, j, r, flt) IN
           /\ w.ok \in BOOLEAN /\ Sound(w.v, Q) /\ Keeps(v, w.v) /\ Grows(v, w.v, j, r)
           /\ w.ok => w.v.records[j] = r
           /\ \A i \in Jobs \ {j} : Pend(v, i) => Pend(w.v, i) /\ Mem(w.v, i) = Mem(v, i)
           /\ ~w.ok => w.v.disk[j] \in {v.disk[j], r}
<1>. DEFINE p == PutRecord(v, j, r, flt)
            w == p.v
<1>1. /\ v \in VaultType /\ r \in Record /\ Slot(v, j, Q) /\ Good(j, r, Q)
      /\ v.records[j] # NoRecord => v.records[j].status = "pending"
      /\ Pend(v, j) => Supersedes(r, Mem(v, j))
  BY DEF Sound, Fit
<1>2. /\ Trimmed(v, w, Jobs \ {j}) /\ p.ok \in BOOLEAN
      /\ p.ok => Recorded(w, j, r)
      /\ Recorded(w, j, r) \/ (MemorySame(v, w, j) /\ w.disk[j] \in {v.disk[j], r})
  BY <1>1, PutRecordSlots
<1>. HIDE DEF p, w
<1>3. r # NoRecord /\ r.bytes \in 1..2 /\ r.ev \in Evidence /\ Rank(r.ev) \in 0..3
  BY <1>1, RecordFields, RankOrder
<1>4. ASSUME NEW i \in Jobs \ {j}
      PROVE  /\ Slot(w, i, Q)
             /\ Pend(v, i) => /\ Pend(w, i) /\ Mem(w, i) = Mem(v, i)
                              /\ w.disk[i] # NoRecord
                              /\ Supersedes(w.disk[i], Mem(v, i))
             /\ Goes(v, w, i) /\ (i \in w.active <=> i \in v.active)
  <2>1. Slot(v, i, Q) /\ (Same(v, w, i) \/ Evicted(v, w, i))
    BY <1>2 DEF Sound, Trimmed
  <2>. QED  BY <2>1, SlotTrimmed
<1>5. CASE Recorded(w, j, r)
  <2>1. Slot(w, j, Q)
    BY <1>1, <1>3, <1>5, SupersedesItself DEF Recorded, Slot, Pend, Mem
  <2>2. Pend(v, j) => w.disk[j] # NoRecord /\ Supersedes(w.disk[j], Mem(v, j))
    BY <1>1, <1>3, <1>5 DEF Recorded
  <2>3. w.records[j] = r /\ w.recovery[j] = NoRecord /\ j \notin w.active /\ w.disk[j] = r
    BY <1>5 DEF Recorded
  <2>. QED  BY <1>2, <1>4, <2>1, <2>2, <2>3 DEF Sound, Keeps, Grows, Trimmed, VaultType, p, w
<1>6. CASE MemorySame(v, w, j) /\ w.disk[j] \in {v.disk[j], r} /\ ~Recorded(w, j, r)
  <2>1. ~p.ok
    BY <1>2, <1>6
  <2>2. Mem(w, j) = Mem(v, j) /\ (Pend(w, j) <=> Pend(v, j))
    BY <1>6 DEF MemorySame, Mem, Pend
  <2>3. w.disk[j] \in {v.disk[j], r} /\ Good(j, w.disk[j], Q)
    BY <1>1, <1>6 DEF Slot
  <2>4. Pend(v, j) => w.disk[j] # NoRecord /\ Supersedes(w.disk[j], Mem(v, j))
    BY <1>1, <1>3, <2>3 DEF Slot
  <2>5. Slot(w, j, Q)
    BY <1>1, <1>6, <2>2, <2>3, <2>4 DEF Slot, MemorySame
  <2>6. Goes(v, w, j) /\ (j \in w.active <=> j \in v.active)
    BY <1>6 DEF MemorySame, Goes
  <2>. QED  BY <1>2, <1>4, <2>1, <2>3, <2>4, <2>5, <2>6
            DEF Sound, Keeps, Grows, Trimmed, VaultType, p, w
<1>. QED  BY <1>2, <1>5, <1>6

\* So does put_active.
LEMMA PutActiveKeeps ==
    ASSUME NEW v, NEW Q, Sound(v, Q), NEW j \in Jobs, j \in v.active,
           NEW r, Fit(v, j, r, Q), Live(r),
           NEW flt \in Faults
    PROVE  LET w == PutActive(v, j, r, flt) IN
           /\ w.ok \in BOOLEAN /\ Sound(w.v, Q) /\ Keeps(v, w.v) /\ Recopies(v, w.v, j)
           /\ w.ok => /\ Protected(v, w.v, j, r)
                      /\ v.sealed[j] > 0 <=> v.disk[j] # NoRecord
<1>. DEFINE p == PutActive(v, j, r, flt)
            w == p.v
<1>1. /\ v \in VaultType /\ r \in Record /\ Slot(v, j, Q) /\ Good(j, r, Q)
      /\ Pend(v, j) => Supersedes(r, Mem(v, j))
  BY DEF Sound, Fit
<1>2. /\ Trimmed(v, w, Jobs \ {j}) /\ p.ok \in BOOLEAN
      /\ p.ok => /\ Protected(v, w, j, r)
                 /\ v.sealed[j] > 0 <=> v.disk[j] # NoRecord
      /\ ~p.ok => MemorySame(v, w, j) /\ w.disk[j] \in {v.disk[j], r}
  BY <1>1, PutActiveSlots
<1>. HIDE DEF p, w
<1>3. r # NoRecord /\ r.bytes \in 1..2 /\ r.ev \in Evidence /\ Rank(r.ev) \in 0..3
  BY <1>1, RecordFields, RankOrder
<1>4. ASSUME NEW i \in Jobs \ {j}
      PROVE  /\ Slot(w, i, Q)
             /\ Pend(v, i) => /\ w.disk[i] # NoRecord
                              /\ Supersedes(w.disk[i], Mem(v, i))
             /\ Goes(v, w, i) /\ (i \in w.active <=> i \in v.active)
  <2>1. Slot(v, i, Q) /\ (Same(v, w, i) \/ Evicted(v, w, i))
    BY <1>2 DEF Sound, Trimmed
  <2>. QED  BY <2>1, SlotTrimmed
<1>5. v.records[j] = NoRecord
  BY <1>1 DEF Slot
<1>6. ASSUME p.ok
      PROVE  /\ Slot(w, j, Q) /\ w.records[j] = v.records[j] /\ (j \in w.active <=> j \in v.active)
             /\ Pend(v, j) => w.disk[j] # NoRecord /\ Supersedes(w.disk[j], Mem(v, j))
  <2>1. Slot(w, j, Q)
    BY <1>1, <1>2, <1>3, <1>5, <1>6, SupersedesItself DEF Protected, Slot, Pend, Mem
  <2>2. Pend(v, j) => w.disk[j] # NoRecord /\ Supersedes(w.disk[j], Mem(v, j))
    BY <1>1, <1>2, <1>3, <1>6 DEF Protected
  <2>3. w.records[j] = v.records[j] /\ (j \in w.active <=> j \in v.active)
    BY <1>2, <1>6 DEF Protected
  <2>. QED  BY <2>1, <2>2, <2>3
<1>7. ASSUME ~p.ok
      PROVE  /\ Slot(w, j, Q) /\ w.records[j] = v.records[j] /\ (j \in w.active <=> j \in v.active)
             /\ Pend(v, j) => w.disk[j] # NoRecord /\ Supersedes(w.disk[j], Mem(v, j))
  <2>2. Mem(w, j) = Mem(v, j) /\ (Pend(w, j) <=> Pend(v, j))
    BY <1>2, <1>7 DEF MemorySame, Mem, Pend
  <2>3. w.disk[j] \in {v.disk[j], r} /\ Good(j, w.disk[j], Q)
    BY <1>1, <1>2, <1>7 DEF Slot
  <2>4. Pend(v, j) => w.disk[j] # NoRecord /\ Supersedes(w.disk[j], Mem(v, j))
    BY <1>1, <1>3, <2>3 DEF Slot
  <2>5. Slot(w, j, Q)
    BY <1>1, <1>2, <1>5, <1>7, <2>2, <2>3, <2>4 DEF Slot, MemorySame
  <2>6. w.records[j] = v.records[j] /\ (j \in w.active <=> j \in v.active)
    BY <1>2, <1>7 DEF MemorySame
  <2>. QED  BY <2>4, <2>5, <2>6
<1>8. w \in VaultType /\ w.active \subseteq Jobs /\ v.active \subseteq Jobs
  BY <1>1, <1>2 DEF Trimmed, VaultType
<1>9. w.active = v.active
  <2>1. ASSUME NEW i \in Jobs
        PROVE  i \in w.active <=> i \in v.active
    BY <1>2, <1>4, <1>6, <1>7
  <2>. QED  BY <1>8, <2>1
<1>10. Sound(w, Q)
  BY <1>4, <1>6, <1>7, <1>8 DEF Sound
<1>11. Keeps(v, w)
  BY <1>4, <1>6, <1>7 DEF Keeps
<1>12. Recopies(v, w, j)
  BY <1>4, <1>6, <1>7, <1>9 DEF Recopies
<1>. QED  BY <1>2, <1>9, <1>10, <1>11, <1>12 DEF p, w

----------------------------------------------------------------------------
(* The operations of the vault.                                            *)

\* The types of a slot of a sound vault.
LEMMA SoundTypes ==
    ASSUME NEW v, NEW Q, Sound(v, Q), NEW i \in Jobs
    PROVE  /\ v.records[i] \in Record \cup {NoRecord} /\ v.recovery[i] \in Record \cup {NoRecord}
           /\ v.disk[i] \in Record \cup {NoRecord} /\ v.active \subseteq Jobs
           /\ Slot(v, i, Q)
BY DEF Sound, VaultType, Slots

\* A vault left alone keeps its evidence.
LEMMA KeepsItself ==
    ASSUME NEW v, NEW Q, Sound(v, Q)
    PROVE  Keeps(v, v) /\ Shrinks(v, v) /\ \A j : Recopies(v, v, j)
BY DEF Sound, Slot, Keeps, Shrinks, Recopies, Goes

\* The fallback is a record.
LEMMA FallbackRecord ==
    ASSUME now \in 0..MaxTime
    PROVE  /\ Fallback \in Record /\ Fallback.status = "failed" /\ Fallback.ev = "none"
           /\ Fallback.bytes = 1 /\ Live(Fallback)
BY JobsAssumption DEF Live, Fallback, Record, Statuses, Terminal, Evidence, Errors

\* What update_active_receipt stores for the receipt of r.
Updated(v, j, r) ==
    [v.recovery[j] EXCEPT !.status = "pending", !.ev = r.ev, !.as = r.as,
                          !.feature = r.feature, !.settled = r.settled, !.att = r.att,
                          !.prior = r.prior, !.err = "stream", !.info = FALSE, !.fin = now]

\* A receipt for a running job.
StreamReceipt(r) == r \in Record /\ r.ev \in {"reservation", "checkpoint"} /\ r.settled = FALSE

\* It is a record with that receipt.
LEMMA UpdatedRecord ==
    ASSUME NEW v, NEW j, v.recovery[j] \in Record, NEW r \in Record, now \in 0..MaxTime
    PROVE  LET x == Updated(v, j, r) IN
           /\ x \in Record /\ x.status = "pending" /\ SameEvidence(x, r) /\ x.info = FALSE
           /\ x.bytes = v.recovery[j].bytes
<1>. DEFINE x == Updated(v, j, r)
<1>1. /\ r.ev \in Evidence /\ r.as \in Terminal /\ r.feature \in BOOLEAN /\ r.settled \in BOOLEAN
      /\ r.att \in 0..MaxAttempts /\ r.prior \in Evidence
  BY RecordFields
<1>2. x \in Record
  BY <1>1 DEF Updated, Record, Statuses, Errors
<1>3. /\ x.status = "pending" /\ x.ev = r.ev /\ x.as = r.as /\ x.att = r.att /\ x.prior = r.prior
      /\ x.settled = r.settled /\ x.info = FALSE /\ x.bytes = v.recovery[j].bytes
  BY DEF Updated, Record
<1>. QED  BY <1>2, <1>3 DEF SameEvidence

\* update_active_receipt keeps a vault sound when the new receipt supersedes the old.
LEMMA UpdateActiveKeeps ==
    ASSUME NEW Q, NEW v, Sound(v, Q), NEW j \in Jobs, now \in 0..MaxTime, NEW flt \in Faults,
           NEW r, StreamReceipt(r), Pend(v, j) => Supersedes(r, v.recovery[j])
    PROVE  LET w == UpdateActive(v, j, r, flt) IN
           /\ w.ok \in BOOLEAN /\ Sound(w.v, Q) /\ Keeps(v, w.v) /\ Recopies(v, w.v, j)
<1>. DEFINE u == UpdateActive(v, j, r, flt)
            x == Updated(v, j, r)
<1>1. CASE j \notin v.active \/ ~Has(v.recovery, j)
  <2>1. u = [v |-> v, ok |-> TRUE]
    BY <1>1 DEF UpdateActive, Success
  <2>2. u.v = v /\ u.ok \in BOOLEAN
    BY <2>1
  <2>. QED  BY <2>2, KeepsItself
<1>2. CASE j \in v.active /\ Has(v.recovery, j)
  <2>1. u = PutActive(v, j, x, flt)
    BY <1>2 DEF UpdateActive, Updated
  <2>2. v.recovery[j] \in Record /\ v.records[j] = NoRecord /\ Slot(v, j, Q)
    BY <1>2, SoundTypes DEF Has, Slot
  <2>3. x \in Record /\ x.status = "pending" /\ SameEvidence(x, r) /\ x.info = FALSE
    BY <2>2, UpdatedRecord DEF StreamReceipt
  <2>. HIDE DEF x
  <2>4. Good(j, x, Q) /\ Live(x)
    BY <2>3 DEF Good, Live, SameEvidence, StreamReceipt
  <2>5. Pend(v, j) => Supersedes(x, Mem(v, j))
    <3>1. Mem(v, j) = v.recovery[j]
      BY <2>2 DEF Mem
    <3>2. x.ev = r.ev /\ x.att = r.att /\ x.prior = r.prior /\ x.settled = r.settled
      BY <2>3 DEF SameEvidence
    <3>. QED  BY <3>1, <3>2 DEF Supersedes
  <2>6. Fit(v, j, x, Q)
    BY <2>2, <2>3, <2>4, <2>5 DEF Fit
  <2>. HIDE DEF u
  <2>8. /\ u.ok \in BOOLEAN /\ Sound(u.v, Q) /\ Keeps(v, u.v) /\ Recopies(v, u.v, j)
    BY <1>2, <2>1, <2>4, <2>6, PutActiveKeeps
  <2>. QED  BY <2>8 DEF u
<1>. QED  BY <1>1, <1>2

\* complete keeps a vault sound: the copy it replaces has no better evidence.
LEMMA CompleteKeeps ==
    ASSUME NEW Q, NEW v, Sound(v, Q), NEW j \in Jobs, NEW flt \in Faults,
           NEW r \in Record, Good(j, r, Q),
           \/ r.status \in {"failed", "cancelled"}
           \/ r.ev = "final" /\ (v.recovery[j] # NoRecord => r.att = v.recovery[j].att)
           \/ v.recovery[j] # NoRecord => v.recovery[j].ev = "none"
    PROVE  LET w == Complete(v, j, r, flt) IN
           /\ w.ok \in BOOLEAN /\ Sound(w.v, Q) /\ Keeps(v, w.v)
           /\ \E x \in Record : /\ Grows(v, w.v, j, x) /\ (w.ok => w.v.records[j] = x)
                                /\ r.status = "pending" => x = r
           /\ j \notin v.active => w.v = v
<1>. DEFINE c == Complete(v, j, r, flt)
            old == v.recovery[j]
            y == [r EXCEPT !.status = old.status, !.ev = old.ev, !.as = old.as,
                           !.feature = old.feature, !.settled = old.settled,
                           !.att = old.att, !.prior = old.prior]
            outranked == r.status \in {"failed", "cancelled"} /\ old # NoRecord /\ old.ev # "none"
            x == IF outranked THEN y ELSE r
<1>1. CASE Has(v.records, j) \/ j \notin v.active
  <2>1. c = [v |-> v, ok |-> FALSE]
    BY <1>1 DEF Complete, Failure
  <2>2. c.v = v /\ c.ok \in BOOLEAN /\ ~c.ok
    BY <2>1
  <2>3. Grows(v, v, j, r)
    BY DEF Grows, Goes
  <2>. QED  BY <2>2, <2>3, KeepsItself
<1>2. CASE ~Has(v.records, j) /\ j \in v.active
  <2>1. c = PutRecord(v, j, x, flt)
    BY <1>2 DEF Complete
  <2>2. old \in Record \cup {NoRecord} /\ v.records[j] = NoRecord /\ Slot(v, j, Q)
    BY <1>2, SoundTypes DEF Has
  <2>3. ASSUME outranked
        PROVE  Fit(v, j, x, Q) /\ x \in Record /\ (r.status = "pending" => x = r)
    <3>0. old \in Record /\ old.status = "pending" /\ old.ev # "final" /\ old.ev # "none"
      BY <2>2, <2>3 DEF Slot, Live
    <3>1. y \in Record /\ y.status = old.status /\ SameEvidence(y, old)
      <4>1. y \in Record
        BY <3>0 DEF Record
      <4>2. /\ y.status = old.status /\ y.ev = old.ev /\ y.as = old.as /\ y.settled = old.settled
            /\ y.att = old.att /\ y.prior = old.prior
        BY DEF Record
      <4>. QED  BY <4>1, <4>2 DEF SameEvidence
    <3>2. x = y /\ r.status # "pending"
      BY <2>3
    <3>. HIDE DEF y, x
    <3>3. Good(j, x, Q)
      BY <3>0, <3>1, <3>2 DEF Good, SameEvidence
    <3>4. Pend(v, j) => Supersedes(x, Mem(v, j))
      <4>1. Supersedes(x, old)
        BY <3>0, <3>1, <3>2, SameSupersedes
      <4>. QED  BY <2>2, <4>1 DEF Mem
    <3>. QED  BY <2>2, <3>1, <3>2, <3>3, <3>4 DEF Fit
  <2>4. ASSUME ~outranked
        PROVE  Fit(v, j, x, Q) /\ x \in Record /\ (r.status = "pending" => x = r)
    <3>1. x = r
      BY <2>4
    <3>. HIDE DEF x
    <3>2. Pend(v, j) => Supersedes(x, Mem(v, j))
      <4>1. ASSUME Pend(v, j)
            PROVE  Supersedes(x, old)
        <5>1. /\ old \in Record /\ Live(old) /\ old.status = "pending" /\ old.ev \in Evidence
          BY <2>2, <4>1, RecordFields DEF Pend, Mem, Slot
        <5>2. ~old.settled /\ old.ev # "none" /\ old.ev # "final"
          BY <5>1 DEF Live
        <5>3. r.ev = "final" /\ r.att = old.att
          BY <2>4, <5>1, <5>2, RecordFields
        <5>. QED  BY <3>1, <5>1, <5>2, <5>3, RankOrder DEF Supersedes, Evidence
      <4>. QED  BY <2>2, <4>1 DEF Mem
    <3>. QED  BY <2>2, <3>1, <3>2 DEF Fit
  <2>5. Fit(v, j, x, Q) /\ x \in Record /\ (r.status = "pending" => x = r)
    BY <2>3, <2>4
  <2>. HIDE DEF x, c
  <2>6. /\ c.ok \in BOOLEAN /\ Sound(c.v, Q) /\ Keeps(v, c.v) /\ Grows(v, c.v, j, x)
        /\ c.ok => c.v.records[j] = x
    BY <2>1, <2>5, PutRecordKeeps
  <2>. QED  BY <1>2, <2>5, <2>6 DEF c
<1>. QED  BY <1>1, <1>2

\* A pending record ends with its own evidence.
LEMMA FinishKeeps ==
    ASSUME NEW Q, NEW v, Sound(v, Q), NEW j \in Jobs, now \in 0..MaxTime, NEW flt \in Faults,
           NEW status \in Terminal, NEW err \in Errors,
           Has(v.records, j) /\ v.records[j].status = "pending" =>
               /\ v.records[j].settled \/ (v.records[j].ev = "final" /\ j \in Q)
               /\ v.records[j].ev = "final" => v.records[j].as = status
    PROVE  LET w == Finish(v, j, status, err, flt) IN
           /\ w.ok \in BOOLEAN /\ Sound(w.v, Q) /\ Keeps(v, w.v)
           /\ Settles(v, w.v)
<1>. DEFINE f == Finish(v, j, status, err, flt)
            r == v.records[j]
            x == [r EXCEPT !.status = status, !.err = err, !.fin = now]
<1>0. status # "pending" /\ v \in VaultType
  BY DEF Terminal, Sound
<1>1. ASSUME f.v = v, f.ok \in BOOLEAN
      PROVE  f.ok \in BOOLEAN /\ Sound(f.v, Q) /\ Keeps(v, f.v) /\ Settles(v, f.v)
  <2>. HIDE DEF f
  <2>. QED  BY <1>1, KeepsItself DEF Settles, Goes
<1>2. CASE ~Has(v.records, j)
  <2>1. f = [v |-> v, ok |-> FALSE]
    BY <1>2 DEF Finish, Failure
  <2>2. f.v = v /\ f.ok \in BOOLEAN
    BY <2>1
  <2>. QED  BY <1>1, <2>2
<1>3. CASE Has(v.records, j) /\ r.status = status /\ r.err = err
  <2>1. f = [v |-> [v EXCEPT !.reconciling = @ \ {j}], ok |-> TRUE]
    BY <1>3 DEF Finish, Success
  <2>2. j \notin v.reconciling
    BY <1>0, <1>3, SoundTypes DEF Slot
  <2>3. v.reconciling \ {j} = v.reconciling
    BY <2>2
  <2>4. [v EXCEPT !.reconciling = @ \ {j}] = v
    BY <1>0, <2>3 DEF VaultType
  <2>5. f.v = v /\ f.ok \in BOOLEAN
    BY <2>1, <2>4
  <2>. QED  BY <1>1, <2>5
<1>4. CASE Has(v.records, j) /\ ~(r.status = status /\ r.err = err) /\ r.status # "pending"
  <2>1. f = [v |-> v, ok |-> FALSE]
    BY <1>4 DEF Finish, Failure
  <2>2. f.v = v /\ f.ok \in BOOLEAN
    BY <2>1
  <2>. QED  BY <1>1, <2>2
<1>5. CASE Has(v.records, j) /\ r.status = "pending"
  <2>1. f = PutRecord(v, j, x, flt)
    BY <1>0, <1>5 DEF Finish
  <2>2. r \in Record /\ Slot(v, j, Q)
    BY <1>5, SoundTypes DEF Has
  <2>3. /\ x \in Record /\ x.status = status /\ SameEvidence(x, r) /\ x.info = r.info
    <3>1. x \in Record
      BY <2>2 DEF Record, Statuses
    <3>2. /\ x.status = status /\ x.ev = r.ev /\ x.as = r.as /\ x.settled = r.settled
          /\ x.att = r.att /\ x.prior = r.prior /\ x.info = r.info
      BY <2>2 DEF Record
    <3>. QED  BY <3>1, <3>2 DEF SameEvidence
  <2>. HIDE DEF x
  <2>4. Good(j, x, Q)
    BY <1>0, <1>5, <2>2, <2>3 DEF Good, Slot, Has, SameEvidence
  <2>5. Supersedes(x, r)
    BY <2>2, <2>3, SameSupersedes
  <2>6. Fit(v, j, x, Q)
    BY <1>5, <2>3, <2>4, <2>5 DEF Fit, Mem, Has
  <2>. HIDE DEF f
  <2>7. f.ok \in BOOLEAN /\ Sound(f.v, Q) /\ Keeps(v, f.v) /\ Grows(v, f.v, j, x)
    BY <2>1, <2>6, PutRecordKeeps
  <2>8. Settles(v, f.v)
    BY <1>0, <1>5, <2>3, <2>7, RecordFields DEF Settles, Grows, Has
  <2>. QED  BY <2>7, <2>8 DEF f
<1>. QED  BY <1>2, <1>3, <1>4, <1>5

\* What may replace the receipt of a pending record d: the same evidence, or the closure of
\* its reservation.
Renews(r, d) ==
    /\ r.as = d.as /\ r.att = d.att
    /\ \/ SameEvidence(r, d)
       \/ r.settled /\ r.ev # "none" /\ (r.ev = "final" => d.ev = "final")

\* What update_reconciliation_receipt stores for the receipt of r.
Rewritten(d, r) ==
    [d EXCEPT !.ev = r.ev, !.as = r.as, !.feature = r.feature, !.settled = r.settled,
              !.att = r.att, !.prior = r.prior, !.fin = now]

\* It is a record with that receipt.
LEMMA RewrittenRecord ==
    ASSUME NEW d \in Record, NEW r \in Record, now \in 0..MaxTime
    PROVE  LET x == Rewritten(d, r) IN
           /\ x \in Record /\ x.status = d.status /\ SameEvidence(x, r) /\ x.info = d.info
           /\ x.bytes = d.bytes
<1>. DEFINE x == Rewritten(d, r)
<1>1. /\ r.ev \in Evidence /\ r.as \in Terminal /\ r.feature \in BOOLEAN /\ r.settled \in BOOLEAN
      /\ r.att \in 0..MaxAttempts /\ r.prior \in Evidence
  BY RecordFields
<1>2. x \in Record
  BY <1>1 DEF Rewritten, Record
<1>3. /\ x.status = d.status /\ x.ev = r.ev /\ x.as = r.as /\ x.att = r.att /\ x.prior = r.prior
      /\ x.settled = r.settled /\ x.info = d.info /\ x.bytes = d.bytes
  BY DEF Rewritten, Record
<1>. QED  BY <1>2, <1>3 DEF SameEvidence

\* The receipt of a pending record is replaced by one with the same evidence, or by the
\* ledger's closure.
LEMMA UpdateReceiptKeeps ==
    ASSUME NEW Q, NEW v, Sound(v, Q), NEW j \in Jobs, now \in 0..MaxTime, NEW flt \in Faults,
           NEW r \in Record,
           Has(v.records, j) /\ v.records[j].status = "pending" => Renews(r, v.records[j])
    PROVE  LET w == UpdateReceipt(v, j, r, flt) IN
           /\ w.ok \in BOOLEAN /\ Sound(w.v, Q) /\ Keeps(v, w.v)
           /\ Closes(v, w.v)
           /\ (Has(v.records, j) /\ v.records[j].status = "pending"
                  => SameEvidence(r, v.records[j])) => Settles(v, w.v)
           /\ w.ok => /\ Has(w.v.records, j) /\ w.v.records[j].status = "pending"
                      /\ SameEvidence(w.v.records[j], r)
                      /\ Pend(v, j) /\ Mem(v, j).att = r.att
                      /\ \A i \in Jobs : Pend(v, i) => Pend(w.v, i)
                      /\ \A i \in Jobs \ {j} : Pend(v, i) => Mem(w.v, i) = Mem(v, i)
<1>. DEFINE u == UpdateReceipt(v, j, r, flt)
            o == v.records[j]
            x == Rewritten(o, r)
<1>1. CASE ~(Has(v.records, j) /\ o.status = "pending")
  <2>1. u = [v |-> v, ok |-> FALSE]
    BY <1>1 DEF UpdateReceipt, Failure
  <2>2. u.v = v /\ ~u.ok /\ u.ok \in BOOLEAN
    BY <2>1
  <2>. QED  BY <2>2, KeepsItself DEF Settles, Closes, Goes
<1>2. CASE Has(v.records, j) /\ o.status = "pending" /\ Receipt(o) = Receipt(r)
  <2>1. u = [v |-> v, ok |-> TRUE]
    BY <1>2 DEF UpdateReceipt, Success
  <2>2. u.v = v /\ u.ok \in BOOLEAN
    BY <2>1
  <2>3. SameEvidence(o, r)
    BY <1>2 DEF Receipt, SameEvidence
  <2>. HIDE DEF u
  <2>4. /\ u.ok \in BOOLEAN /\ Sound(u.v, Q) /\ Keeps(v, u.v) /\ Settles(v, u.v)
        /\ Closes(v, u.v)
        /\ Has(u.v.records, j) /\ u.v.records[j].status = "pending"
        /\ SameEvidence(u.v.records[j], r)
        /\ \A i \in Jobs : Pend(v, i) => Pend(u.v, i) /\ Mem(u.v, i) = Mem(v, i)
    BY <1>2, <2>2, <2>3, KeepsItself DEF Settles, Closes, Goes
  <2>5. Pend(v, j) /\ Mem(v, j).att = r.att
    BY <1>2, <2>3 DEF Pend, Mem, Has, SameEvidence
  <2>. QED  BY <2>4, <2>5 DEF u
<1>3. CASE Has(v.records, j) /\ o.status = "pending" /\ Receipt(o) # Receipt(r)
  <2>1. u = PutRecord(v, j, x, flt)
    BY <1>3 DEF UpdateReceipt, Rewritten
  <2>2. o \in Record /\ Slot(v, j, Q) /\ o # NoRecord /\ Renews(r, o)
    BY <1>3, SoundTypes DEF Has
  <2>3. /\ x \in Record /\ x.status = "pending" /\ SameEvidence(x, r) /\ x.info = o.info
    BY <1>3, <2>2, RewrittenRecord
  <2>. HIDE DEF x
  <2>4. Good(j, x, Q)
    BY <1>3, <2>2, <2>3 DEF Good, Slot, Renews, SameEvidence
  <2>5. Supersedes(x, o)
    <3>1. CASE SameEvidence(r, o)
      <4>1. SameEvidence(x, o)
        BY <2>3, <3>1 DEF SameEvidence
      <4>. QED  BY <2>2, <2>3, <4>1, SameSupersedes
    <3>2. CASE r.settled
      BY <2>2, <2>3, <3>2 DEF Renews, SameEvidence, Supersedes
    <3>. QED  BY <2>2, <3>1, <3>2 DEF Renews
  <2>6. Fit(v, j, x, Q)
    BY <1>3, <2>2, <2>3, <2>4, <2>5 DEF Fit, Mem
  <2>. HIDE DEF u
  <2>7. /\ u.ok \in BOOLEAN /\ Sound(u.v, Q) /\ Keeps(v, u.v) /\ Grows(v, u.v, j, x)
        /\ u.ok => u.v.records[j] = x
        /\ \A i \in Jobs \ {j} : Pend(v, i) => Pend(u.v, i) /\ Mem(u.v, i) = Mem(v, i)
    BY <2>1, <2>6, PutRecordKeeps
  <2>8. x # NoRecord
    BY <2>3, RecordFields
  <2>9. ASSUME u.ok
        PROVE  /\ Has(u.v.records, j) /\ u.v.records[j].status = "pending"
               /\ SameEvidence(u.v.records[j], r) /\ Pend(u.v, j)
    BY <2>3, <2>7, <2>8, <2>9 DEF Has, Pend, Mem
  <2>10. Pend(v, j) /\ Mem(v, j).att = r.att
    BY <1>3, <2>2 DEF Pend, Mem, Renews
  <2>11. Closes(v, u.v)
    <3>1. x.as = o.as /\ (x.settled \/ SameEvidence(x, o))
      BY <2>2, <2>3 DEF Renews, SameEvidence
    <3>. QED  BY <2>2, <2>7, <2>8, <3>1 DEF Closes, Grows
  <2>12. ASSUME SameEvidence(r, o)
         PROVE  Settles(v, u.v)
    <3>1. SameEvidence(x, o)
      BY <2>3, <2>12 DEF SameEvidence
    <3>. QED  BY <1>3, <2>2, <2>3, <2>7, <2>8, <3>1 DEF Settles, Grows
  <2>. QED  BY <1>3, <2>7, <2>9, <2>10, <2>11, <2>12 DEF u
<1>. QED  BY <1>1, <1>2, <1>3

\* A job that has no record and is not active starts with its fallback; its file was gone.
LEMMA BeginJobKeeps ==
    ASSUME NEW Q, NEW v, Sound(v, Q), NEW j \in Jobs, now \in 0..MaxTime, NEW flt \in Faults,
           v.records[j] = NoRecord, j \notin v.active
    PROVE  LET w == BeginJob(v, j, flt) IN
           /\ w.ok \in BOOLEAN /\ Sound(w.v, Q) /\ Keeps(v, w.v)
           /\ w.v.active \subseteq v.active \cup {j} /\ w.v.records[j] = NoRecord
           /\ \A i \in Jobs \ {j} : Goes(v, w.v, i)
           /\ w.ok => /\ v.disk[j] = NoRecord
                      /\ w.v.disk[j] = Fallback /\ w.v.recovery[j] = Fallback
<1>. DEFINE b == BeginJob(v, j, flt)
            m == RoomForJob(v)
            y == [m.v EXCEPT !.active = @ \cup {j}]
            p == PutActive(y, j, Fallback, flt)
<1>1. v \in VaultType /\ Slot(v, j, Q) /\ v.recovery[j] = NoRecord
  BY SoundTypes DEF Sound, Slot
<1>2. m.ok \in BOOLEAN /\ Trimmed(v, m.v, Jobs)
  BY <1>1, RoomForJobTrims DEF Room
<1>3. b = IF ~m.ok THEN m ELSE p
  BY DEF BeginJob
<1>. HIDE DEF m
<1>4. /\ Sound(m.v, Q) /\ Keeps(v, m.v) /\ Shrinks(v, m.v) /\ m.v.active = v.active
      /\ \A i \in Jobs : Pend(v, i) => Pend(m.v, i) /\ Mem(m.v, i) = Mem(v, i)
  BY <1>2, TrimKeeps
<1>5. /\ m.v.records[j] = NoRecord /\ m.v.recovery[j] = NoRecord
      /\ m.v.disk[j] = v.disk[j] /\ m.v.sealed[j] = v.sealed[j]
  BY <1>1, <1>2 DEF Trimmed, Same, MemorySame, Evicted
<1>6. CASE ~m.ok
  <2>1. b = m
    BY <1>3, <1>6
  <2>. HIDE DEF b
  <2>. QED  BY <1>2, <1>4, <1>5, <1>6, <2>1 DEF Shrinks, b
<1>7. CASE m.ok
  <2>1. b = p
    BY <1>3, <1>7
  <2>2. m.v \in VaultType
    BY <1>4 DEF Sound
  <2>3. /\ y \in VaultType /\ y.active = v.active \cup {j} /\ y.records = m.v.records
        /\ y.recovery = m.v.recovery /\ y.disk = m.v.disk /\ y.sealed = m.v.sealed
        /\ y.reconciling = m.v.reconciling
    BY <1>4, <2>2 DEF VaultType
  <2>. HIDE DEF y, p
  <2>4. ASSUME NEW i \in Jobs
        PROVE  Mem(y, i) = Mem(m.v, i) /\ (Pend(y, i) <=> Pend(m.v, i))
    BY <2>3 DEF Mem, Pend
  <2>5. Sound(y, Q)
    <3>1. ASSUME NEW i \in Jobs
          PROVE  Slot(y, i, Q)
      <4>1. Slot(m.v, i, Q) /\ (i \in y.active <=> i = j \/ i \in m.v.active)
        BY <1>4, <2>3 DEF Sound
      <4>. QED  BY <1>5, <2>3, <2>4, <4>1 DEF Slot
    <3>. QED  BY <2>3, <3>1 DEF Sound
  <2>6. Fit(y, j, Fallback, Q) /\ Fallback.ev = "none"
    <3>1. ~Pend(y, j) /\ y.records[j] = NoRecord
      BY <1>5, <2>3 DEF Pend, Mem
    <3>. HIDE DEF Fallback
    <3>. QED  BY <3>1, FallbackRecord DEF Fit, Good
  <2>7. j \in y.active /\ Live(Fallback)
    BY <2>3, FallbackRecord
  <2>8. /\ p.ok \in BOOLEAN /\ Sound(p.v, Q) /\ Keeps(y, p.v) /\ Recopies(y, p.v, j)
        /\ p.ok => /\ Protected(y, p.v, j, Fallback)
                   /\ y.sealed[j] > 0 <=> y.disk[j] # NoRecord
    BY <2>5, <2>6, <2>7, PutActiveKeeps DEF p
  <2>9. Keeps(v, p.v)
    BY <1>4, <2>4, <2>8 DEF Keeps
  <2>10. p.v.active \subseteq v.active \cup {j} /\ p.v.records[j] = NoRecord
    BY <1>5, <2>3, <2>8 DEF Recopies, Goes
  <2>11. ASSUME NEW i \in Jobs \ {j}
         PROVE  Goes(v, p.v, i)
    BY <1>4, <2>3, <2>8 DEF Recopies, Goes, Shrinks
  <2>12. ASSUME p.ok
         PROVE  v.disk[j] = NoRecord /\ p.v.disk[j] = Fallback /\ p.v.recovery[j] = Fallback
    <3>1. ~(v.sealed[j] > 0)
      BY <1>1 DEF Slot
    <3>. QED  BY <1>5, <2>3, <2>8, <2>12, <3>1 DEF Protected
  <2>. HIDE DEF b
  <2>13. /\ b.ok \in BOOLEAN /\ Sound(b.v, Q) /\ Keeps(v, b.v)
         /\ b.v.active \subseteq v.active \cup {j} /\ b.v.records[j] = NoRecord
         /\ \A i \in Jobs \ {j} : Goes(v, b.v, i)
         /\ b.ok => /\ v.disk[j] = NoRecord
                    /\ b.v.disk[j] = Fallback /\ b.v.recovery[j] = Fallback
    BY <2>1, <2>8, <2>9, <2>10, <2>11, <2>12
  <2>. QED  BY <2>13 DEF b
<1>. QED  BY <1>2, <1>6, <1>7

\* What load reads from the directory, before it enforces the bounds; the repair of older
\* checkpoints finds nothing to do.
Reads(v, read, Q) ==
    /\ Sound(read, Q) /\ Load(v) = EnforceBounds(Purged(read), {})
    /\ \A i \in Jobs : /\ read.disk[i] = v.disk[i] /\ read.records[i] = v.disk[i]
                       /\ read.recovery[i] = NoRecord
                       /\ read.sealed[i] = IF v.disk[i] = NoRecord THEN 0 ELSE v.disk[i].bytes

\* What load reads from the files of a sound vault.
LEMMA LoadReads ==
    ASSUME NEW Q, NEW v, Sound(v, Q)
    PROVE  \E read : Reads(v, read, Q)
<1>. DEFINE old(j) == /\ v.disk[j] # NoRecord /\ v.disk[j].status # "pending"
                      /\ v.disk[j].ev = "checkpoint" /\ ~v.disk[j].settled
            fix(j) == IF old(j) THEN [v.disk[j] EXCEPT !.status = "pending"] ELSE v.disk[j]
            repaired == [j \in Jobs |-> fix(j)]
            recon == {j \in Jobs : Has(repaired, j) /\ repaired[j].status = "pending"}
            size == [j \in Jobs |-> IF Has(repaired, j) THEN repaired[j].bytes ELSE 0]
            read == [EmptyVault EXCEPT !.disk = repaired, !.records = repaired,
                                       !.reconciling = recon, !.sealed = size]
<1>1. Load(v) = EnforceBounds(Purged(read), {})
  BY DEF Load
<1>2. ASSUME NEW i \in Jobs
      PROVE  /\ fix(i) \in Record \cup {NoRecord} /\ Good(i, fix(i), Q)
             /\ fix(i) = v.disk[i]
  <2>1. v.disk[i] \in Record \cup {NoRecord} /\ Good(i, v.disk[i], Q)
    BY SoundTypes DEF Slot
  <2>2. ~old(i)
    BY <2>1, RecordFields DEF Good
  <2>. QED  BY <2>1, <2>2
<1>. HIDE DEF fix, old
<1>3. repaired \in Slots /\ recon \subseteq Jobs
  BY <1>2 DEF Slots
<1>4. size \in [Jobs -> 0..2]
  <2>1. ASSUME NEW i \in Jobs
        PROVE  (IF Has(repaired, i) THEN repaired[i].bytes ELSE 0) \in 0..2
    BY <1>2, RecordFields DEF Has
  <2>. HIDE DEF repaired
  <2>. QED  BY <2>1
<1>5. ASSUME NEW i \in Jobs
      PROVE  /\ repaired[i] = fix(i) /\ (i \in recon <=> fix(i) # NoRecord /\ fix(i).status = "pending")
             /\ size[i] > 0 => fix(i) # NoRecord
             /\ size[i] = IF fix(i) = NoRecord THEN 0 ELSE fix(i).bytes
  BY DEF Has
<1>. HIDE DEF repaired, recon, size
<1>6. /\ read \in VaultType /\ read.disk = repaired /\ read.records = repaired
      /\ read.reconciling = recon /\ read.sealed = size /\ read.active = {}
      /\ read.recovery = [j \in Jobs |-> NoRecord]
  BY <1>3, <1>4 DEF EmptyVault, VaultType, Slots
<1>. HIDE DEF read
<1>7. ASSUME NEW i \in Jobs
      PROVE  /\ Slot(read, i, Q) /\ read.disk[i] = v.disk[i] /\ read.records[i] = v.disk[i]
             /\ read.recovery[i] = NoRecord
             /\ read.sealed[i] = IF v.disk[i] = NoRecord THEN 0 ELSE v.disk[i].bytes
  <2>1. /\ read.disk[i] = fix(i) /\ read.records[i] = fix(i) /\ read.recovery[i] = NoRecord
        /\ i \notin read.active /\ (read.sealed[i] > 0 => fix(i) # NoRecord)
        /\ read.sealed[i] = IF fix(i) = NoRecord THEN 0 ELSE fix(i).bytes
        /\ i \in read.reconciling <=> fix(i) # NoRecord /\ fix(i).status = "pending"
    BY <1>5, <1>6
  <2>2. Pend(read, i) => Mem(read, i) = fix(i) /\ fix(i) \in Record
    BY <1>2, <2>1 DEF Pend, Mem
  <2>3. Pend(read, i) => Supersedes(fix(i), fix(i))
    BY <2>2, SupersedesItself
  <2>4. Pend(read, i) => read.disk[i] # NoRecord /\ Supersedes(read.disk[i], Mem(read, i))
    BY <2>1, <2>2, <2>3, RecordFields
  <2>5. Good(i, read.records[i], Q) /\ Good(i, read.disk[i], Q)
    BY <1>2, <2>1
  <2>6. Slot(read, i, Q)
    BY <2>1, <2>4, <2>5 DEF Slot
  <2>. QED  BY <1>2, <2>1, <2>6
<1>8. Sound(read, Q)
  BY <1>6, <1>7 DEF Sound
<1>. QED  BY <1>1, <1>7, <1>8 DEF Reads

\* What is on disk is loaded; what is pending there stays.
LEMMA LoadKeeps ==
    ASSUME NEW Q, NEW v, Sound(v, Q)
    PROVE  /\ Sound(Load(v).v, Q)
           /\ \A i \in Jobs : v.disk[i] # NoRecord /\ v.disk[i].status = "pending" =>
                 /\ Load(v).v.disk[i] # NoRecord
                 /\ Supersedes(Load(v).v.disk[i], v.disk[i])
<1>1. PICK read : Reads(v, read, Q)
  BY LoadReads
<1>. DEFINE p == Purged(read)
<1>2. /\ Sound(p, Q)
      /\ \A i \in Jobs : Pend(read, i) => Pend(p, i) /\ Mem(p, i) = Mem(read, i)
  BY <1>1, PurgeKeeps DEF Reads
<1>. HIDE DEF p
<1>. DEFINE e == EnforceBounds(p, {})
<1>3. Trimmed(p, e.v, Jobs)
  BY <1>2, EnforceBoundsTrims DEF Sound, Room
<1>4. Load(v) = e
  BY <1>1 DEF p, Reads
<1>. HIDE DEF e
<1>5. Sound(e.v, Q) /\ Keeps(p, e.v)
  BY <1>2, <1>3, TrimKeeps
<1>6. ASSUME NEW i \in Jobs, v.disk[i] # NoRecord, v.disk[i].status = "pending"
       PROVE  e.v.disk[i] # NoRecord /\ Supersedes(e.v.disk[i], v.disk[i])
  <2>1. Pend(read, i) /\ Mem(read, i) = v.disk[i]
    BY <1>1, <1>6 DEF Reads, Pend, Mem
  <2>. QED  BY <1>2, <1>5, <2>1 DEF Keeps
<1>. QED  BY <1>4, <1>5, <1>6

----------------------------------------------------------------------------
(* The inductive invariant.                                                *)

Agrees(r) ==
    r # NoRecord /\ r.status = "pending" => SameEvidence(r, worker.snap)

\* A request between staging and finishing has a record of the final receipt it staged, or
\* of the ledger's closure, and one that has not dispatched has no evidence yet.
PhaseOf(i) ==
    /\ phase[i] = "queued" => i \in queued
    /\ phase[i] \in {"staged", "handed", "queued"} /\ vault.records[i] # NoRecord =>
          /\ vault.records[i].as = kind[i]
          /\ vault.records[i].ev = "final" \/ vault.records[i].settled
    /\ phase[i] = "open" /\ vault.recovery[i] # NoRecord => vault.recovery[i].ev = "none"

\* The worker's snapshot still names the evidence of the job it holds.
WorkerInv ==
    worker.step # "idle" =>
        /\ worker.job \in Jobs /\ worker.snap \in Record
        /\ worker.job \notin vault.active
        /\ Agrees(vault.records[worker.job])
        /\ worker.snap.ev = "final" /\ worker.snap.info => worker.snap.as = "failed"
        /\ worker.step = "finish" => worker.job \in queued
        /\ worker.step \in {"deliver", "store", "finish"} => worker.snap.ev = "final"

DownInv == ~up => worker = Idle /\ \A i \in Jobs : phase[i] = "idle"

JobsInv ==
    /\ TypeOK /\ Sound(vault, queued)
    /\ \A i \in Jobs : PhaseOf(i)
    /\ WorkerInv /\ DownInv

\* What a step of the request of job j leaves alone.
RequestFrame(j) ==
    /\ up /\ UNCHANGED <<up, now, queued, worker, todo, after, crashes>>
    /\ faults' \in 0..MaxFaults /\ resv' \in ResvType
    /\ phase' \in [Jobs -> Phases] /\ kind' \in [Jobs -> Terminal]
    /\ \A i \in Jobs \ {j} : phase'[i] = phase[i] /\ kind'[i] = kind[i]

\* What it does to the vault.
RequestVault(j) ==
    /\ Sound(vault', queued) /\ vault'.active \subseteq vault.active
    /\ \A i \in Jobs \ {j} : Goes(vault, vault', i)
    /\ worker.step # "idle" /\ worker.job = j => Agrees(vault'.records[j])

\* A step of one request keeps the invariant when it keeps the vault and its own phase.
LEMMA RequestKept ==
    ASSUME JobsInv, NEW j \in Jobs, RequestFrame(j), RequestVault(j), PhaseOf(j)'
    PROVE  JobsInv'
<1>1. TypeOK'
  BY DEF JobsInv, TypeOK, RequestFrame, RequestVault, Sound, VaultType, ResvType
<1>2. Sound(vault, queued)'
  BY DEF RequestFrame, RequestVault
<1>3. ASSUME NEW i \in Jobs \ {j}
      PROVE  PhaseOf(i)'
  BY DEF JobsInv, PhaseOf, RequestFrame, RequestVault, Goes
<1>4. WorkerInv'
  <2>1. worker.step # "idle" => Agrees(vault'.records[worker.job])
    BY DEF JobsInv, WorkerInv, RequestVault, Goes, Agrees
  <2>. QED  BY <2>1 DEF JobsInv, WorkerInv, RequestFrame, RequestVault, Agrees
<1>5. DownInv'
  BY DEF DownInv, RequestFrame
<1>. QED  BY <1>1, <1>2, <1>3, <1>4, <1>5 DEF JobsInv

\* The types that steps use.
LEMMA InvTypes ==
    ASSUME JobsInv
    PROVE  /\ now \in 0..MaxTime /\ phase \in [Jobs -> Phases] /\ kind \in [Jobs -> Terminal]
           /\ resv \in ResvType
           /\ faults \in 0..MaxFaults /\ crashes \in 0..MaxCrashes
           /\ Sound(vault, queued)
           /\ \A i \in vault.active : worker.step = "idle" \/ worker.job # i
BY DEF JobsInv, TypeOK, WorkerInv, ResvType

\* A fault is one of the kinds and is counted.
LEMMA FaultCounted ==
    ASSUME JobsInv, NEW flt, Fault(flt)
    PROVE  flt \in Faults /\ faults' \in 0..MaxFaults
BY JobsAssumption DEF JobsInv, TypeOK, Fault

\* The errors of staged and finished jobs.
LEMMA KindErrors ==
    \A k \in Terminal : StagedError(k) \in Errors /\ TerminalError(k) \in Errors
BY DEF Terminal, StagedError, TerminalError, Errors

----------------------------------------------------------------------------
(* The steps of a request.                                                 *)

\* The copy of a running job.
LEMMA LiveCopy ==
    ASSUME JobsInv, NEW j \in Jobs, Has(vault.recovery, j)
    PROVE  /\ vault.recovery[j] \in Record /\ Live(vault.recovery[j]) /\ j \in vault.active
           /\ vault.records[j] = NoRecord
BY InvTypes, SoundTypes DEF Has, Slot

\* The voucher of the next attempt supersedes what is there.
LEMMA VoucherFits ==
    ASSUME NEW d \in Record, Live(d), d.att < MaxAttempts
    PROVE  /\ StreamReceipt(Voucher(d)) /\ Supersedes(Voucher(d), d)
           /\ Voucher(d).att \in 0..MaxAttempts
<1>. DEFINE r == Voucher(d)
<1>1. d.att \in 0..MaxAttempts /\ d.ev \in Evidence /\ MaxAttempts \in Nat
  BY RecordFields, JobsAssumption
<1>2. r \in Record
  <2>1. d.att + 1 \in 0..MaxAttempts /\ "reservation" \in Evidence /\ "failed" \in Terminal
    BY <1>1 DEF Evidence, Terminal
  <2>. QED  BY <1>1, <2>1 DEF Voucher, Record
<1>3. /\ r.ev = "reservation" /\ r.settled = FALSE /\ r.att = d.att + 1 /\ r.prior = d.ev
  BY DEF Voucher, Record
<1>. HIDE DEF r
<1>4. Supersedes(r, d)
  BY <1>1, <1>3 DEF Supersedes, Live
<1>. QED  BY <1>1, <1>2, <1>3, <1>4 DEF StreamReceipt, r

\* So does a checkpoint.
LEMMA CheckpointFits ==
    ASSUME NEW d \in Record, Live(d)
    PROVE  StreamReceipt(CheckpointReceipt(d)) /\ Supersedes(CheckpointReceipt(d), d)
<1>. DEFINE r == CheckpointReceipt(d)
<1>1. d.ev \in Evidence /\ d.ev # "final"
  BY RecordFields DEF Live
<1>2. r \in Record
  BY DEF CheckpointReceipt, Record, Evidence, Terminal
<1>3. /\ r.ev = "checkpoint" /\ r.settled = FALSE /\ r.att = d.att
  BY DEF CheckpointReceipt, Record
<1>. HIDE DEF r
<1>4. Supersedes(r, d)
  BY <1>1, <1>3, RankOrder DEF Supersedes, Live, Evidence
<1>. QED  BY <1>2, <1>3, <1>4 DEF StreamReceipt, r

\* So does the checkpoint with its feature.
LEMMA FeatureFits ==
    ASSUME NEW d \in Record, Live(d), d.ev = "checkpoint"
    PROVE  LET r == [d EXCEPT !.feature = TRUE] IN StreamReceipt(r) /\ Supersedes(r, d)
<1>. DEFINE r == [d EXCEPT !.feature = TRUE]
<1>1. r \in Record
  BY DEF Record
<1>2. /\ r.ev = d.ev /\ r.as = d.as /\ r.settled = d.settled /\ r.att = d.att /\ r.prior = d.prior
      /\ d.settled \in BOOLEAN
  BY DEF Record
<1>. HIDE DEF r
<1>. QED  BY <1>1, <1>2, SameSupersedes DEF SameEvidence, StreamReceipt, Live, r

\* Dispatch, also as a failover, keeps the invariant and the evidence.
LEMMA DispatchStep ==
    ASSUME JobsInv, NEW j \in Jobs, NEW flt, Dispatch(j, flt)
    PROVE  JobsInv' /\ Keeps(vault, vault')
<1>. DEFINE r == Voucher(vault.recovery[j])
            u == UpdateActive(vault, j, r, flt)
<1>1. flt \in Faults /\ faults' \in 0..MaxFaults
  BY FaultCounted DEF Dispatch
<1>2. /\ up /\ vault' = u.v /\ resv' = [resv EXCEPT ![j][r.att] = "open"]
      /\ phase' = [phase EXCEPT ![j] = IF u.ok THEN "running" ELSE "ending"]
      /\ Has(vault.recovery, j) /\ vault.recovery[j].att < MaxAttempts
      /\ UNCHANGED <<up, now, kind, queued, worker, todo, after, crashes>>
  BY DEF Dispatch, Goto, recoveryVars
<1>3. StreamReceipt(r) /\ Supersedes(r, vault.recovery[j]) /\ r.att \in 0..MaxAttempts
  BY <1>2, LiveCopy, VoucherFits
<1>. HIDE DEF r
<1>4. Sound(u.v, queued) /\ Keeps(vault, u.v) /\ Recopies(vault, u.v, j)
  BY <1>1, <1>3, InvTypes, UpdateActiveKeeps
<1>. HIDE DEF u
<1>5. RequestFrame(j) /\ phase'[j] \in {"running", "ending"}
  <2>1. resv' \in ResvType
    BY <1>2, <1>3, InvTypes DEF ResvType
  <2>. QED  BY <1>1, <1>2, <2>1, InvTypes DEF RequestFrame, Phases
<1>6. RequestVault(j)
  BY <1>2, <1>4, InvTypes DEF RequestVault, Recopies, Goes, JobsInv, WorkerInv, Agrees
<1>7. PhaseOf(j)'
  BY <1>5 DEF PhaseOf
<1>. QED  BY <1>2, <1>4, <1>5, <1>6, <1>7, RequestKept

\* Checkpoint keeps the invariant and the evidence.
LEMMA CheckpointStep ==
    ASSUME JobsInv, NEW j \in Jobs, NEW flt, Checkpoint(j, flt)
    PROVE  JobsInv' /\ Keeps(vault, vault')
<1>. DEFINE r == CheckpointReceipt(vault.recovery[j])
            u == UpdateActive(vault, j, r, flt)
<1>1. flt \in Faults /\ faults' \in 0..MaxFaults
  BY FaultCounted DEF Checkpoint
<1>2. /\ At(j, "running") /\ vault' = u.v /\ Has(vault.recovery, j)
      /\ phase' = [phase EXCEPT ![j] = IF u.ok THEN "running" ELSE "ending"]
      /\ UNCHANGED <<up, now, kind, queued, resv, worker, todo, after, crashes>>
  BY DEF Checkpoint, Goto, recoveryVars
<1>0. StreamReceipt(r) /\ Supersedes(r, vault.recovery[j])
  BY <1>2, LiveCopy, CheckpointFits
<1>. HIDE DEF r
<1>3. Sound(u.v, queued) /\ Keeps(vault, u.v) /\ Recopies(vault, u.v, j)
  BY <1>0, <1>1, InvTypes, UpdateActiveKeeps
<1>. HIDE DEF u
<1>4. RequestFrame(j) /\ phase'[j] \in {"running", "ending"}
  BY <1>1, <1>2, InvTypes DEF RequestFrame, At, Phases
<1>5. RequestVault(j)
  BY <1>2, <1>3, InvTypes DEF RequestVault, Recopies, Goes, JobsInv, WorkerInv, Agrees
<1>6. PhaseOf(j)'
  BY <1>4 DEF PhaseOf
<1>. QED  BY <1>2, <1>3, <1>4, <1>5, <1>6, RequestKept

\* CheckpointHandoff keeps the invariant and the evidence.
LEMMA CheckpointHandoffStep ==
    ASSUME JobsInv, NEW j \in Jobs, NEW flt, CheckpointHandoff(j, flt)
    PROVE  JobsInv' /\ Keeps(vault, vault')
<1>. DEFINE v == Purged(vault)
            r == [vault.recovery[j] EXCEPT !.feature = TRUE]
            u == UpdateActive(v, j, r, flt)
<1>1. flt \in Faults /\ faults' \in 0..MaxFaults
  BY FaultCounted DEF CheckpointHandoff
<1>2. /\ At(j, "running") /\ vault' = u.v
      /\ Has(vault.recovery, j) /\ vault.recovery[j].ev = "checkpoint"
      /\ phase' = [phase EXCEPT ![j] = IF u.ok THEN "running" ELSE "ending"]
      /\ UNCHANGED <<up, now, kind, queued, resv, worker, todo, after, crashes>>
  BY DEF CheckpointHandoff, Goto, recoveryVars
<1>3. /\ Sound(v, queued) /\ Keeps(vault, v) /\ Shrinks(vault, v)
      /\ \A i \in Jobs : Pend(vault, i) => Pend(v, i) /\ Mem(v, i) = Mem(vault, i)
  BY InvTypes, PurgeKeeps
<1>0. StreamReceipt(r) /\ Supersedes(r, vault.recovery[j])
  BY <1>2, LiveCopy, FeatureFits
<1>. HIDE DEF v, r
<1>a. Pend(v, j) => Supersedes(r, v.recovery[j])
  <2>1. v.recovery[j] \in {vault.recovery[j], NoRecord} /\ v.records[j] = NoRecord
    BY <1>2, <1>3, LiveCopy DEF Shrinks, Goes
  <2>. QED  BY <1>0, <2>1 DEF Pend, Mem
<1>4. Sound(u.v, queued) /\ Keeps(v, u.v) /\ Recopies(v, u.v, j)
  BY <1>0, <1>1, <1>3, <1>a, InvTypes, UpdateActiveKeeps
<1>. HIDE DEF u
<1>5. Keeps(vault, u.v)
  BY <1>3, <1>4 DEF Keeps
<1>6. RequestFrame(j) /\ phase'[j] \in {"running", "ending"}
  BY <1>1, <1>2, InvTypes DEF RequestFrame, At, Phases
<1>7. RequestVault(j)
  BY <1>2, <1>3, <1>4, InvTypes
     DEF RequestVault, Shrinks, Recopies, Goes, JobsInv, WorkerInv, Agrees
<1>8. PhaseOf(j)'
  BY <1>6 DEF PhaseOf
<1>. QED  BY <1>2, <1>5, <1>6, <1>7, <1>8, RequestKept

\* A completion concerns an active job, which the worker does not hold.
LEMMA CompleteFits ==
    ASSUME JobsInv, NEW j \in Jobs, NEW flt \in Faults, NEW r \in Record, Good(j, r, queued),
           \/ r.status \in {"failed", "cancelled"}
           \/ r.ev = "final" /\ (vault.recovery[j] # NoRecord => r.att = vault.recovery[j].att)
           \/ vault.recovery[j] # NoRecord => vault.recovery[j].ev = "none",
           vault' = Complete(vault, j, r, flt).v
    PROVE  /\ RequestVault(j) /\ Keeps(vault, vault')
           /\ Complete(vault, j, r, flt).ok /\ r.status = "pending" => vault'.records[j] = r
<1>. DEFINE c == Complete(vault, j, r, flt)
<1>1. /\ Sound(c.v, queued) /\ Keeps(vault, c.v)
      /\ \E x \in Record : /\ Grows(vault, c.v, j, x) /\ (c.ok => c.v.records[j] = x)
                           /\ r.status = "pending" => x = r
      /\ j \notin vault.active => c.v = vault
  BY InvTypes, CompleteKeeps
<1>2. vault' = c.v
  OBVIOUS
<1>. HIDE DEF c
<1>3. PICK x \in Record : /\ Grows(vault, c.v, j, x) /\ (c.ok => c.v.records[j] = x)
                          /\ r.status = "pending" => x = r
  BY <1>1
<1>4. worker.step # "idle" /\ worker.job = j => Agrees(c.v.records[j])
  <2>1. CASE j \in vault.active
    BY <2>1, InvTypes
  <2>2. CASE j \notin vault.active
    BY <1>1, <2>2 DEF JobsInv, WorkerInv
  <2>. QED  BY <2>1, <2>2
<1>. QED  BY <1>1, <1>2, <1>3, <1>4 DEF RequestVault, Grows, c

\* CompleteUnpaid keeps the invariant and the evidence: nothing was reserved.
LEMMA CompleteUnpaidStep ==
    ASSUME JobsInv, NEW j \in Jobs, NEW flt, CompleteUnpaid(j, flt)
    PROVE  JobsInv' /\ Keeps(vault, vault')
<1>. DEFINE r == [Fallback EXCEPT !.status = "completed", !.err = "none", !.info = FALSE,
                                  !.bytes = 2]
            c == Complete(vault, j, r, flt)
<1>1. flt \in Faults /\ faults' \in 0..MaxFaults
  BY FaultCounted DEF CompleteUnpaid
<1>2. /\ At(j, "open") /\ vault' = c.v
      /\ phase' = [phase EXCEPT ![j] = IF c.ok THEN "idle" ELSE "ending"]
      /\ UNCHANGED <<up, now, kind, queued, resv, worker, todo, after, crashes>>
  BY DEF CompleteUnpaid, Goto, recoveryVars
<1>3. r \in Record /\ r.status = "completed" /\ r.ev = "none"
  <2>1. now \in 0..MaxTime
    BY InvTypes
  <2>2. Fallback \in Record /\ Fallback.ev = "none"
    BY <2>1, FallbackRecord
  <2>3. "completed" \in Statuses /\ "none" \in Errors /\ 2 \in 1..2
    BY DEF Statuses, Terminal, Errors
  <2>. QED  BY <2>2, <2>3 DEF Record
<1>. HIDE DEF r
<1>4. Good(j, r, queued) /\ (vault.recovery[j] # NoRecord => vault.recovery[j].ev = "none")
  BY <1>2, <1>3 DEF Good, JobsInv, PhaseOf, At
<1>5. RequestVault(j) /\ Keeps(vault, vault')
  BY <1>1, <1>2, <1>3, <1>4, CompleteFits
<1>. HIDE DEF c
<1>6. RequestFrame(j) /\ phase'[j] \in {"idle", "ending"}
  BY <1>1, <1>2, InvTypes DEF RequestFrame, At, Phases
<1>7. PhaseOf(j)'
  BY <1>6 DEF PhaseOf
<1>. QED  BY <1>5, <1>6, <1>7, RequestKept

\* Stage keeps the invariant and the evidence: the final receipt replaces a checkpoint.
LEMMA StageStep ==
    ASSUME JobsInv, NEW j \in Jobs, NEW k \in Outcomes, NEW flt, Stage(j, k, flt)
    PROVE  JobsInv' /\ Keeps(vault, vault')
<1>. DEFINE a == vault.recovery[j].att
            r == [Fallback EXCEPT !.status = "pending", !.ev = "final", !.as = k, !.att = a,
                            !.err = StagedError(k), !.info = (k = "failed"),
                            !.bytes = IF k = "completed" THEN 2 ELSE 1]
            c == Complete(vault, j, r, flt)
<1>0. k \in Terminal /\ StagedError(k) \in Errors
  BY JobsAssumption, KindErrors
<1>1. flt \in Faults /\ faults' \in 0..MaxFaults
  BY FaultCounted DEF Stage
<1>2. /\ At(j, "running") /\ vault' = c.v /\ kind' = [kind EXCEPT ![j] = k]
      /\ Has(vault.recovery, j)
      /\ phase' = [phase EXCEPT ![j] = IF c.ok THEN "staged" ELSE "failing"]
      /\ UNCHANGED <<up, now, queued, resv, worker, todo, after, crashes>>
  BY DEF Stage, Goto, recoveryVars
<1>a. a \in 0..MaxAttempts
  BY <1>2, LiveCopy, RecordFields
<1>. HIDE DEF a
<1>3. /\ r \in Record /\ r.status = "pending" /\ r.ev = "final" /\ r.as = k
      /\ r.info = (k = "failed") /\ r.att = a
  <2>. DEFINE n == IF k = "completed" THEN 2 ELSE 1
              f == (k = "failed")
              e == StagedError(k)
  <2>1. n \in 1..2 /\ f \in BOOLEAN /\ e \in Errors /\ now \in 0..MaxTime
    BY <1>0, InvTypes
  <2>2. r = [Fallback EXCEPT !.status = "pending", !.ev = "final", !.as = k, !.att = a,
                             !.err = e, !.info = f, !.bytes = n]
    OBVIOUS
  <2>. HIDE DEF n, f, e
  <2>3. /\ r \in Record /\ r.status = "pending" /\ r.ev = "final" /\ r.as = k /\ r.info = f
        /\ r.att = a
    BY <1>0, <1>a, <2>1, <2>2, ZenonT(60) DEF Fallback, Record, Statuses, Evidence, Errors
  <2>. QED  BY <2>3 DEF f
<1>. HIDE DEF r
<1>4. Good(j, r, queued)
  BY <1>3 DEF Good
<1>5. /\ RequestVault(j) /\ Keeps(vault, vault')
      /\ c.ok => vault'.records[j] = r
  BY <1>1, <1>2, <1>3, <1>4, CompleteFits DEF a
<1>. HIDE DEF c
<1>6. RequestFrame(j) /\ phase'[j] \in {"staged", "failing"} /\ kind'[j] = k
  BY <1>0, <1>1, <1>2, InvTypes DEF RequestFrame, At, Phases
<1>7. PhaseOf(j)'
  <2>1. phase'[j] = "staged" => c.ok
    BY <1>2, InvTypes
  <2>. QED  BY <1>3, <1>5, <1>6, <2>1 DEF PhaseOf
<1>. QED  BY <1>5, <1>6, <1>7, RequestKept

\* A request that has staged its receipt rewrites the record with the same evidence.
LEMMA SettlesFits ==
    ASSUME JobsInv, NEW j \in Jobs, RequestFrame(j), kind' = kind,
           Sound(vault', queued), Settles(vault, vault'),
           phase[j] \in {"staged", "handed", "queued"} \/ phase'[j] \in {"idle", "failing"},
           phase'[j] = "queued" => j \in queued, phase'[j] # "open"
    PROVE  JobsInv'
<1>1. ASSUME NEW i \in Jobs, phase'[i] \in {"staged", "handed", "queued"}
      PROVE  phase[i] \in {"staged", "handed", "queued"}
  BY <1>1 DEF RequestFrame
<1>2. ASSUME NEW i \in Jobs
      PROVE  PhaseOf(i)'
  <2>1. phase'[i] = "queued" => i \in queued'
    BY DEF RequestFrame, JobsInv, PhaseOf
  <2>2. phase'[i] \in {"staged", "handed", "queued"} /\ vault'.records[i] # NoRecord =>
          /\ vault'.records[i].as = kind'[i]
          /\ vault'.records[i].ev = "final" \/ vault'.records[i].settled
    BY <1>1 DEF JobsInv, PhaseOf, Settles, Goes, SameEvidence
  <2>3. phase'[i] = "open" /\ vault'.recovery[i] # NoRecord => vault'.recovery[i].ev = "none"
    BY DEF JobsInv, PhaseOf, RequestFrame, Settles, Goes
  <2>. QED  BY <2>1, <2>2, <2>3 DEF PhaseOf
<1>3. TypeOK'
  BY DEF JobsInv, TypeOK, RequestFrame, Sound, VaultType, ResvType
<1>4. WorkerInv'
  <2>1. worker.step # "idle" => Agrees(vault'.records[worker.job])
    BY DEF JobsInv, WorkerInv, Settles, Goes, Agrees, SameEvidence
  <2>. QED  BY <2>1 DEF JobsInv, WorkerInv, RequestFrame, Settles, Agrees
<1>5. DownInv' /\ Sound(vault, queued)'
  BY DEF DownInv, RequestFrame
<1>. QED  BY <1>2, <1>3, <1>4, <1>5 DEF JobsInv

\* Handoff keeps the invariant and the evidence.
LEMMA HandoffStep ==
    ASSUME JobsInv, NEW j \in Jobs, NEW flt, Handoff(j, flt)
    PROVE  JobsInv' /\ Keeps(vault, vault')
<1>. DEFINE v == Purged(vault)
            r == [v.records[j] EXCEPT !.feature = TRUE]
            u == IF Has(v.records, j) THEN UpdateReceipt(v, j, r, flt) ELSE Failure(v)
<1>1. flt \in Faults /\ faults' \in 0..MaxFaults /\ now \in 0..MaxTime
  BY FaultCounted, InvTypes DEF Handoff
<1>2. /\ At(j, "staged") /\ vault' = u.v
      /\ phase' = [phase EXCEPT ![j] = IF u.ok THEN "handed" ELSE "failing"]
      /\ UNCHANGED <<up, now, kind, queued, resv, worker, todo, after, crashes>>
  BY DEF Handoff, Goto, recoveryVars
<1>3. /\ Sound(v, queued) /\ Keeps(vault, v) /\ Shrinks(vault, v)
      /\ \A i \in Jobs : Pend(vault, i) => Pend(v, i) /\ Mem(v, i) = Mem(vault, i)
  BY InvTypes, PurgeKeeps
<1>. HIDE DEF v
<1>4. Sound(u.v, queued) /\ Keeps(v, u.v) /\ Settles(v, u.v)
  <2>1. CASE ~Has(v.records, j)
    <3>1. u = [v |-> v, ok |-> FALSE]
      BY <2>1 DEF Failure
    <3>2. u.v = v
      BY <3>1
    <3>. QED  BY <1>3, <3>2, KeepsItself DEF Settles, Goes
  <2>2. CASE Has(v.records, j)
    <3>1. v.records[j] \in Record
      BY <1>3, <2>2, SoundTypes DEF Has
    <3>2. r \in Record /\ SameEvidence(r, v.records[j])
      BY <3>1 DEF Record, SameEvidence
    <3>3. u = UpdateReceipt(v, j, r, flt)
      BY <2>2
    <3>. HIDE DEF r, u
    <3>4. Renews(r, v.records[j])
      BY <3>2 DEF Renews, SameEvidence
    <3>. QED  BY <1>1, <1>3, <3>2, <3>3, <3>4, UpdateReceiptKeeps
  <2>. QED  BY <2>1, <2>2
<1>. HIDE DEF u
<1>5. Keeps(vault, u.v) /\ Settles(vault, u.v)
  BY <1>3, <1>4 DEF Keeps, Settles, Shrinks, Goes
<1>6. RequestFrame(j) /\ phase'[j] \in {"handed", "failing"} /\ phase[j] = "staged"
  BY <1>1, <1>2, InvTypes DEF RequestFrame, At, Phases
<1>. QED  BY <1>2, <1>4, <1>5, <1>6, SettlesFits

\* FinishRequest keeps the invariant and the evidence: the feature is queued.
LEMMA FinishRequestStep ==
    ASSUME JobsInv, NEW j \in Jobs, NEW flt, FinishRequest(j, flt)
    PROVE  JobsInv' /\ Keeps(vault, vault')
<1>. DEFINE f == Finish(vault, j, kind[j], TerminalError(kind[j]), flt)
<1>1. flt \in Faults /\ faults' \in 0..MaxFaults /\ now \in 0..MaxTime
  BY FaultCounted, InvTypes DEF FinishRequest
<1>2. /\ At(j, "queued") /\ vault' = f.v
      /\ phase' = [phase EXCEPT ![j] = IF f.ok THEN "idle" ELSE "failing"]
      /\ UNCHANGED <<up, now, kind, queued, resv, worker, todo, after, crashes>>
  BY DEF FinishRequest, Goto, recoveryVars
<1>3. kind[j] \in Terminal /\ TerminalError(kind[j]) \in Errors
  BY InvTypes, KindErrors
<1>4. /\ j \in queued
      /\ vault.records[j] # NoRecord =>
            /\ vault.records[j].as = kind[j]
            /\ vault.records[j].ev = "final" \/ vault.records[j].settled
  BY <1>2 DEF JobsInv, PhaseOf, At
<1>5. Sound(f.v, queued) /\ Keeps(vault, f.v) /\ Settles(vault, f.v)
  BY <1>1, <1>3, <1>4, InvTypes, FinishKeeps DEF Has
<1>. HIDE DEF f
<1>6. RequestFrame(j) /\ phase'[j] \in {"idle", "failing"}
  BY <1>1, <1>2, InvTypes DEF RequestFrame, At, Phases
<1>. QED  BY <1>2, <1>5, <1>6, SettlesFits

\* Break changes the phase alone.
LEMMA BreakStep ==
    ASSUME JobsInv, NEW j \in Jobs, Break(j)
    PROVE  JobsInv' /\ Keeps(vault, vault')
<1>1. /\ up /\ phase' \in [Jobs -> Phases] /\ phase'[j] \in {"ending", "failing"}
      /\ \A i \in Jobs \ {j} : phase'[i] = phase[i]
      /\ UNCHANGED <<vault, up, now, kind, queued, resv, worker, todo, after, crashes, faults>>
  BY InvTypes DEF Break, Goto, recoveryVars, Phases
<1>2. RequestFrame(j)
  BY <1>1, InvTypes DEF RequestFrame
<1>3. RequestVault(j) /\ Keeps(vault, vault')
  BY <1>1, InvTypes, KeepsItself DEF RequestVault, Goes, JobsInv, WorkerInv
<1>4. PhaseOf(j)'
  BY <1>1 DEF PhaseOf
<1>. QED  BY <1>2, <1>3, <1>4, RequestKept

\* EndRequest keeps the invariant; a failure is stored over any copy.
LEMMA EndRequestStep ==
    ASSUME JobsInv, NEW j \in Jobs, NEW cancelled \in BOOLEAN, NEW flt,
           EndRequest(j, cancelled, flt)
    PROVE  JobsInv' /\ Keeps(vault, vault')
<1>. DEFINE s == IF cancelled THEN "cancelled" ELSE "failed"
            e == IF cancelled THEN "cancelled" ELSE "failure"
            r == [Fallback EXCEPT !.status = s, !.err = e, !.info = ~cancelled]
<1>1. flt \in Faults /\ faults' \in 0..MaxFaults /\ now \in 0..MaxTime
  BY FaultCounted, InvTypes DEF EndRequest
<1>2. /\ up /\ vault' = IF j \in vault.active THEN Complete(vault, j, r, flt).v ELSE vault
      /\ phase' = [phase EXCEPT ![j] = "idle"]
      /\ UNCHANGED <<up, now, kind, queued, resv, worker, todo, after, crashes>>
  BY DEF EndRequest, Goto, recoveryVars
<1>3. r \in Record /\ r.status \in {"failed", "cancelled"} /\ r.ev = "none"
  <2>1. Fallback \in Record /\ Fallback.ev = "none"
    BY <1>1, FallbackRecord
  <2>2. s \in Statuses /\ s \in {"failed", "cancelled"} /\ e \in Errors
    BY DEF Statuses, Terminal, Errors
  <2>. HIDE DEF s, e
  <2>. QED  BY <2>1, <2>2 DEF Record
<1>. HIDE DEF r
<1>4. Good(j, r, queued)
  BY <1>3 DEF Good
<1>5. RequestVault(j) /\ Keeps(vault, vault')
  <2>1. CASE j \in vault.active
    BY <1>1, <1>2, <1>3, <1>4, <2>1, CompleteFits
  <2>2. CASE j \notin vault.active
    BY <1>2, <2>2, InvTypes, KeepsItself DEF RequestVault, Goes, JobsInv, WorkerInv
  <2>. QED  BY <2>1, <2>2
<1>6. RequestFrame(j) /\ phase'[j] = "idle"
  BY <1>1, <1>2, InvTypes DEF RequestFrame, Phases
<1>7. PhaseOf(j)'
  BY <1>6 DEF PhaseOf
<1>. QED  BY <1>5, <1>6, <1>7, RequestKept

\* The record leaves memory, and the disk too unless the unlink fails.
LEMMA RemoveStep ==
    ASSUME JobsInv, NEW j \in Jobs, NEW unlinked \in BOOLEAN, Remove(j, unlinked)
    PROVE  JobsInv' /\ Keeps(vault, vault')
<1>. DEFINE v == Purged(vault)
            d == Drop(v, {j})
            k == [d EXCEPT !.disk = v.disk]
<1>1. /\ up /\ v.records[j] # NoRecord /\ j \notin v.reconciling
      /\ vault' = IF unlinked THEN d ELSE k
      /\ UNCHANGED <<up, now, phase, kind, queued, resv, worker, todo, after, crashes>>
  BY DEF Remove, recoveryVars, Has
<1>2. faults' \in 0..MaxFaults
  BY InvTypes, JobsAssumption DEF Remove
<1>3. /\ Sound(v, queued) /\ Keeps(vault, v) /\ Shrinks(vault, v)
      /\ \A i \in Jobs : Pend(vault, i) => Pend(v, i) /\ Mem(v, i) = Mem(vault, i)
  BY InvTypes, PurgeKeeps
<1>. HIDE DEF v
<1>4. Trimmed(v, d, Jobs) /\ v \in VaultType
  BY <1>1, <1>3, DropTrims DEF Sound
<1>5. /\ d.records[j] = NoRecord /\ d.disk[j] = NoRecord /\ d.sealed[j] = 0
      /\ j \notin d.reconciling /\ d \in VaultType
  <2>1. d.records[j] = NoRecord
    BY <1>4 DEF Drop, VaultType
  <2>2. Evicted(v, d, j)
    BY <1>1, <1>4, <2>1 DEF Trimmed, Same, MemorySame
  <2>. QED  BY <1>4, <2>2 DEF Evicted, Trimmed
<1>. HIDE DEF d
<1>6. Sound(d, queued) /\ Keeps(v, d) /\ Shrinks(v, d)
  BY <1>3, <1>4, TrimKeeps
<1>7. /\ k \in VaultType /\ k.disk = v.disk /\ k.records = d.records /\ k.recovery = d.recovery
      /\ k.active = d.active /\ k.reconciling = d.reconciling /\ k.sealed = d.sealed
  BY <1>4, <1>5 DEF VaultType
<1>. HIDE DEF k
<1>8. Sound(k, queued) /\ Keeps(v, k) /\ Shrinks(v, k)
  <2>1. ASSUME NEW i \in Jobs
        PROVE  Slot(k, i, queued)
    <3>1. Slot(v, i, queued) /\ Slot(d, i, queued) /\ (Same(v, d, i) \/ Evicted(v, d, i))
      BY <1>3, <1>4, <1>6 DEF Sound, Trimmed
    <3>2. Mem(k, i) = Mem(d, i) /\ (Pend(k, i) <=> Pend(d, i))
      BY <1>7 DEF Mem, Pend
    <3>3. CASE Same(v, d, i)
      <4>1. k.disk[i] = d.disk[i]
        BY <1>7, <3>3 DEF Same
      <4>. QED  BY <1>7, <3>1, <3>2, <4>1 DEF Slot
    <3>4. CASE Evicted(v, d, i)
      <4>1. /\ k.records[i] = NoRecord /\ k.recovery[i] = NoRecord /\ k.sealed[i] = 0
            /\ i \notin k.reconciling /\ Good(i, k.disk[i], queued) /\ ~Pend(k, i)
        BY <1>7, <3>1, <3>4 DEF Evicted, Slot, Pend, Mem
      <4>. QED  BY <4>1 DEF Slot, Good
    <3>. QED  BY <3>1, <3>3, <3>4
  <2>2. Keeps(v, k)
    BY <1>3, <1>7 DEF Keeps, Sound, Slot
  <2>3. Shrinks(v, k)
    BY <1>6, <1>7 DEF Shrinks, Goes
  <2>. QED  BY <1>7, <2>1, <2>2, <2>3 DEF Sound
<1>9. Sound(vault', queued) /\ Keeps(vault, vault') /\ Shrinks(vault, vault')
  BY <1>1, <1>3, <1>6, <1>8 DEF Keeps, Shrinks, Goes
<1>10. RequestFrame(j)
  BY <1>1, <1>2, InvTypes DEF RequestFrame
<1>11. RequestVault(j)
  BY <1>9 DEF RequestVault, Shrinks, Goes, JobsInv, WorkerInv, Agrees
<1>12. PhaseOf(j)'
  BY <1>1, <1>9 DEF PhaseOf, JobsInv, Shrinks, Goes
<1>. QED  BY <1>9, <1>10, <1>11, <1>12, RequestKept

\* More has been queued.
LEMMA SoundQueued ==
    ASSUME NEW v, NEW Q, NEW R, Sound(v, Q), Q \subseteq R
    PROVE  Sound(v, R)
<1>1. ASSUME NEW i \in Jobs
      PROVE  Slot(v, i, R)
  <2>1. Slot(v, i, Q) /\ Good(i, v.records[i], R) /\ Good(i, v.disk[i], R)
    BY DEF Sound, Slot, Good
  <2>. QED  BY <2>1 DEF Slot
<1>. QED  BY <1>1 DEF Sound

\* QueueFeature changes the phase and the queue alone.
LEMMA QueueFeatureStep ==
    ASSUME JobsInv, NEW j \in Jobs, QueueFeature(j)
    PROVE  JobsInv' /\ Keeps(vault, vault')
<1>1. /\ up /\ phase[j] = "handed" /\ queued' = queued \cup {j}
      /\ phase' = [phase EXCEPT ![j] = "queued"]
      /\ UNCHANGED <<vault, up, now, kind, resv, worker, todo, after, crashes, faults>>
  BY DEF QueueFeature, At, Goto, recoveryVars
<1>2. TypeOK' /\ DownInv'
  BY <1>1 DEF JobsInv, TypeOK, DownInv, Phases
<1>3. Sound(vault, queued)'
  BY <1>1, SoundQueued DEF JobsInv
<1>4. \A i \in Jobs : PhaseOf(i)'
  BY <1>1, InvTypes DEF JobsInv, PhaseOf
<1>5. WorkerInv'
  BY <1>1 DEF JobsInv, WorkerInv, Agrees
<1>6. Keeps(vault, vault')
  BY <1>1, InvTypes, KeepsItself
<1>. QED  BY <1>2, <1>3, <1>4, <1>5, <1>6 DEF JobsInv

\* A key that recovery does not hold starts a job; with ReuseEarly it might hold the one
\* before.
LEMMA SubmitStep ==
    ASSUME JobsInv, ReuseEarly = FALSE, NEW j \in Jobs, NEW flt, Submit(j, flt)
    PROVE  /\ JobsInv' /\ Keeps(vault, vault')
           /\ \A i \in Jobs \ {j} : phase'[i] = phase[i]
           /\ phase'[j] = "open" => Purged(vault).disk[j] = NoRecord
<1>. DEFINE v == Purged(vault)
            b == BeginJob(v, j, flt)
<1>1. flt \in Faults /\ faults' \in 0..MaxFaults /\ now \in 0..MaxTime
  BY FaultCounted, InvTypes DEF Submit
<1>2. /\ up /\ phase[j] = "idle" /\ worker.job # j
      /\ UNCHANGED <<up, now, kind, worker, todo, after, crashes>>
  BY DEF Submit, At, recoveryVars
<1>3. /\ Sound(v, queued) /\ Keeps(vault, v) /\ Shrinks(vault, v) /\ v.active = vault.active
      /\ \A i \in Jobs : Pend(vault, i) => Pend(v, i) /\ Mem(v, i) = Mem(vault, i)
  BY InvTypes, PurgeKeeps
<1>4. CASE Has(v.records, j) \/ j \in v.active
  <2>1. vault' = v /\ UNCHANGED <<phase, resv, queued>>
    BY <1>4 DEF Submit
  <2>2. RequestFrame(j)
    BY <1>1, <1>2, <2>1, InvTypes DEF RequestFrame
  <2>. HIDE DEF v
  <2>3. RequestVault(j)
    BY <1>2, <1>3, <2>1 DEF RequestVault, Shrinks
  <2>4. PhaseOf(j)'
    BY <1>2, <2>1 DEF PhaseOf
  <2>. QED  BY <1>2, <1>3, <2>1, <2>2, <2>3, <2>4, RequestKept
<1>5. CASE ~(Has(v.records, j) \/ j \in v.active)
  <2>1. /\ vault' = b.v
        /\ phase' = [phase EXCEPT ![j] = IF b.ok THEN "open" ELSE "idle"]
        /\ resv' = [resv EXCEPT ![j] = IF b.ok THEN Unreserved ELSE @]
        /\ queued' = IF b.ok THEN queued \ {j} ELSE queued
    BY <1>5 DEF Submit, Goto
  <2>2. v.disk[j] = Purged(vault).disk[j]
    OBVIOUS
  <2>. HIDE DEF v
  <2>3. /\ b.ok \in BOOLEAN /\ Sound(b.v, queued) /\ Keeps(v, b.v)
        /\ b.v.active \subseteq v.active \cup {j} /\ b.v.records[j] = NoRecord
        /\ \A i \in Jobs \ {j} : Goes(v, b.v, i)
        /\ b.ok => /\ v.disk[j] = NoRecord
                   /\ b.v.disk[j] = Fallback /\ b.v.recovery[j] = Fallback
    BY <1>1, <1>3, <1>5, BeginJobKeeps DEF Has
  <2>. HIDE DEF b
  <2>4. Keeps(vault, vault')
    BY <1>3, <2>1, <2>3 DEF Keeps
  <2>5. ASSUME NEW i \in Jobs \ {j}
        PROVE  /\ Goes(vault, vault', i) /\ phase'[i] = phase[i]
               /\ i \in queued' <=> i \in queued
    BY <1>3, <2>1, <2>3, InvTypes DEF Shrinks, Goes
  <2>6. phase'[j] \in {"open", "idle"} /\ (phase'[j] = "open" => b.ok)
    BY <2>1, InvTypes
  <2>7. TypeOK'
    <3>1. vault' \in VaultType
      BY <2>1, <2>3 DEF Sound
    <3>2. phase' \in [Jobs -> Phases]
      BY <2>1, InvTypes DEF Phases
    <3>3. resv' \in ResvType /\ queued' \subseteq Jobs
      <4>1. Unreserved \in [0..MaxAttempts -> {"none", "open", "expired", "closed"}]
        BY DEF Unreserved
      <4>. QED  BY <2>1, <4>1 DEF JobsInv, TypeOK, ResvType
    <3>. QED  BY <1>1, <1>2, <3>1, <3>2, <3>3 DEF JobsInv, TypeOK, VaultType, ResvType
  <2>8. Sound(vault, queued)'
    <3>1. CASE ~b.ok
      BY <2>1, <2>3, <3>1
    <3>2. CASE b.ok
      <4>1. queued' = queued \ {j}
        BY <2>1, <3>2
      <4>2. ASSUME NEW i \in Jobs
            PROVE  Slot(b.v, i, queued')
        <5>0. Slot(b.v, i, queued)
          BY <2>3 DEF Sound
        <5>1. CASE i # j
          <6>1. Good(i, b.v.records[i], queued') /\ Good(i, b.v.disk[i], queued')
            BY <4>1, <5>0, <5>1 DEF Slot, Good
          <6>. QED  BY <5>0, <6>1 DEF Slot
        <5>2. CASE i = j
          <6>1. Fallback.ev = "none" /\ Fallback.status = "failed"
            BY <1>1, FallbackRecord
          <6>. HIDE DEF Fallback
          <6>2. Good(i, b.v.records[i], queued') /\ Good(i, b.v.disk[i], queued')
            BY <2>3, <3>2, <5>2, <6>1 DEF Good
          <6>. QED  BY <5>0, <6>2 DEF Slot
        <5>. QED  BY <5>1, <5>2
      <4>. QED  BY <2>1, <2>3, <4>2 DEF Sound
    <3>. QED  BY <2>3, <3>1, <3>2
  <2>9. ASSUME NEW i \in Jobs
        PROVE  PhaseOf(i)'
    <3>1. CASE i # j
      BY <1>2, <2>5, <3>1 DEF JobsInv, PhaseOf, Goes
    <3>2. CASE i = j
      <4>1. Fallback.ev = "none"
        BY <1>1, FallbackRecord
      <4>. HIDE DEF Fallback
      <4>. QED  BY <2>1, <2>3, <2>6, <3>2, <4>1 DEF PhaseOf
    <3>. QED  BY <3>1, <3>2
  <2>10. WorkerInv'
    <3>1. ASSUME worker.step # "idle"
          PROVE  /\ worker.job \in Jobs \ {j} /\ worker.job \notin vault'.active
                 /\ Agrees(vault'.records[worker.job])
                 /\ worker.job \in queued => worker.job \in queued'
      <4>1. /\ worker.job \in Jobs \ {j} /\ worker.job \notin vault.active
            /\ Agrees(vault.records[worker.job])
        BY <1>2, <3>1 DEF JobsInv, WorkerInv
      <4>2. worker.job \notin vault'.active
        BY <1>3, <2>1, <2>3, <4>1
      <4>. QED  BY <2>5, <4>1, <4>2 DEF Goes, Agrees
    <3>. QED  BY <1>2, <3>1 DEF JobsInv, WorkerInv, Agrees
  <2>11. DownInv'
    BY <1>2 DEF DownInv
  <2>12. phase'[j] = "open" => Purged(vault).disk[j] = NoRecord
    BY <2>2, <2>3, <2>6
  <2>. QED  BY <2>4, <2>5, <2>7, <2>8, <2>9, <2>10, <2>11, <2>12 DEF JobsInv
<1>. QED  BY <1>4, <1>5

----------------------------------------------------------------------------
(* The steps of the recovery worker.                                       *)

WorkerType == [step: WorkerSteps, job: Jobs \cup {0}, snap: Record \cup {NoRecord}]

WorkerFrame ==
    /\ up /\ UNCHANGED <<up, now, phase, kind, resv, crashes>>
    /\ faults' \in 0..MaxFaults /\ todo' \subseteq Jobs /\ after' \in Jobs \cup {0}
    /\ worker' \in WorkerType /\ queued \subseteq queued' /\ queued' \subseteq Jobs

\* A step of the recovery worker keeps the invariant when it keeps the vault and the worker.
LEMMA WorkerKept ==
    ASSUME JobsInv, WorkerFrame, Sound(vault', queued'), Closes(vault, vault'), WorkerInv'
    PROVE  JobsInv'
<1>1. TypeOK' /\ DownInv'
  BY DEF JobsInv, TypeOK, DownInv, WorkerFrame, WorkerType, Sound, VaultType
<1>2. ASSUME NEW i \in Jobs
      PROVE  PhaseOf(i)'
  <2>1. phase'[i] = "queued" => i \in queued'
    BY DEF WorkerFrame, JobsInv, PhaseOf
  <2>2. phase'[i] \in {"staged", "handed", "queued"} /\ vault'.records[i] # NoRecord =>
          /\ vault'.records[i].as = kind'[i]
          /\ vault'.records[i].ev = "final" \/ vault'.records[i].settled
    BY DEF WorkerFrame, JobsInv, PhaseOf, Closes, Goes, SameEvidence
  <2>3. phase'[i] = "open" /\ vault'.recovery[i] # NoRecord => vault'.recovery[i].ev = "none"
    BY DEF WorkerFrame, JobsInv, PhaseOf, Closes, Goes
  <2>. QED  BY <2>1, <2>2, <2>3 DEF PhaseOf
<1>. QED  BY <1>1, <1>2 DEF JobsInv

\* What the recovery worker holds.
LEMMA WorkerTypes ==
    ASSUME JobsInv
    PROVE  /\ worker \in WorkerType /\ Idle \in WorkerType /\ Idle.step = "idle"
           /\ todo \subseteq Jobs /\ after \in Jobs \cup {0} /\ queued \subseteq Jobs
           /\ worker.step # "idle" =>
                 /\ worker.job \in Jobs /\ worker.snap \in Record
                 /\ worker.job \notin vault.active
                 /\ Agrees(vault.records[worker.job])
                 /\ worker.snap.ev = "final" /\ worker.snap.info => worker.snap.as = "failed"
                 /\ worker.step = "finish" => worker.job \in queued
                 /\ worker.step \in {"deliver", "store", "finish"} => worker.snap.ev = "final"
BY DEF JobsInv, TypeOK, WorkerInv, WorkerType, WorkerSteps, Idle

\* StartPass purges and lists the pending jobs.
LEMMA StartPassStep ==
    ASSUME JobsInv, StartPass
    PROVE  JobsInv' /\ Keeps(vault, vault')
<1>. DEFINE v == Purged(vault)
<1>1. /\ up /\ worker = Idle /\ vault' = v /\ todo' \subseteq Jobs
      /\ UNCHANGED <<up, now, phase, kind, queued, resv, worker, after, crashes, faults>>
  BY DEF StartPass, Pending
<1>2. Sound(v, queued) /\ Keeps(vault, v) /\ Shrinks(vault, v)
  BY InvTypes, PurgeKeeps
<1>. HIDE DEF v
<1>3. WorkerFrame
  BY <1>1, InvTypes, WorkerTypes DEF WorkerFrame
<1>4. WorkerInv' /\ Closes(vault, vault') /\ Sound(vault', queued')
  BY <1>1, <1>2, WorkerTypes DEF WorkerInv, Shrinks, Closes
<1>. QED  BY <1>1, <1>2, <1>3, <1>4, WorkerKept

\* Recovery sends a record on by its evidence.
LEMMA RouteSteps ==
    ASSUME NEW r \in Record, r.ev # "none"
    PROVE  /\ Route(r) \in {"close", "queue", "deliver"}
           /\ Route(r) = "deliver" => r.ev = "final"
<1>1. r.ev \in {"reservation", "checkpoint", "final"} /\ r.settled \in BOOLEAN /\ r.feature \in BOOLEAN
  BY RecordFields DEF Evidence
<1>2. CASE r.settled \/ r.ev = "reservation"
  BY <1>1, <1>2 DEF Route
<1>3. CASE ~r.settled /\ r.ev = "checkpoint"
  BY <1>1, <1>3 DEF Route
<1>4. CASE ~r.settled /\ r.ev = "final"
  BY <1>1, <1>4 DEF Route
<1>. QED  BY <1>1, <1>2, <1>3, <1>4

\* TakeJob keeps the invariant: the snapshot agrees with the record.
LEMMA TakeJobStep ==
    ASSUME JobsInv, NEW j \in Jobs, TakeJob(j)
    PROVE  JobsInv' /\ Keeps(vault, vault')
<1>. DEFINE v == Purged(vault)
            r == v.records[j]
            t == [step |-> Route(r), job |-> j, snap |-> r]
<1>1. /\ up /\ vault' = v /\ todo' \subseteq Jobs /\ after' = j
      /\ worker' = IF j \in Pending(v) THEN t ELSE Idle
      /\ UNCHANGED <<up, now, phase, kind, queued, resv, crashes, faults>>
  BY WorkerTypes DEF TakeJob
<1>2. Sound(v, queued) /\ Keeps(vault, v) /\ Shrinks(vault, v)
  BY InvTypes, PurgeKeeps
<1>. HIDE DEF v
<1>3. Closes(vault, vault') /\ Sound(vault', queued') /\ Keeps(vault, vault')
  BY <1>1, <1>2 DEF Shrinks, Closes
<1>4. CASE j \notin Pending(v)
  <2>1. worker' = Idle
    BY <1>1, <1>4
  <2>2. WorkerFrame /\ WorkerInv'
    BY <1>1, <2>1, InvTypes, WorkerTypes DEF WorkerFrame, WorkerInv
  <2>. QED  BY <1>3, <2>2, WorkerKept
<1>5. CASE j \in Pending(v)
  <2>1. r \in Record /\ r.status = "pending" /\ Slot(v, j, queued)
    BY <1>2, <1>5, SoundTypes DEF Pending, Has
  <2>2. /\ r.ev # "none" /\ j \notin v.active
        /\ r.ev = "final" /\ r.info => r.as = "failed"
    BY <1>5, <2>1 DEF Slot, Good, Pending, Has
  <2>3. Route(r) \in {"close", "queue", "deliver"} /\ (Route(r) = "deliver" => r.ev = "final")
    BY <2>1, <2>2, RouteSteps
  <2>4. worker' = t /\ t \in WorkerType /\ t.step \in {"close", "queue", "deliver"}
        /\ t.job = j /\ t.snap = r /\ t.step = Route(r)
    BY <1>1, <1>5, <2>1, <2>3 DEF WorkerType, WorkerSteps
  <2>. HIDE DEF t, r
  <2>5. WorkerFrame
    BY <1>1, <2>4, InvTypes, WorkerTypes DEF WorkerFrame
  <2>6. WorkerInv'
    BY <1>1, <2>1, <2>2, <2>3, <2>4 DEF WorkerInv, Agrees, SameEvidence, r
  <2>. QED  BY <1>3, <2>5, <2>6, WorkerKept
<1>. QED  BY <1>4, <1>5

\* Steps that only move the worker on.
LEMMA DeliverStep ==
    ASSUME JobsInv, NEW answered \in BOOLEAN, Deliver(answered)
    PROVE  JobsInv' /\ Keeps(vault, vault')
<1>. DEFINE s == IF answered THEN "store" ELSE "close"
<1>1. /\ up /\ worker.step = "deliver" /\ worker' = [worker EXCEPT !.step = s]
      /\ UNCHANGED <<vault, up, now, phase, kind, queued, resv, todo, after, crashes, faults>>
  BY DEF Deliver, Working
<1>2. s \in WorkerSteps /\ s # "idle" /\ s # "finish"
  BY DEF WorkerSteps
<1>. HIDE DEF s
<1>3. worker' \in WorkerType /\ worker'.step = s /\ worker'.job = worker.job /\ worker'.snap = worker.snap
  BY <1>1, <1>2, WorkerTypes DEF WorkerType
<1>4. WorkerFrame
  BY <1>1, <1>3, InvTypes, WorkerTypes DEF WorkerFrame
<1>5. WorkerInv'
  BY <1>1, <1>2, <1>3, WorkerTypes DEF WorkerInv, Agrees
<1>6. Closes(vault, vault') /\ Sound(vault', queued') /\ Keeps(vault, vault')
  BY <1>1, InvTypes, KeepsItself DEF Closes, Goes
<1>. QED  BY <1>4, <1>5, <1>6, WorkerKept

\* RecoveryQueues keeps the invariant.
LEMMA RecoveryQueuesStep ==
    ASSUME JobsInv, NEW accepted \in BOOLEAN, RecoveryQueues(accepted)
    PROVE  JobsInv' /\ Keeps(vault, vault')
<1>. DEFINE final == worker.snap.ev = "final"
            s == IF final THEN "finish" ELSE "close"
<1>1. /\ up /\ worker.step = "queue"
      /\ UNCHANGED <<vault, up, now, phase, kind, resv, todo, after, crashes, faults>>
      /\ queued' = IF accepted /\ final THEN queued \cup {worker.job} ELSE queued
      /\ worker' = IF accepted THEN [worker EXCEPT !.step = s] ELSE Idle
  BY DEF RecoveryQueues, Working
<1>2. /\ worker.job \in Jobs /\ Sound(vault, queued) /\ queued \subseteq Jobs
      /\ queued \subseteq queued' /\ queued' \subseteq Jobs
  BY <1>1, InvTypes, WorkerTypes
<1>3. Sound(vault', queued')
  <2>1. CASE queued' = queued
    BY <1>1, <1>2, <2>1
  <2>2. CASE queued' = queued \cup {worker.job}
    BY <1>1, <2>2, InvTypes, SoundQueued
  <2>. QED  BY <1>1, <2>1, <2>2
<1>4. Closes(vault, vault') /\ Keeps(vault, vault')
  BY <1>1, InvTypes, KeepsItself DEF Closes, Goes
<1>5. WorkerFrame /\ WorkerInv'
  <2>1. CASE ~accepted
    <3>1. worker' = Idle
      BY <1>1, <2>1
    <3>. QED  BY <1>1, <1>2, <3>1, InvTypes, WorkerTypes DEF WorkerFrame, WorkerInv
  <2>2. CASE accepted
    <3>1. /\ s \in {"finish", "close"} /\ (s = "finish" => final /\ worker.job \in queued')
      BY <1>1, <2>2
    <3>2. worker' = [worker EXCEPT !.step = s]
      BY <1>1, <2>2
    <3>. HIDE DEF s
    <3>3. /\ worker' \in WorkerType /\ worker'.step = s /\ worker'.job = worker.job
          /\ worker'.snap = worker.snap
      BY <3>1, <3>2, WorkerTypes DEF WorkerType, WorkerSteps
    <3>4. WorkerFrame
      BY <1>1, <1>2, <3>3, InvTypes, WorkerTypes DEF WorkerFrame
    <3>5. WorkerInv'
      BY <1>1, <3>1, <3>3, WorkerTypes DEF WorkerInv, Agrees
    <3>. QED  BY <3>4, <3>5
  <2>. QED  BY <2>1, <2>2
<1>. QED  BY <1>3, <1>4, <1>5, WorkerKept

\* StoreFeature keeps the invariant and the evidence.
LEMMA StoreFeatureStep ==
    ASSUME JobsInv, NEW flt, StoreFeature(flt)
    PROVE  JobsInv' /\ Keeps(vault, vault')
<1>. DEFINE r == [worker.snap EXCEPT !.feature = TRUE]
            u == UpdateReceipt(vault, worker.job, r, flt)
            t == [worker EXCEPT !.step = "queue", !.snap = r]
<1>1. flt \in Faults /\ faults' \in 0..MaxFaults /\ now \in 0..MaxTime
  BY FaultCounted, InvTypes DEF StoreFeature
<1>2. /\ up /\ worker.step = "store" /\ vault' = u.v /\ worker' = IF u.ok THEN t ELSE Idle
      /\ UNCHANGED <<up, now, phase, kind, queued, resv, todo, after, crashes>>
  BY DEF StoreFeature, Working
<1>3. /\ worker.job \in Jobs /\ worker.snap \in Record /\ Agrees(vault.records[worker.job])
      /\ worker.job \notin vault.active /\ worker \in WorkerType
      /\ worker.snap.ev = "final" /\ (worker.snap.info => worker.snap.as = "failed")
  BY <1>2, WorkerTypes
<1>4. r \in Record /\ SameEvidence(r, worker.snap) /\ r.info = worker.snap.info
  BY <1>3 DEF Record, SameEvidence
<1>. HIDE DEF r
<1>a. Has(vault.records, worker.job) /\ vault.records[worker.job].status = "pending" =>
        SameEvidence(r, vault.records[worker.job]) /\ Renews(r, vault.records[worker.job])
  BY <1>3, <1>4 DEF Agrees, Has, Renews, SameEvidence
<1>5. Sound(u.v, queued) /\ Keeps(vault, u.v) /\ Settles(vault, u.v) /\ Closes(vault, u.v)
  BY <1>1, <1>3, <1>4, <1>a, InvTypes, UpdateReceiptKeeps
<1>. HIDE DEF u
<1>6. CASE ~u.ok
  <2>1. worker' = Idle
    BY <1>2, <1>6
  <2>2. WorkerFrame /\ WorkerInv'
    BY <1>1, <1>2, <2>1, InvTypes, WorkerTypes DEF WorkerFrame, WorkerInv
  <2>. QED  BY <1>2, <1>5, <2>2, WorkerKept
<1>7. CASE u.ok
  <2>1. /\ worker' = t /\ t \in WorkerType /\ t.step = "queue" /\ t.job = worker.job /\ t.snap = r
    BY <1>2, <1>3, <1>4, <1>7 DEF WorkerType, WorkerSteps
  <2>. HIDE DEF t
  <2>2. WorkerFrame
    BY <1>1, <1>2, <2>1, InvTypes, WorkerTypes DEF WorkerFrame
  <2>3. WorkerInv'
    <3>1. vault'.records[worker.job] # NoRecord /\ vault'.records[worker.job].status = "pending" =>
            SameEvidence(vault'.records[worker.job], r)
      BY <1>2, <1>3, <1>4, <1>5 DEF Settles, Goes, Agrees, SameEvidence
    <3>2. worker.job \notin vault'.active
      BY <1>2, <1>3, <1>5 DEF Settles
    <3>3. r.ev = "final" /\ (r.info => r.as = "failed")
      BY <1>3, <1>4 DEF SameEvidence
    <3>. QED  BY <1>3, <1>4, <2>1, <3>1, <3>2, <3>3 DEF WorkerInv, Agrees
  <2>. QED  BY <1>2, <1>5, <2>2, <2>3, WorkerKept
<1>. QED  BY <1>6, <1>7

\* RecoveryFinishes keeps the invariant: the feature is queued.
LEMMA RecoveryFinishesStep ==
    ASSUME JobsInv, NEW flt, RecoveryFinishes(flt)
    PROVE  JobsInv' /\ Keeps(vault, vault')
<1>. DEFINE as == worker.snap.as
            f == Finish(vault, worker.job, as, TerminalError(as), flt)
<1>1. flt \in Faults /\ faults' \in 0..MaxFaults /\ now \in 0..MaxTime
  BY FaultCounted, InvTypes DEF RecoveryFinishes
<1>2. /\ up /\ worker.step = "finish" /\ vault' = f.v /\ worker' = Idle
      /\ UNCHANGED <<up, now, phase, kind, queued, resv, todo, after, crashes>>
  BY DEF RecoveryFinishes, Working
<1>3. /\ worker.job \in Jobs /\ worker.snap \in Record /\ Agrees(vault.records[worker.job])
      /\ worker.job \in queued /\ worker.snap.ev = "final"
  BY <1>2, WorkerTypes
<1>4. as \in Terminal /\ TerminalError(as) \in Errors
  BY <1>3, RecordFields, KindErrors
<1>5. Has(vault.records, worker.job) /\ vault.records[worker.job].status = "pending" =>
        vault.records[worker.job].as = as /\ vault.records[worker.job].ev = "final"
  BY <1>3 DEF Agrees, Has, SameEvidence
<1>. HIDE DEF as
<1>6. Sound(f.v, queued) /\ Keeps(vault, f.v) /\ Settles(vault, f.v)
  BY <1>1, <1>3, <1>4, <1>5, InvTypes, FinishKeeps
<1>. HIDE DEF f
<1>7. WorkerFrame /\ WorkerInv'
  BY <1>1, <1>2, InvTypes, WorkerTypes DEF WorkerFrame, WorkerInv
<1>8. Closes(vault, f.v)
  BY <1>6, SettlesCloses
<1>. QED  BY <1>2, <1>6, <1>7, <1>8, WorkerKept

\* The closure of the snapshot's reservation may replace the receipt of the worker's job.
LEMMA ProvenRecord ==
    ASSUME JobsInv, worker.step # "idle", NEW r \in Proven(worker.snap)
    PROVE  /\ r \in Record /\ r.settled = TRUE
           /\ Has(vault.records, worker.job) /\ vault.records[worker.job].status = "pending" =>
                 Renews(r, vault.records[worker.job])
           /\ r.ev = "final" => worker.snap.ev = "final"
           /\ r.as = worker.snap.as
<1>. DEFINE d == worker.snap
<1>1. d \in Record /\ Agrees(vault.records[worker.job]) /\ worker.job \in Jobs
  BY WorkerTypes
<1>2. PICK ev \in (IF d.ev = "final" THEN {"final", "checkpoint"} ELSE {d.ev}) :
        r = [d EXCEPT !.settled = TRUE, !.ev = ev]
  BY DEF Proven
<1>3. ev \in Evidence /\ (ev = "none" => d.ev = "none") /\ (ev = "final" => d.ev = "final")
  BY <1>1, <1>2, RecordFields DEF Evidence
<1>4. /\ r \in Record /\ r.settled = TRUE /\ r.ev = ev /\ r.as = d.as /\ r.att = d.att
  BY <1>1, <1>2, <1>3 DEF Record
<1>5. ASSUME Has(vault.records, worker.job), vault.records[worker.job].status = "pending"
      PROVE  Renews(r, vault.records[worker.job])
  <2>. DEFINE o == vault.records[worker.job]
  <2>1. SameEvidence(o, d)
    BY <1>1, <1>5 DEF Agrees, Has
  <2>2. o.ev # "none"
    BY <1>1, <1>5, InvTypes, SoundTypes DEF Slot, Good, Has
  <2>. HIDE DEF o, d
  <2>3. Renews(r, o)
    BY <1>3, <1>4, <2>1, <2>2 DEF Renews, SameEvidence
  <2>. QED  BY <2>3 DEF o
<1>. QED  BY <1>3, <1>4, <1>5

\* With the closure confirmed, the proof is stored and the job ended in one step.
LEMMA RecoveryClosesStep ==
    ASSUME JobsInv, NEW flt, RecoveryCloses(flt)
    PROVE  JobsInv' /\ Keeps(vault, vault')
<1>. DEFINE j == worker.job
            snap == worker.snap
            ledger == resv[j][snap.att]
            u(r) == UpdateReceipt(vault, j, r, flt)
            f(r) == Finish(u(r).v, j, ClosedStatus(snap), snap.err, flt)
<1>1. flt \in Faults /\ faults' \in 0..MaxFaults /\ now \in 0..MaxTime
  BY FaultCounted, InvTypes DEF RecoveryCloses
<1>2. /\ up /\ worker.step = "close" /\ worker' = Idle
      /\ UNCHANGED <<up, now, phase, kind, queued, resv, todo, after, crashes>>
  BY DEF RecoveryCloses, Working
<1>3. /\ j \in Jobs /\ snap \in Record /\ Agrees(vault.records[j])
      /\ snap.ev = "final" /\ snap.info => snap.as = "failed"
  BY <1>2, WorkerTypes
<1>4. \/ \E r \in Proven(snap) : vault' = IF u(r).ok THEN f(r).v ELSE u(r).v
      \/ vault' = UpdateReceipt(vault, j, snap, flt).v
      \/ vault' = vault
  BY DEF RecoveryCloses
<1>5. Sound(vault', queued) /\ Keeps(vault, vault') /\ Closes(vault, vault')
  <2>1. CASE vault' = vault
    BY <2>1, InvTypes, KeepsItself DEF Closes, Goes
  <2>2. CASE vault' = UpdateReceipt(vault, j, snap, flt).v
    <3>1. Has(vault.records, j) /\ vault.records[j].status = "pending" =>
            Renews(snap, vault.records[j])
      BY <1>3 DEF Agrees, Has, Renews, SameEvidence
    <3>. HIDE DEF j, snap
    <3>. QED  BY <1>1, <1>3, <2>2, <3>1, InvTypes, UpdateReceiptKeeps
  <2>3. ASSUME NEW r \in Proven(snap), vault' = IF u(r).ok THEN f(r).v ELSE u(r).v
        PROVE  Sound(vault', queued) /\ Keeps(vault, vault') /\ Closes(vault, vault')
    <3>. DEFINE w == UpdateReceipt(vault, j, r, flt)
                y == Finish(w.v, j, ClosedStatus(snap), snap.err, flt)
    <3>1. vault' = IF w.ok THEN y.v ELSE w.v
      BY <2>3
    <3>2. /\ r \in Record /\ r.settled = TRUE /\ r.as = snap.as
          /\ r.ev = "final" => snap.ev = "final"
          /\ Has(vault.records, j) /\ vault.records[j].status = "pending" =>
                Renews(r, vault.records[j])
      BY <1>2, <2>3, ProvenRecord
    <3>3. ClosedStatus(snap) \in Terminal /\ snap.err \in Errors
      BY <1>3, RecordFields DEF ClosedStatus, Terminal
    <3>4. snap.ev = "final" => ClosedStatus(snap) = snap.as
      BY <1>3, RecordFields DEF ClosedStatus
    <3>. HIDE DEF j, snap
    <3>5. /\ w.ok \in BOOLEAN /\ Sound(w.v, queued) /\ Keeps(vault, w.v) /\ Closes(vault, w.v)
          /\ w.ok => /\ Has(w.v.records, j) /\ w.v.records[j].status = "pending"
                     /\ SameEvidence(w.v.records[j], r)
                     /\ Pend(vault, j) /\ Mem(vault, j).att = r.att
                     /\ \A i \in Jobs : Pend(vault, i) => Pend(w.v, i)
                     /\ \A i \in Jobs \ {j} : Pend(vault, i) => Mem(w.v, i) = Mem(vault, i)
      BY <1>1, <1>3, <3>2, InvTypes, UpdateReceiptKeeps
    <3>6. CASE ~w.ok
      BY <3>1, <3>5, <3>6
    <3>7. CASE w.ok
      <4>. HIDE DEF w
      <4>1. /\ w.v.records[j].settled /\ w.v.records[j].as = snap.as
            /\ w.v.records[j].ev = "final" => snap.ev = "final"
        BY <3>2, <3>5, <3>7 DEF SameEvidence
      <4>2. Sound(y.v, queued) /\ Keeps(w.v, y.v) /\ Settles(w.v, y.v)
        BY <1>1, <1>3, <3>3, <3>4, <3>5, <3>7, <4>1, FinishKeeps
      <4>. HIDE DEF y
      <4>3. Closes(vault, y.v)
        BY <3>5, <4>2, SettlesCloses
      <4>4. ASSUME NEW i \in Jobs, Pend(vault, i)
            PROVE  y.v.disk[i] # NoRecord /\ Supersedes(y.v.disk[i], Mem(vault, i))
        <5>1. y.v.disk[i] # NoRecord /\ Supersedes(y.v.disk[i], Mem(w.v, i))
          BY <3>5, <3>7, <4>2, <4>4 DEF Keeps
        <5>2. CASE i # j
          BY <3>5, <3>7, <4>4, <5>1, <5>2
        <5>3. CASE i = j
          <6>1. Mem(w.v, j) = w.v.records[j]
            BY <3>5, <3>7 DEF Mem, Has
          <6>2. Mem(w.v, j).settled /\ Mem(w.v, j).att = Mem(vault, j).att
            BY <3>5, <3>7, <4>1, <6>1 DEF SameEvidence
          <6>3. Supersedes(y.v.disk[j], Mem(w.v, j))
            BY <5>1, <5>3
          <6>4. Supersedes(y.v.disk[j], Mem(vault, j))
            BY <6>2, <6>3 DEF Supersedes
          <6>. QED  BY <5>1, <5>3, <6>4
        <5>. QED  BY <5>2, <5>3
      <4>5. Keeps(vault, y.v)
        BY <4>4 DEF Keeps
      <4>. QED  BY <3>1, <3>7, <4>2, <4>3, <4>5
    <3>. QED  BY <3>5, <3>6, <3>7
  <2>. QED  BY <1>4, <2>1, <2>2, <2>3
<1>6. WorkerFrame /\ WorkerInv'
  BY <1>1, <1>2, InvTypes, WorkerTypes DEF WorkerFrame, WorkerInv
<1>. QED  BY <1>2, <1>5, <1>6, WorkerKept

----------------------------------------------------------------------------
(* The ledger, the clock, crash and restart.                               *)

\* Nothing the invariant speaks of changes.
LEMMA OutsideStep ==
    ASSUME JobsInv,
           UNCHANGED <<vault, up, phase, kind, queued, worker, todo, after, crashes, faults>>,
           resv' \in ResvType, now' \in 0..MaxTime
    PROVE  JobsInv'
<1>1. TypeOK' /\ DownInv'
  BY DEF JobsInv, TypeOK, DownInv, ResvType
<1>2. (\A i \in Jobs : PhaseOf(i)') /\ WorkerInv' /\ Sound(vault, queued)'
  BY DEF JobsInv, PhaseOf, WorkerInv, Agrees
<1>. QED  BY <1>1, <1>2 DEF JobsInv

\* The files alone make a sound vault.
LEMMA DiskAlone ==
    ASSUME NEW v, NEW Q, Sound(v, Q)
    PROVE  LET w == [EmptyVault EXCEPT !.disk = v.disk] IN
           /\ Sound(w, Q) /\ w.disk = v.disk /\ w.active = {}
           /\ \A i \in Jobs : w.records[i] = NoRecord /\ w.recovery[i] = NoRecord
<1>. DEFINE w == [EmptyVault EXCEPT !.disk = v.disk]
<1>1. /\ w \in VaultType /\ w.disk = v.disk /\ w.active = {} /\ w.reconciling = {}
      /\ w.records = [j \in Jobs |-> NoRecord] /\ w.recovery = [j \in Jobs |-> NoRecord]
      /\ w.sealed = [j \in Jobs |-> 0]
  BY SMTT(30) DEF Sound, VaultType, Slots, EmptyVault
<1>. HIDE DEF w
<1>2. ASSUME NEW i \in Jobs
      PROVE  /\ Slot(w, i, Q) /\ w.records[i] = NoRecord /\ w.recovery[i] = NoRecord
  <2>1. /\ w.records[i] = NoRecord /\ w.recovery[i] = NoRecord /\ w.sealed[i] = 0
        /\ Good(i, v.disk[i], Q) /\ ~Pend(w, i)
    BY <1>1 DEF Pend, Mem, Sound, Slot
  <2>. QED  BY <1>1, <2>1 DEF Slot, Good
<1>3. Sound(w, Q)
  BY <1>1, <1>2 DEF Sound
<1>. QED  BY <1>1, <1>2, <1>3 DEF w

\* A crash, also between the two writes of a closure, keeps files and evidence.
LEMMA CrashStep ==
    ASSUME JobsInv, NEW closing \in BOOLEAN, Crash(closing)
    PROVE  JobsInv' /\ Keeps(vault, vault')
<1>0. /\ up' = FALSE
      /\ phase' = [j \in Jobs |-> "idle"] /\ worker' = Idle /\ todo' = {} /\ after' = 0
      /\ crashes' = crashes + 1 /\ crashes < MaxCrashes
      /\ UNCHANGED <<now, kind, queued, resv, faults>>
  BY DEF Crash
<1>1. \E x : /\ vault' = [EmptyVault EXCEPT !.disk = x.disk]
             /\ Sound(x, queued) /\ Keeps(vault, x)
  <2>1. CASE vault' = [EmptyVault EXCEPT !.disk = vault.disk]
    BY <2>1, InvTypes, KeepsItself
  <2>2. ASSUME worker.step = "close", NEW r \in Proven(worker.snap),
               vault' = [EmptyVault EXCEPT
                           !.disk = UpdateReceipt(vault, worker.job, r, "none").v.disk]
        PROVE  \E x : /\ vault' = [EmptyVault EXCEPT !.disk = x.disk]
                      /\ Sound(x, queued) /\ Keeps(vault, x)
    <3>. DEFINE w == UpdateReceipt(vault, worker.job, r, "none")
    <3>1. /\ worker.job \in Jobs /\ r \in Record
          /\ Has(vault.records, worker.job) /\ vault.records[worker.job].status = "pending" =>
                Renews(r, vault.records[worker.job])
      BY <2>2, WorkerTypes, ProvenRecord
    <3>2. Sound(w.v, queued) /\ Keeps(vault, w.v)
      BY <3>1, InvTypes, UpdateReceiptKeeps DEF Faults
    <3>3. vault' = [EmptyVault EXCEPT !.disk = w.v.disk]
      BY <2>2
    <3>. HIDE DEF w
    <3>. QED  BY <3>2, <3>3
  <2>3. \/ vault' = [EmptyVault EXCEPT !.disk = vault.disk]
        \/ /\ worker.step = "close"
           /\ \E r \in Proven(worker.snap) :
                 vault' = [EmptyVault EXCEPT
                             !.disk = UpdateReceipt(vault, worker.job, r, "none").v.disk]
    BY DEF Crash, Working
  <2>. QED  BY <2>1, <2>2, <2>3
<1>2. PICK x : /\ vault' = [EmptyVault EXCEPT !.disk = x.disk]
               /\ Sound(x, queued) /\ Keeps(vault, x)
  BY <1>1
<1>3. /\ Sound(vault', queued) /\ vault'.disk = x.disk
      /\ \A i \in Jobs : vault'.records[i] = NoRecord /\ vault'.recovery[i] = NoRecord
  BY <1>2, DiskAlone
<1>4. TypeOK'
  <2>1. crashes' \in 0..MaxCrashes
    BY <1>0, InvTypes, JobsAssumption
  <2>2. vault' \in VaultType /\ phase' \in [Jobs -> Phases]
    BY <1>0, <1>3 DEF Sound, Phases
  <2>3. worker' \in WorkerType
    BY <1>0, WorkerTypes
  <2>. QED  BY <1>0, <2>1, <2>2, <2>3 DEF JobsInv, TypeOK, VaultType, WorkerType
<1>5. (\A i \in Jobs : PhaseOf(i)') /\ WorkerInv' /\ DownInv'
  BY <1>0, WorkerTypes DEF PhaseOf, WorkerInv, DownInv
<1>6. Sound(vault, queued)' /\ Keeps(vault, vault')
  BY <1>0, <1>2, <1>3 DEF Keeps
<1>. QED  BY <1>4, <1>5, <1>6 DEF JobsInv

\* A restart loses no pending file.
LEMMA RestartStep ==
    ASSUME JobsInv, Restart
    PROVE  /\ JobsInv'
           /\ \A i \in Jobs : vault.disk[i] # NoRecord /\ vault.disk[i].status = "pending" =>
                 vault'.disk[i] # NoRecord /\ Supersedes(vault'.disk[i], vault.disk[i])
<1>1. /\ ~up /\ vault' = Load(vault).v /\ up' = TRUE
      /\ UNCHANGED <<now, phase, kind, queued, resv, worker, todo, after, crashes, faults>>
  BY DEF Restart, recoveryVars
<1>2. /\ Sound(vault', queued)
      /\ \A i \in Jobs : vault.disk[i] # NoRecord /\ vault.disk[i].status = "pending" =>
            vault'.disk[i] # NoRecord /\ Supersedes(vault'.disk[i], vault.disk[i])
  BY <1>1, InvTypes, LoadKeeps
<1>3. worker = Idle /\ \A i \in Jobs : phase[i] = "idle"
  BY <1>1 DEF JobsInv, DownInv
<1>4. TypeOK' /\ DownInv'
  BY <1>1, <1>2 DEF JobsInv, TypeOK, DownInv, Sound, VaultType
<1>5. (\A i \in Jobs : PhaseOf(i)') /\ WorkerInv' /\ Sound(vault, queued)'
  BY <1>1, <1>2, <1>3, WorkerTypes DEF PhaseOf, WorkerInv
<1>. QED  BY <1>2, <1>4, <1>5 DEF JobsInv

----------------------------------------------------------------------------
(* The theorems.                                                           *)

\* The initial states satisfy the invariant.
LEMMA InitHolds == Init => JobsInv
<1>. SUFFICES ASSUME Init
              PROVE  JobsInv
  OBVIOUS
<1>1. Sound(EmptyVault, {})
  <2>1. EmptyVault \in VaultType
    BY DEF EmptyVault, VaultType, Slots
  <2>2. ASSUME NEW i \in Jobs
        PROVE  Slot(EmptyVault, i, {})
    BY DEF EmptyVault, Slot, Good, Pend, Mem
  <2>. QED  BY <2>1, <2>2 DEF Sound
<1>2. TypeOK
  BY <1>1, JobsAssumption
     DEF Init, TypeOK, Sound, VaultType, Phases, Terminal, WorkerSteps, Idle, Unreserved
<1>3. (\A i \in Jobs : PhaseOf(i)) /\ WorkerInv /\ DownInv
  BY DEF Init, PhaseOf, WorkerInv, DownInv, Idle
<1>. QED  BY <1>1, <1>2, <1>3 DEF Init, JobsInv

\* A step while the gateway runs keeps what it relies on.
Steady == up /\ Keeps(vault, vault')

\* While it is down, what is pending on disk stays there.
Dormant ==
    /\ ~up
    /\ \A i \in Jobs : vault.disk[i] # NoRecord /\ vault.disk[i].status = "pending" =>
          vault'.disk[i] # NoRecord /\ Supersedes(vault'.disk[i], vault.disk[i])

\* Every step of a request keeps the invariant.
LEMMA RequestStep ==
    ASSUME JobsInv, ReuseEarly = FALSE, NEW j \in Jobs, Request(j)
    PROVE  JobsInv' /\ Steady
<1>0. up
  BY DEF Request, Submit, Dispatch, Checkpoint, CheckpointHandoff, CompleteUnpaid, Handoff,
         FinishRequest, Stage, EndRequest, QueueFeature, Break, Remove, At
<1>1. JobsInv' /\ Keeps(vault, vault')
  <2>1. ASSUME NEW flt \in Faults, Submit(j, flt)
        PROVE  JobsInv' /\ Keeps(vault, vault')
    BY <2>1, SubmitStep
  <2>2. ASSUME NEW flt \in Faults, NEW k \in Outcomes, Stage(j, k, flt)
        PROVE  JobsInv' /\ Keeps(vault, vault')
    BY <2>2, StageStep
  <2>3. ASSUME NEW flt \in Faults, NEW c \in BOOLEAN, EndRequest(j, c, flt)
        PROVE  JobsInv' /\ Keeps(vault, vault')
    BY <2>3, EndRequestStep
  <2>4. ASSUME NEW b \in BOOLEAN, Remove(j, b)
        PROVE  JobsInv' /\ Keeps(vault, vault')
    BY <2>4, RemoveStep
  <2>. QED  BY <2>1, <2>2, <2>3, <2>4, DispatchStep, CheckpointStep, CheckpointHandoffStep,
               CompleteUnpaidStep, HandoffStep, FinishRequestStep, QueueFeatureStep, BreakStep
            DEF Request
<1>. QED  BY <1>0, <1>1 DEF Steady

\* Every step of recovery keeps the invariant.
LEMMA RecoveryStep ==
    ASSUME JobsInv, Recovery
    PROVE  JobsInv' /\ Steady
<1>0. up
  BY DEF Recovery, StartPass, TakeJob, Deliver, RecoveryQueues, StoreFeature, RecoveryFinishes,
         RecoveryCloses, Working
<1>1. JobsInv' /\ Keeps(vault, vault')
  BY StartPassStep, TakeJobStep, DeliverStep, RecoveryQueuesStep, StoreFeatureStep,
     RecoveryFinishesStep, RecoveryClosesStep DEF Recovery
<1>. QED  BY <1>0, <1>1 DEF Steady

\* A step that leaves the vault alone loses nothing.
LEMMA VaultUntouched ==
    ASSUME JobsInv, vault' = vault
    PROVE  Steady \/ Dormant
<1>1. up \in BOOLEAN
  BY DEF JobsInv, TypeOK
<1>2. CASE up
  BY <1>2, InvTypes, KeepsItself DEF Steady
<1>3. CASE ~up
  <2>1. ASSUME NEW i \in Jobs, vault.disk[i] # NoRecord
        PROVE  Supersedes(vault.disk[i], vault.disk[i])
    BY <2>1, InvTypes, SoundTypes, SupersedesItself
  <2>. QED  BY <1>3, <2>1 DEF Dormant
<1>. QED  BY <1>1, <1>2, <1>3

\* Every step keeps the invariant.
LEMMA NextStep ==
    ASSUME JobsInv, ReuseEarly = FALSE, [Next]_vars
    PROVE  JobsInv' /\ (Steady \/ Dormant)
<1>1. ASSUME NEW j \in Jobs, Request(j)
      PROVE  JobsInv' /\ (Steady \/ Dormant)
  BY <1>1, RequestStep
<1>2. ASSUME NEW j \in Jobs, NEW a \in 0..MaxAttempts,
             ReservationExpires(j, a) \/ ReservationCloses(j, a)
      PROVE  JobsInv' /\ (Steady \/ Dormant)
  <2>1. /\ UNCHANGED <<vault, up, now, phase, kind, queued, worker, todo, after, crashes, faults>>
        /\ resv' \in ResvType
    <3>1. \E e \in {"expired", "closed"} : resv' = [resv EXCEPT ![j][a] = e]
      BY <1>2 DEF ReservationExpires, ReservationCloses
    <3>2. resv' \in ResvType
      BY <3>1, InvTypes DEF ResvType
    <3>. QED  BY <1>2, <3>2 DEF ReservationExpires, ReservationCloses, recoveryVars
  <2>. QED  BY <2>1, InvTypes, OutsideStep, VaultUntouched
<1>3. CASE Recovery
  BY <1>3, RecoveryStep
<1>4. CASE Tick
  <2>1. /\ UNCHANGED <<vault, up, phase, kind, queued, resv, worker, todo, after, crashes, faults>>
        /\ now' \in 0..MaxTime
    BY <1>4, InvTypes, JobsAssumption DEF Tick, recoveryVars
  <2>. QED  BY <2>1, InvTypes, OutsideStep, VaultUntouched
<1>5. CASE Restart
  <2>1. ~up
    BY <1>5 DEF Restart
  <2>. QED  BY <1>5, <2>1, RestartStep DEF Dormant
<1>6. ASSUME NEW b \in BOOLEAN, Crash(b)
      PROVE  JobsInv' /\ (Steady \/ Dormant)
  <2>1. up
    BY <1>6 DEF Crash
  <2>. QED  BY <1>6, <2>1, CrashStep DEF Steady
<1>7. CASE UNCHANGED vars
  <2>1. UNCHANGED <<vault, up, now, phase, kind, queued, resv, worker, todo, after, crashes, faults>>
    BY <1>7 DEF vars
  <2>. QED  BY <2>1, InvTypes, OutsideStep, VaultUntouched
<1>. QED  BY <1>1, <1>2, <1>3, <1>4, <1>5, <1>6, <1>7 DEF Next

\* The inductive invariant: every slot is sound, staged requests and the worker agree with
\* the records they act on, and nothing runs while the gateway is down.
THEOREM JobsInvariant ==
    ASSUME ReuseEarly = FALSE
    PROVE  Spec => []JobsInv
<1>1. JobsInv /\ [Next]_vars => JobsInv'
  BY NextStep
<1>. QED  BY <1>1, InitHolds, PTL DEF Spec

\* The variables of the gateway keep their types; in particular every record in memory and
\* on disk is well formed after any crash and any disk fault.
THEOREM JobsTyped ==
    ASSUME ReuseEarly = FALSE
    PROVE  Spec => []TypeOK
<1>1. JobsInv => TypeOK
  BY DEF JobsInv
<1>. QED  BY <1>1, JobsInvariant, PTL

\* A job with evidence ends only after its receipt was queued or its closure was proved,
\* for any number of jobs, crashes and disk faults.
THEOREM SettledFirst ==
    ASSUME ReuseEarly = FALSE
    PROVE  Spec => []SettledBeforeTerminal
<1>1. JobsInv => SettledBeforeTerminal
  BY DEF JobsInv, Sound, Slot, Good, SettledBeforeTerminal, Terminal
<1>. QED  BY <1>1, JobsInvariant, PTL

\* Whoever finishes a job, request, worker or closure, it ends as its receipt was staged.
THEOREM EndsStaged ==
    ASSUME ReuseEarly = FALSE
    PROVE  Spec => []EndsAsStaged
<1>1. JobsInv => EndsAsStaged
  BY DEF JobsInv, Sound, Slot, Good, EndsAsStaged, Terminal
<1>. QED  BY <1>1, JobsInvariant, PTL

\* Evidence the gateway relies on stays on disk, or what supersedes it, through every step of
\* requests and their failover, recovery, eviction, expiry, crash and restart.
THEOREM EvidenceIsKept ==
    ASSUME ReuseEarly = FALSE
    PROVE  Spec => EvidenceKept
<1>1. JobsInv /\ (Steady \/ Dormant) =>
        \A j \in Jobs : Relied(j) # NoRecord =>
          (Relied(j).status = "pending" =>
             /\ vault'.disk[j] # NoRecord
             /\ Supersedes(vault'.disk[j], Relied(j)))
  BY DEF Steady, Dormant, Keeps, Pend, Mem, Relied, Has
<1>2. JobsInv /\ [Next]_vars => Steady \/ Dormant
  BY NextStep
<1>. QED  BY <1>1, <1>2, JobsInvariant, PTL DEF Spec, EvidenceKept

\* Only the admission of a key opens an execution.
LEMMA OnlySubmitOpens ==
    ASSUME JobsInv, [Next]_vars, NEW j \in Jobs, phase[j] = "idle", phase'[j] = "open"
    PROVE  \E flt \in Faults : Submit(j, flt)
<1>0. phase \in [Jobs -> Phases]
  BY InvTypes
<1>1. ASSUME NEW i \in Jobs, NEW flt \in Faults,
             \/ Dispatch(i, flt) \/ Checkpoint(i, flt) \/ CheckpointHandoff(i, flt)
             \/ CompleteUnpaid(i, flt) \/ Handoff(i, flt) \/ FinishRequest(i, flt)
      PROVE  FALSE
  BY <1>0, <1>1 DEF Dispatch, Checkpoint, CheckpointHandoff, CompleteUnpaid, Handoff,
                    FinishRequest, Goto
<1>2. ASSUME NEW i \in Jobs, NEW flt \in Faults, NEW k \in Outcomes, Stage(i, k, flt)
      PROVE  FALSE
  BY <1>0, <1>2 DEF Stage, Goto
<1>3. ASSUME NEW i \in Jobs, NEW flt \in Faults, NEW c \in BOOLEAN, EndRequest(i, c, flt)
      PROVE  FALSE
  BY <1>0, <1>3 DEF EndRequest, Goto
<1>4. ASSUME NEW i \in Jobs, QueueFeature(i) \/ Break(i)
      PROVE  FALSE
  BY <1>0, <1>4 DEF QueueFeature, Break, Goto
<1>5. ASSUME NEW i \in Jobs, NEW b \in BOOLEAN, Remove(i, b)
      PROVE  FALSE
  BY <1>5 DEF Remove
<1>6. ASSUME NEW i \in Jobs, NEW flt \in Faults, Submit(i, flt)
      PROVE  i = j
  BY <1>0, <1>6 DEF Submit, Goto
<1>7. ASSUME NEW i \in Jobs, NEW a \in 0..MaxAttempts,
             ReservationExpires(i, a) \/ ReservationCloses(i, a)
      PROVE  FALSE
  BY <1>7 DEF ReservationExpires, ReservationCloses
<1>8. ~Recovery
  BY DEF Recovery, StartPass, TakeJob, Deliver, RecoveryQueues, StoreFeature, RecoveryFinishes,
         RecoveryCloses
<1>9. ~Tick /\ ~Restart /\ ~UNCHANGED vars
  BY DEF Tick, Restart, vars
<1>10. ASSUME NEW b \in BOOLEAN, Crash(b)
       PROVE  FALSE
  BY <1>10 DEF Crash
<1>11. PICK i \in Jobs : Request(i)
  BY <1>7, <1>8, <1>9, <1>10 DEF Next
<1>12. \E flt \in Faults : Submit(i, flt)
  BY <1>1, <1>2, <1>3, <1>4, <1>5, <1>11 DEF Request
<1>. QED  BY <1>6, <1>12

\* A key runs again only after the file of its earlier job has gone or has ended and
\* expired, also after failed writes, failed unlinks and crashes.
THEOREM RunsOnce ==
    ASSUME ReuseEarly = FALSE
    PROVE  Spec => NoSecondExecution
<1>1. ASSUME JobsInv, [Next]_vars, NEW j \in Jobs, phase[j] = "idle", phase'[j] = "open",
             vault.disk[j] # NoRecord
      PROVE  vault.disk[j].status # "pending" /\ vault.disk[j].fin + Ttl <= now
  <2>1. PICK flt \in Faults : Submit(j, flt)
    BY <1>1, OnlySubmitOpens
  <2>2. Purged(vault).disk[j] = NoRecord
    BY <1>1, <2>1, SubmitStep
  <2>3. vault \in VaultType /\ \A i \in Jobs : i \in vault.reconciling => vault.records[i].status = "pending"
    BY <1>1 DEF JobsInv, Sound, Slot
  <2>4. /\ Trimmed(vault, Purged(vault), Jobs)
        /\ \A i \in Jobs : Evicted(vault, Purged(vault), i) =>
              vault.records[i].status # "pending" /\ vault.records[i].fin + Ttl <= now
    BY <2>3, PurgedTrims
  <2>5. Evicted(vault, Purged(vault), j)
    BY <1>1, <2>2, <2>4 DEF Trimmed, Same
  <2>6. vault.records[j] # NoRecord /\ vault.records[j].status # "pending"
        /\ vault.records[j].fin + Ttl <= now
    BY <2>4, <2>5 DEF Evicted
  <2>7. vault.disk[j] = vault.records[j]
    BY <1>1, <2>6 DEF JobsInv, Sound, Slot
  <2>. QED  BY <2>6, <2>7
<1>2. JobsInv /\ [Next]_vars =>
        \A j \in Jobs : phase[j] = "idle" /\ phase'[j] = "open" =>
            (vault.disk[j] # NoRecord =>
                vault.disk[j].status # "pending" /\ vault.disk[j].fin + Ttl <= now)
  BY <1>1
<1>. QED  BY <1>2, JobsInvariant, PTL DEF Spec, NoSecondExecution

----------------------------------------------------------------------------
(* The life of a job in a vault.                                           *)

\* LifeOf for the vault v of a gateway that runs (u) or not, at time n.
LifeIn(v, u, n, i) ==
    IF u /\ v.recovery[i] # NoRecord
    THEN IF v.recovery[i].ev = "none" THEN "accepted" ELSE "running"
    ELSE IF v.disk[i] = NoRecord THEN "free"
    ELSE IF v.disk[i].status # "pending" /\ v.disk[i].fin + Ttl <= n THEN "free"
    ELSE v.disk[i].status

Lives == {"free", "accepted", "running", "pending"} \cup Terminal

\* The moves of JobLifecycle.
Move(a, b) ==
    \/ a = b
    \/ a = "free" /\ b = "accepted"
    \/ a = "accepted" /\ b \in {"running", "free"} \cup Terminal
    \/ a = "running" /\ b = "pending"
    \/ a = "pending" /\ b \in Terminal
    \/ a \in Terminal /\ b = "free"

\* The moves are those of JobLifecycle.
LEMMA MoveAllowed ==
    ASSUME NEW a \in Lives, NEW b \in Lives, Move(a, b)
    PROVE  b \in Lifecycle!Moves[a]
BY DEF Lives, Terminal, Move, Lifecycle!Moves, Lifecycle!Ended

\* LifeOf looks at the vault as it stands.
LEMMA LifeIsIn ==
    ASSUME NEW i \in Jobs
    PROVE  LifeOf(i) = LifeIn(vault, up, now, i)
BY DEF LifeOf, LifeIn, Has

\* The life of a job is one of the lifecycle's.
LEMMA LifeRange ==
    ASSUME NEW v, NEW Q, Sound(v, Q), NEW u \in BOOLEAN, NEW n, NEW i \in Jobs
    PROVE  LifeIn(v, u, n, i) \in Lives
<1>1. v.disk[i] # NoRecord => v.disk[i].status \in Statuses
  BY SoundTypes, RecordFields
<1>. QED  BY <1>1 DEF LifeIn, Lives, Statuses

\* If every job moves, the step is one of the lifecycle.
LEMMA MovesRefine ==
    ASSUME Sound(vault, queued), up \in BOOLEAN, Sound(vault', queued'), up' \in BOOLEAN,
           \A i \in Jobs : Move(LifeIn(vault, up, now, i), LifeIn(vault', up', now', i))
    PROVE  Lifecycle!LifeNext
<1>. DEFINE life == [j \in Jobs |-> LifeOf(j)]
<1>1. ASSUME NEW i \in Jobs
      PROVE  life'[i] \in Lifecycle!Moves[life[i]]
  <2>1. /\ life[i] = LifeIn(vault, up, now, i)
        /\ life'[i] = LifeIn(vault', up', now', i)
    BY DEF LifeOf, LifeIn, Has
  <2>2. LifeIn(vault, up, now, i) \in Lives /\ LifeIn(vault', up', now', i) \in Lives
    BY LifeRange
  <2>. QED  BY <2>1, <2>2, MoveAllowed
<1>2. DOMAIN life' = Jobs
  OBVIOUS
<1>. QED  BY <1>1, <1>2 DEF Lifecycle!LifeNext

----------------------------------------------------------------------------
(* Slots that move.                                                        *)

\* Without faults the file of a job is the copy in memory.
Mirror(v) == \A i \in Jobs : v.disk[i] = Mem(v, i)

MoveAt(v, w, i) ==
    Move(LifeIn(v, TRUE, now, i), LifeIn(w, TRUE, now, i)) /\ w.disk[i] = Mem(w, i)

\* A slot left alone leaves the life alone.
LEMMA SameMoves ==
    ASSUME NEW v, NEW w, NEW i \in Jobs, Mirror(v), Same(v, w, i)
    PROVE  MoveAt(v, w, i) /\ LifeIn(w, TRUE, now, i) = LifeIn(v, TRUE, now, i)
<1>1. w.recovery[i] = v.recovery[i] /\ w.disk[i] = v.disk[i] /\ Mem(w, i) = Mem(v, i)
  BY DEF Same, MemorySame, Mem
<1>2. LifeIn(w, TRUE, now, i) = LifeIn(v, TRUE, now, i)
  BY <1>1 DEF LifeIn
<1>. QED  BY <1>1, <1>2 DEF MoveAt, Move, Mirror

\* An evicted record frees its job.
LEMMA EvictedMoves ==
    ASSUME NEW v, NEW w, NEW Q, Sound(v, Q), NEW i \in Jobs, Mirror(v), Evicted(v, w, i)
    PROVE  MoveAt(v, w, i) /\ LifeIn(w, TRUE, now, i) = "free"
<1>1. /\ v.records[i] \in Record /\ v.records[i].status # "pending" /\ v.recovery[i] = NoRecord
      /\ v.disk[i] = v.records[i] /\ v.records[i] # NoRecord
  BY SoundTypes DEF Evicted, Slot, Mirror, Mem
<1>2. v.records[i].status \in Terminal
  BY <1>1, RecordFields DEF Statuses
<1>3. LifeIn(v, TRUE, now, i) \in {"free"} \cup Terminal
  BY <1>1, <1>2 DEF LifeIn
<1>4. w.recovery[i] = NoRecord /\ w.disk[i] = NoRecord /\ Mem(w, i) = NoRecord
  BY <1>1 DEF Evicted, Mem
<1>5. LifeIn(w, TRUE, now, i) = "free"
  BY <1>4 DEF LifeIn
<1>. QED  BY <1>3, <1>4, <1>5 DEF MoveAt, Move

\* Trimming makes allowed moves.
LEMMA TrimMoves ==
    ASSUME NEW v, NEW w, NEW Q, Sound(v, Q), Mirror(v), NEW S \in SUBSET Jobs, Trimmed(v, w, S)
    PROVE  \A i \in S : MoveAt(v, w, i)
BY SameMoves, EvictedMoves DEF Trimmed

\* Two trims are one.
LEMMA TrimTwice ==
    ASSUME NEW v, NEW m, NEW w, NEW S \in SUBSET Jobs, Trimmed(v, m, S), Trimmed(m, w, S)
    PROVE  Trimmed(v, w, S)
<1>1. ASSUME NEW i \in S
      PROVE  Same(v, w, i) \/ Evicted(v, w, i)
  <2>1. (Same(v, m, i) \/ Evicted(v, m, i)) /\ (Same(m, w, i) \/ Evicted(m, w, i))
    BY DEF Trimmed
  <2>. QED  BY <2>1 DEF Same, MemorySame, Evicted
<1>. QED  BY <1>1 DEF Trimmed

\* A record that takes the place of a running job's copy, or of a pending record.
Succeeds(v, j, r) ==
    /\ r \in Record
    /\ \/ /\ v.recovery[j] # NoRecord
          /\ v.recovery[j].ev = "none" => r.status # "pending"
          /\ v.recovery[j].ev # "none" => r.status = "pending"
       \/ /\ v.records[j] # NoRecord /\ v.records[j].status = "pending"
          /\ r.status # "pending" => r.fin = now

\* A record that may follow makes an allowed move.
LEMMA RecordedMoves ==
    ASSUME NEW v, NEW w, NEW Q, Sound(v, Q), Mirror(v), now \in 0..MaxTime,
           NEW j \in Jobs, NEW r, Succeeds(v, j, r), Recorded(w, j, r)
    PROVE  MoveAt(v, w, j) /\ (r.status = "pending" => LifeIn(w, TRUE, now, j) = "pending")
<1>1. r # NoRecord /\ r.status \in Statuses /\ r.fin \in 0..MaxTime
  BY RecordFields DEF Succeeds
<1>2. w.recovery[j] = NoRecord /\ w.disk[j] = r /\ Mem(w, j) = r
  BY <1>1 DEF Recorded, Mem
<1>3. LifeIn(w, TRUE, now, j) =
        IF r.status # "pending" /\ r.fin + Ttl <= now THEN "free" ELSE r.status
  BY <1>1, <1>2 DEF LifeIn
<1>4. CASE /\ v.recovery[j] # NoRecord
           /\ v.recovery[j].ev = "none" => r.status # "pending"
           /\ v.recovery[j].ev # "none" => r.status = "pending"
  <2>1. CASE v.recovery[j].ev = "none"
    <3>1. LifeIn(v, TRUE, now, j) = "accepted" /\ r.status \in Terminal
      BY <1>1, <1>4, <2>1 DEF LifeIn, Statuses
    <3>. QED  BY <1>2, <1>3, <1>4, <2>1, <3>1 DEF MoveAt, Move
  <2>2. CASE v.recovery[j].ev # "none"
    <3>1. LifeIn(v, TRUE, now, j) = "running" /\ LifeIn(w, TRUE, now, j) = "pending"
      BY <1>3, <1>4, <2>2 DEF LifeIn
    <3>. QED  BY <1>2, <3>1 DEF MoveAt, Move
  <2>. QED  BY <2>1, <2>2
<1>5. CASE /\ v.records[j] # NoRecord /\ v.records[j].status = "pending"
           /\ r.status # "pending" => r.fin = now
  <2>1. v.recovery[j] = NoRecord /\ v.disk[j] = v.records[j]
    BY <1>5, SoundTypes DEF Slot, Mirror, Mem
  <2>2. LifeIn(v, TRUE, now, j) = "pending"
    BY <1>5, <2>1 DEF LifeIn
  <2>3. r.status # "pending" => ~(r.fin + Ttl <= now)
    BY <1>5, JobsAssumption
  <2>4. LifeIn(w, TRUE, now, j) = r.status
    BY <1>3, <2>3
  <2>. QED  BY <1>1, <1>2, <2>2, <2>4 DEF MoveAt, Move, Statuses
<1>. QED  BY <1>4, <1>5 DEF Succeeds

\* A copy of a running job that is replaced, or the first one.
LEMMA ProtectedMoves ==
    ASSUME NEW v, NEW w, NEW Q, Sound(v, Q), Mirror(v), NEW j \in Jobs, NEW r \in Record,
           v.records[j] = NoRecord, Protected(v, w, j, r),
           \/ v.recovery[j] # NoRecord /\ r.ev # "none"
           \/ v.recovery[j] = NoRecord /\ r.ev = "none"
    PROVE  MoveAt(v, w, j)
<1>1. r # NoRecord
  BY RecordFields
<1>2. w.recovery[j] = r /\ w.disk[j] = r /\ Mem(w, j) = r
  BY <1>1 DEF Protected, Mem
<1>3. CASE v.recovery[j] # NoRecord /\ r.ev # "none"
  <2>1. LifeIn(w, TRUE, now, j) = "running" /\ LifeIn(v, TRUE, now, j) \in {"accepted", "running"}
    BY <1>1, <1>2, <1>3 DEF LifeIn
  <2>. QED  BY <1>2, <2>1 DEF MoveAt, Move
<1>4. CASE v.recovery[j] = NoRecord /\ r.ev = "none"
  <2>1. v.disk[j] = NoRecord
    BY <1>4 DEF Mirror, Mem
  <2>2. LifeIn(w, TRUE, now, j) = "accepted" /\ LifeIn(v, TRUE, now, j) = "free"
    BY <1>1, <1>2, <1>4, <2>1 DEF LifeIn
  <2>. QED  BY <1>2, <2>2 DEF MoveAt, Move
<1>. QED  BY <1>3, <1>4

\* Expiry: an expired record was free before it went.
LEMMA PurgeLives ==
    ASSUME NEW v, NEW Q, Sound(v, Q), Mirror(v)
    PROVE  /\ Mirror(Purged(v)) /\ Trimmed(v, Purged(v), Jobs)
           /\ \A i \in Jobs : LifeIn(Purged(v), TRUE, now, i) = LifeIn(v, TRUE, now, i)
<1>. DEFINE w == Purged(v)
<1>1. v \in VaultType /\ \A i \in Jobs : i \in v.reconciling => v.records[i].status = "pending"
  BY DEF Sound, Slot
<1>2. /\ Trimmed(v, w, Jobs)
      /\ \A i \in Jobs : Evicted(v, w, i) =>
            v.records[i].status # "pending" /\ v.records[i].fin + Ttl <= now
  BY <1>1, PurgedTrims
<1>. HIDE DEF w
<1>3. ASSUME NEW i \in Jobs
      PROVE  w.disk[i] = Mem(w, i) /\ LifeIn(w, TRUE, now, i) = LifeIn(v, TRUE, now, i)
  <2>1. CASE Same(v, w, i)
    BY <2>1, SameMoves DEF MoveAt
  <2>2. CASE Evicted(v, w, i)
    <3>1. LifeIn(w, TRUE, now, i) = "free" /\ w.disk[i] = Mem(w, i)
      BY <2>2, EvictedMoves DEF MoveAt
    <3>2. v.recovery[i] = NoRecord /\ v.disk[i] = v.records[i] /\ v.records[i] # NoRecord
      BY <2>2, SoundTypes DEF Evicted, Slot, Mirror, Mem
    <3>3. LifeIn(v, TRUE, now, i) = "free"
      BY <1>2, <2>2, <3>2 DEF LifeIn
    <3>. QED  BY <3>1, <3>3
  <2>. QED  BY <1>2, <2>1, <2>2 DEF Trimmed
<1>. QED  BY <1>2, <1>3 DEF Mirror, w

----------------------------------------------------------------------------
(* The operations of the vault, without faults.                            *)

\* Every job moves; the jobs other than j stay or are evicted.
OpMoves(v, w, j) == Trimmed(v, w, Jobs \ {j}) /\ \A i \in Jobs : MoveAt(v, w, i)

\* A vault left alone moves nobody.
LEMMA Untouched ==
    ASSUME NEW v, NEW Q, Sound(v, Q), Mirror(v), NEW j \in Jobs
    PROVE  OpMoves(v, v, j) /\ Same(v, v, j)
<1>1. \A i \in Jobs : Same(v, v, i)
  BY DEF Same, MemorySame
<1>2. Trimmed(v, v, Jobs) /\ Trimmed(v, v, Jobs \ {j})
  BY <1>1 DEF Trimmed, Sound
<1>. QED  BY <1>1, <1>2, TrimMoves DEF OpMoves

\* put_record makes an allowed move of its job and of every job it evicts.
LEMMA PutRecordMoves ==
    ASSUME NEW v, NEW Q, Sound(v, Q), Mirror(v), now \in 0..MaxTime, NEW j \in Jobs,
           NEW r, Succeeds(v, j, r)
    PROVE  LET w == PutRecord(v, j, r, "none") IN
           /\ OpMoves(v, w.v, j)
           /\ Recorded(w.v, j, r) \/ Same(v, w.v, j)
           /\ w.ok \in BOOLEAN /\ (w.ok => Recorded(w.v, j, r))
<1>. DEFINE p == PutRecord(v, j, r, "none")
            w == p.v
<1>1. /\ Trimmed(v, w, Jobs \ {j}) /\ p.ok \in BOOLEAN /\ (p.ok => Recorded(w, j, r))
      /\ Recorded(w, j, r) \/ Same(v, w, j)
  BY PutRecordSlots DEF Sound, Succeeds, Faults
<1>. HIDE DEF p, w
<1>2. MoveAt(v, w, j)
  BY <1>1, RecordedMoves, SameMoves
<1>3. \A i \in Jobs \ {j} : MoveAt(v, w, i)
  BY <1>1, TrimMoves
<1>4. OpMoves(v, w, j)
  BY <1>1, <1>2, <1>3 DEF OpMoves
<1>. QED  BY <1>1, <1>4 DEF p, w

\* So does put_active.
LEMMA PutActiveMoves ==
    ASSUME NEW v, NEW Q, Sound(v, Q), Mirror(v), NEW j \in Jobs, NEW r \in Record,
           v.records[j] = NoRecord,
           \/ v.recovery[j] # NoRecord /\ r.ev # "none"
           \/ v.recovery[j] = NoRecord /\ r.ev = "none"
    PROVE  LET w == PutActive(v, j, r, "none") IN
           /\ OpMoves(v, w.v, j) /\ w.ok \in BOOLEAN
           /\ w.ok => Protected(v, w.v, j, r)
           /\ ~w.ok => Same(v, w.v, j)
<1>. DEFINE p == PutActive(v, j, r, "none")
            w == p.v
<1>1. /\ Trimmed(v, w, Jobs \ {j}) /\ p.ok \in BOOLEAN
      /\ p.ok => Protected(v, w, j, r)
      /\ ~p.ok => MemorySame(v, w, j) /\ w.disk[j] = v.disk[j]
  BY PutActiveSlots DEF Sound, Faults
<1>. HIDE DEF p, w
<1>2. ~p.ok => Same(v, w, j)
  BY <1>1 DEF Same
<1>3. MoveAt(v, w, j)
  BY <1>1, <1>2, ProtectedMoves, SameMoves
<1>4. \A i \in Jobs \ {j} : MoveAt(v, w, i)
  BY <1>1, TrimMoves
<1>5. OpMoves(v, w, j)
  BY <1>1, <1>3, <1>4 DEF OpMoves
<1>. QED  BY <1>1, <1>2, <1>5 DEF p, w

\* update_active_receipt moves a job from accepted to running, or nowhere.
LEMMA UpdateActiveMoves ==
    ASSUME NEW v, NEW Q, Sound(v, Q), Mirror(v), now \in 0..MaxTime, NEW j \in Jobs,
           NEW a, StreamReceipt(a)
    PROVE  LET w == UpdateActive(v, j, a, "none") IN
           /\ OpMoves(v, w.v, j) /\ w.ok \in BOOLEAN
           /\ \/ Same(v, w.v, j)
              \/ w.v.recovery[j] # NoRecord /\ w.v.recovery[j].ev # "none"
           /\ w.ok /\ v.recovery[j] # NoRecord => w.v.recovery[j].ev # "none"
<1>. DEFINE u == UpdateActive(v, j, a, "none")
            r == Updated(v, j, a)
<1>0. Slot(v, j, Q)
  BY SoundTypes
<1>1. CASE j \notin v.active \/ ~Has(v.recovery, j)
  <2>1. u = [v |-> v, ok |-> TRUE]
    BY <1>1 DEF UpdateActive, Success
  <2>. HIDE DEF u
  <2>2. u.v = v /\ u.ok \in BOOLEAN
    BY <2>1
  <2>3. v.recovery[j] = NoRecord
    BY <1>0, <1>1 DEF Slot, Has
  <2>4. OpMoves(v, u.v, j) /\ Same(v, u.v, j)
    BY <2>2, Untouched
  <2>. QED  BY <2>2, <2>3, <2>4 DEF u
<1>2. CASE j \in v.active /\ Has(v.recovery, j)
  <2>1. u = PutActive(v, j, r, "none")
    BY <1>2 DEF UpdateActive, Updated
  <2>2. v.recovery[j] \in Record /\ v.records[j] = NoRecord /\ v.recovery[j] # NoRecord
    BY <1>0, <1>2, SoundTypes DEF Has, Slot
  <2>3. r \in Record /\ r.ev = a.ev
    <3>1. a \in Record
      BY DEF StreamReceipt
    <3>2. r \in Record /\ SameEvidence(r, a)
      BY <2>2, <3>1, UpdatedRecord, ZenonT(60)
    <3>. QED  BY <3>2 DEF SameEvidence
  <2>4. r # NoRecord /\ r.ev # "none"
    BY <2>3, RecordFields DEF StreamReceipt
  <2>. HIDE DEF r, u
  <2>5. /\ OpMoves(v, u.v, j) /\ u.ok \in BOOLEAN
        /\ u.ok => Protected(v, u.v, j, r)
        /\ ~u.ok => Same(v, u.v, j)
    BY <2>1, <2>2, <2>3, <2>4, PutActiveMoves
  <2>6. /\ OpMoves(v, u.v, j) /\ u.ok \in BOOLEAN
        /\ \/ Same(v, u.v, j)
           \/ u.v.recovery[j] # NoRecord /\ u.v.recovery[j].ev # "none"
        /\ u.ok /\ v.recovery[j] # NoRecord => u.v.recovery[j].ev # "none"
    BY <2>4, <2>5 DEF Protected
  <2>. QED  BY <2>6 DEF u
<1>. QED  BY <1>1, <1>2

\* The job is left alone, or its execution is over.
Over(v, w, j) == Same(v, w, j) \/ j \notin w.active

\* complete moves a job to the status it stores.
LEMMA CompleteMoves ==
    ASSUME NEW v, NEW Q, Sound(v, Q), Mirror(v), now \in 0..MaxTime, NEW j \in Jobs,
           j \in v.active => v.recovery[j] # NoRecord, NEW r \in Record,
           v.recovery[j] # NoRecord =>
               /\ v.recovery[j].ev = "none" => r.status # "pending"
               /\ v.recovery[j].ev # "none" => r.status \in {"pending", "failed", "cancelled"}
    PROVE  LET w == Complete(v, j, r, "none") IN OpMoves(v, w.v, j) /\ Over(v, w.v, j)
<1>. DEFINE c == Complete(v, j, r, "none")
            old == v.recovery[j]
            y == [r EXCEPT !.status = old.status, !.ev = old.ev, !.as = old.as,
                           !.feature = old.feature, !.settled = old.settled,
                           !.att = old.att, !.prior = old.prior]
            outranked == r.status \in {"failed", "cancelled"} /\ old # NoRecord /\ old.ev # "none"
            x == IF outranked THEN y ELSE r
<1>1. CASE Has(v.records, j) \/ j \notin v.active
  <2>1. c = [v |-> v, ok |-> FALSE]
    BY <1>1 DEF Complete, Failure
  <2>2. c.v = v
    BY <2>1
  <2>. QED  BY <2>2, Untouched DEF Over
<1>2. CASE ~Has(v.records, j) /\ j \in v.active
  <2>1. c = PutRecord(v, j, x, "none")
    BY <1>2 DEF Complete
  <2>2. old \in Record /\ old # NoRecord /\ Slot(v, j, Q)
    BY <1>2, SoundTypes
  <2>3. ASSUME outranked
        PROVE  Succeeds(v, j, x)
    <3>1. old.status = "pending"
      BY <2>2, <2>3 DEF Slot, Live
    <3>2. y \in Record /\ y.status = old.status
      BY <2>2 DEF Record
    <3>3. x = y
      BY <2>3
    <3>. HIDE DEF y, x
    <3>. QED  BY <2>2, <2>3, <3>1, <3>2, <3>3 DEF Succeeds
  <2>4. ASSUME ~outranked
        PROVE  Succeeds(v, j, x)
    <3>1. x = r
      BY <2>4
    <3>2. old.ev # "none" => r.status = "pending"
      BY <2>2, <2>4
    <3>. HIDE DEF x
    <3>. QED  BY <2>2, <3>1, <3>2 DEF Succeeds
  <2>5. Succeeds(v, j, x)
    BY <2>3, <2>4
  <2>. HIDE DEF x, c
  <2>6. OpMoves(v, c.v, j) /\ (Recorded(c.v, j, x) \/ Same(v, c.v, j))
    BY <2>1, <2>5, PutRecordMoves
  <2>7. OpMoves(v, c.v, j) /\ Over(v, c.v, j)
    BY <2>6 DEF Over, Recorded
  <2>. QED  BY <2>7 DEF c
<1>. QED  BY <1>1, <1>2

\* finish moves a pending job to its end.
LEMMA FinishMoves ==
    ASSUME NEW v, NEW Q, Sound(v, Q), Mirror(v), now \in 0..MaxTime, NEW j \in Jobs,
           NEW status \in Terminal, NEW err \in Errors
    PROVE  LET w == Finish(v, j, status, err, "none") IN OpMoves(v, w.v, j) /\ Over(v, w.v, j)
<1>. DEFINE f == Finish(v, j, status, err, "none")
            r == v.records[j]
            x == [r EXCEPT !.status = status, !.err = err, !.fin = now]
<1>0. status # "pending" /\ v \in VaultType
  BY DEF Terminal, Sound
<1>1. ASSUME f.v = v
      PROVE  OpMoves(v, f.v, j) /\ Over(v, f.v, j)
  <2>. HIDE DEF f
  <2>. QED  BY <1>1, Untouched DEF Over
<1>2. CASE ~Has(v.records, j)
  <2>1. f = [v |-> v, ok |-> FALSE]
    BY <1>2 DEF Finish, Failure
  <2>2. f.v = v
    BY <2>1
  <2>. QED  BY <1>1, <2>2
<1>3. CASE Has(v.records, j) /\ r.status = status /\ r.err = err
  <2>1. f = [v |-> [v EXCEPT !.reconciling = @ \ {j}], ok |-> TRUE]
    BY <1>3 DEF Finish, Success
  <2>2. j \notin v.reconciling
    BY <1>0, <1>3, SoundTypes DEF Slot
  <2>3. v.reconciling \ {j} = v.reconciling
    BY <2>2
  <2>4. [v EXCEPT !.reconciling = @ \ {j}] = v
    BY <1>0, <2>3 DEF VaultType
  <2>5. f.v = v
    BY <2>1, <2>4
  <2>. QED  BY <1>1, <2>5
<1>4. CASE Has(v.records, j) /\ ~(r.status = status /\ r.err = err) /\ r.status # "pending"
  <2>1. f = [v |-> v, ok |-> FALSE]
    BY <1>4 DEF Finish, Failure
  <2>2. f.v = v
    BY <2>1
  <2>. QED  BY <1>1, <2>2
<1>5. CASE Has(v.records, j) /\ r.status = "pending"
  <2>1. f = PutRecord(v, j, x, "none")
    BY <1>0, <1>5 DEF Finish
  <2>2. r \in Record /\ r # NoRecord
    BY <1>5, SoundTypes DEF Has
  <2>3. x \in Record /\ x.fin = now
    BY <2>2 DEF Record, Statuses
  <2>. HIDE DEF x
  <2>4. Succeeds(v, j, x)
    BY <1>5, <2>2, <2>3 DEF Succeeds
  <2>. HIDE DEF f
  <2>5. OpMoves(v, f.v, j) /\ (Recorded(f.v, j, x) \/ Same(v, f.v, j))
    BY <2>1, <2>4, PutRecordMoves
  <2>6. OpMoves(v, f.v, j) /\ Over(v, f.v, j)
    BY <2>5 DEF Over, Recorded
  <2>. QED  BY <2>6 DEF f
<1>. QED  BY <1>2, <1>3, <1>4, <1>5

\* update_receipt leaves the life of its job alone.
LEMMA UpdateReceiptMoves ==
    ASSUME NEW v, NEW Q, Sound(v, Q), Mirror(v), now \in 0..MaxTime, NEW j \in Jobs,
           NEW r \in Record
    PROVE  LET w == UpdateReceipt(v, j, r, "none") IN
           /\ OpMoves(v, w.v, j) /\ Over(v, w.v, j)
           /\ LifeIn(w.v, TRUE, now, j) = LifeIn(v, TRUE, now, j)
           /\ Same(v, w.v, j) \/ (w.v.recovery[j] = NoRecord /\ v.recovery[j] = NoRecord)
<1>. DEFINE u == UpdateReceipt(v, j, r, "none")
            o == v.records[j]
            x == Rewritten(o, r)
<1>1. ASSUME u.v = v
      PROVE  /\ OpMoves(v, u.v, j) /\ Over(v, u.v, j) /\ Same(v, u.v, j)
             /\ LifeIn(u.v, TRUE, now, j) = LifeIn(v, TRUE, now, j)
  <2>. HIDE DEF u
  <2>. QED  BY <1>1, Untouched DEF Over
<1>2. CASE ~(Has(v.records, j) /\ o.status = "pending")
  <2>1. u = [v |-> v, ok |-> FALSE]
    BY <1>2 DEF UpdateReceipt, Failure
  <2>2. u.v = v
    BY <2>1
  <2>. QED  BY <1>1, <2>2
<1>3. CASE Has(v.records, j) /\ o.status = "pending" /\ Receipt(o) = Receipt(r)
  <2>1. u = [v |-> v, ok |-> TRUE]
    BY <1>3 DEF UpdateReceipt, Success
  <2>2. u.v = v
    BY <2>1
  <2>. QED  BY <1>1, <2>2
<1>4. CASE Has(v.records, j) /\ o.status = "pending" /\ Receipt(o) # Receipt(r)
  <2>1. u = PutRecord(v, j, x, "none")
    BY <1>4 DEF UpdateReceipt, Rewritten
  <2>2. o \in Record /\ o # NoRecord /\ v.recovery[j] = NoRecord /\ v.disk[j] = o
    BY <1>4, SoundTypes DEF Has, Slot, Mirror, Mem
  <2>3. x \in Record /\ x.status = "pending"
    BY <1>4, <2>2, RewrittenRecord
  <2>. HIDE DEF x
  <2>4. Succeeds(v, j, x)
    BY <1>4, <2>2, <2>3 DEF Succeeds
  <2>. HIDE DEF u
  <2>5. OpMoves(v, u.v, j) /\ (Recorded(u.v, j, x) \/ Same(v, u.v, j))
    BY <2>1, <2>4, PutRecordMoves
  <2>6. Over(v, u.v, j) /\ (Same(v, u.v, j) \/ u.v.recovery[j] = NoRecord)
    BY <2>5 DEF Over, Recorded
  <2>7. LifeIn(v, TRUE, now, j) = "pending"
    BY <1>4, <2>2 DEF LifeIn
  <2>8. LifeIn(u.v, TRUE, now, j) = "pending"
    <3>1. CASE Recorded(u.v, j, x)
      BY <2>3, <2>4, <3>1, RecordedMoves
    <3>2. CASE Same(v, u.v, j)
      BY <2>7, <3>2, SameMoves
    <3>. QED  BY <2>5, <3>1, <3>2
  <2>9. /\ OpMoves(v, u.v, j) /\ Over(v, u.v, j)
        /\ LifeIn(u.v, TRUE, now, j) = LifeIn(v, TRUE, now, j)
        /\ Same(v, u.v, j) \/ (u.v.recovery[j] = NoRecord /\ v.recovery[j] = NoRecord)
    BY <2>2, <2>5, <2>6, <2>7, <2>8
  <2>. QED  BY <2>9 DEF u
<1>. QED  BY <1>1, <1>2, <1>3, <1>4

\* begin accepts a free job.
LEMMA BeginJobMoves ==
    ASSUME NEW v, NEW Q, Sound(v, Q), Mirror(v), now \in 0..MaxTime, NEW j \in Jobs,
           v.records[j] = NoRecord, j \notin v.active
    PROVE  LET w == BeginJob(v, j, "none") IN
           /\ OpMoves(v, w.v, j) /\ w.ok \in BOOLEAN
           /\ w.ok => w.v.recovery[j] = Fallback
<1>. DEFINE b == BeginJob(v, j, "none")
            m == RoomForJob(v)
            y == [m.v EXCEPT !.active = @ \cup {j}]
            p == PutActive(y, j, Fallback, "none")
<1>1. v \in VaultType /\ v.recovery[j] = NoRecord
  BY SoundTypes DEF Sound, Slot
<1>2. m.ok \in BOOLEAN /\ Trimmed(v, m.v, Jobs)
  BY <1>1, RoomForJobTrims DEF Room
<1>3. b = IF ~m.ok THEN m ELSE p
  BY DEF BeginJob
<1>. HIDE DEF m
<1>4. Sound(m.v, Q) /\ m.v.active = v.active /\ \A i \in Jobs : MoveAt(v, m.v, i)
  BY <1>2, TrimKeeps, TrimMoves
<1>5. m.v.records[j] = NoRecord /\ m.v.recovery[j] = NoRecord /\ m.v.disk[j] = v.disk[j]
  BY <1>1, <1>2 DEF Trimmed, Same, MemorySame, Evicted
<1>6. CASE ~m.ok
  <2>1. b = m
    BY <1>3, <1>6
  <2>. HIDE DEF b
  <2>2. OpMoves(v, b.v, j) /\ b.ok \in BOOLEAN /\ ~b.ok
    BY <1>2, <1>4, <1>6, <2>1 DEF OpMoves, Trimmed
  <2>. QED  BY <2>2 DEF b
<1>7. CASE m.ok
  <2>1. b = p
    BY <1>3, <1>7
  <2>2. /\ y \in VaultType /\ y.active = v.active \cup {j} /\ y.records = m.v.records
        /\ y.recovery = m.v.recovery /\ y.disk = m.v.disk /\ y.sealed = m.v.sealed
        /\ y.reconciling = m.v.reconciling
    BY <1>4 DEF VaultType, Sound
  <2>. HIDE DEF y, p
  <2>3. ASSUME NEW i \in Jobs
        PROVE  Mem(y, i) = Mem(m.v, i) /\ (Pend(y, i) <=> Pend(m.v, i))
    BY <2>2 DEF Mem, Pend
  <2>4. Sound(y, Q)
    <3>1. ASSUME NEW i \in Jobs
          PROVE  Slot(y, i, Q)
      <4>1. Slot(m.v, i, Q) /\ (i \in y.active <=> i = j \/ i \in m.v.active)
        BY <1>4, <2>2 DEF Sound
      <4>. QED  BY <1>5, <2>2, <2>3, <4>1 DEF Slot
    <3>. QED  BY <2>2, <3>1 DEF Sound
  <2>5. Mirror(y)
    BY <1>4, <2>2, <2>3 DEF Mirror, MoveAt
  <2>6. Fallback \in Record /\ Fallback.ev = "none" /\ y.records[j] = NoRecord /\ y.recovery[j] = NoRecord
    BY <1>5, <2>2, FallbackRecord DEF Fallback
  <2>7. /\ OpMoves(y, p.v, j) /\ p.ok \in BOOLEAN
        /\ p.ok => Protected(y, p.v, j, Fallback)
    <3>. HIDE DEF Fallback
    <3>. QED  BY <2>4, <2>5, <2>6, PutActiveMoves DEF p
  <2>8. Trimmed(v, y, Jobs \ {j})
    <3>1. ASSUME NEW i \in Jobs \ {j}
          PROVE  Same(v, y, i) \/ Evicted(v, y, i)
      <4>1. Same(v, m.v, i) \/ Evicted(v, m.v, i)
        BY <1>2 DEF Trimmed
      <4>. QED  BY <2>2, <1>4, <4>1 DEF Same, MemorySame, Evicted
    <3>. QED  BY <2>2, <3>1 DEF Trimmed
  <2>9. Trimmed(v, p.v, Jobs \ {j})
    BY <2>7, <2>8, TrimTwice DEF OpMoves
  <2>10. \A i \in Jobs \ {j} : MoveAt(v, p.v, i)
    BY <2>9, TrimMoves
  <2>11. LifeIn(y, TRUE, now, j) = LifeIn(v, TRUE, now, j)
    BY <1>1, <1>5, <2>2 DEF LifeIn
  <2>12. MoveAt(v, p.v, j)
    BY <2>7, <2>11 DEF OpMoves, MoveAt
  <2>13. OpMoves(v, p.v, j)
    BY <2>9, <2>10, <2>12 DEF OpMoves
  <2>14. p.ok => p.v.recovery[j] = Fallback
    <3>. HIDE DEF Fallback
    <3>. QED  BY <2>7 DEF Protected
  <2>. HIDE DEF b, Fallback
  <2>15. OpMoves(v, b.v, j) /\ b.ok \in BOOLEAN /\ (b.ok => b.v.recovery[j] = Fallback)
    BY <2>1, <2>7, <2>13, <2>14
  <2>. QED  BY <2>15 DEF b
<1>. QED  BY <1>2, <1>6, <1>7

----------------------------------------------------------------------------
(* The steps.                                                              *)

\* A request that runs holds a copy of its job, with evidence once it was dispatched.
Held(i) ==
    /\ phase[i] # "idle" /\ i \in vault.active => vault.recovery[i] # NoRecord
    /\ phase[i] = "running" /\ vault.recovery[i] # NoRecord => vault.recovery[i].ev # "none"

RefInv ==
    /\ JobsInv
    /\ up => Mirror(vault)
    /\ \A i \in Jobs : Held(i)

\* Every job moves, and the invariant is kept.
Refines ==
    /\ \A i \in Jobs : Move(LifeIn(vault, up, now, i), LifeIn(vault', up', now', i))
    /\ up' => Mirror(vault')
    /\ \A i \in Jobs : Held(i)'

\* Without faults every write is plain.
LEMMA NoFault ==
    ASSUME JobsInv, MaxFaults = 0, NEW flt, Fault(flt)
    PROVE  flt = "none"
BY DEF JobsInv, TypeOK, Fault, Faults

\* An operation on the vault, or on what expiry left of it.
LEMMA VaultMoves ==
    ASSUME RefInv, up, up' = TRUE, now' = now, NEW j \in Jobs,
           NEW v0, v0 = vault \/ v0 = Purged(vault), OpMoves(v0, vault', j)
    PROVE  /\ \A i \in Jobs : Move(LifeIn(vault, up, now, i), LifeIn(vault', up', now', i))
           /\ Mirror(vault') /\ Trimmed(vault, vault', Jobs \ {j})
<1>1. Sound(vault, queued) /\ Mirror(vault) /\ up = TRUE
  BY InvTypes DEF RefInv, JobsInv, TypeOK
<1>2. /\ Trimmed(vault, v0, Jobs \ {j})
      /\ \A i \in Jobs : LifeIn(v0, TRUE, now, i) = LifeIn(vault, TRUE, now, i)
  <2>1. CASE v0 = vault
    BY <1>1, <2>1, Untouched DEF OpMoves
  <2>2. CASE v0 = Purged(vault)
    <3>. DEFINE w == Purged(vault)
    <3>1. Trimmed(vault, w, Jobs) /\ \A i \in Jobs : LifeIn(w, TRUE, now, i) = LifeIn(vault, TRUE, now, i)
      BY <1>1, PurgeLives
    <3>. HIDE DEF w
    <3>2. Trimmed(vault, w, Jobs \ {j})
      BY <3>1 DEF Trimmed
    <3>. QED  BY <2>2, <3>1, <3>2 DEF w
  <2>. QED  BY <2>1, <2>2
<1>3. Trimmed(vault, vault', Jobs \ {j})
  BY <1>2, TrimTwice DEF OpMoves
<1>. QED  BY <1>1, <1>2, <1>3 DEF OpMoves, MoveAt, Mirror

\* The same for a step of the request of job j.
LEMMA RequestRefines ==
    ASSUME RefInv, up, up' = up, now' = now, NEW j \in Jobs,
           NEW v0, v0 = vault \/ v0 = Purged(vault), OpMoves(v0, vault', j),
           \A i \in Jobs \ {j} : phase'[i] = phase[i], Held(j)'
    PROVE  Refines
<1>1. up' = TRUE
  BY DEF RefInv, JobsInv, TypeOK
<1>2. /\ \A i \in Jobs : Move(LifeIn(vault, up, now, i), LifeIn(vault', up', now', i))
      /\ Mirror(vault') /\ Trimmed(vault, vault', Jobs \ {j})
  BY <1>1, VaultMoves
<1>3. ASSUME NEW i \in Jobs \ {j}
      PROVE  Held(i)'
  <2>1. vault'.recovery[i] = vault.recovery[i] /\ (i \in vault'.active <=> i \in vault.active)
    BY <1>2 DEF Trimmed, Same, MemorySame, Evicted
  <2>. QED  BY <2>1 DEF Held, RefInv
<1>. QED  BY <1>2, <1>3 DEF Refines

\* Expiry leaves the copies of running jobs alone.
LEMMA PurgeCopies ==
    ASSUME RefInv, up, NEW v0, v0 = vault \/ v0 = Purged(vault), NEW j \in Jobs
    PROVE  /\ v0.recovery[j] = vault.recovery[j] /\ (j \in v0.active <=> j \in vault.active)
           /\ Sound(v0, queued) /\ Mirror(v0)
<1>1. Sound(vault, queued) /\ Mirror(vault)
  BY InvTypes DEF RefInv
<1>2. CASE v0 = vault
  BY <1>1, <1>2
<1>3. CASE v0 = Purged(vault)
  <2>. DEFINE w == Purged(vault)
  <2>1. Trimmed(vault, w, Jobs) /\ Mirror(w)
    BY <1>1, PurgeLives
  <2>2. Sound(w, queued)
    BY <1>1, PurgeKeeps
  <2>. HIDE DEF w
  <2>3. w.recovery[j] = vault.recovery[j] /\ (j \in w.active <=> j \in vault.active)
    BY <2>1 DEF Trimmed, Same, MemorySame, Evicted
  <2>. QED  BY <1>3, <2>1, <2>2, <2>3 DEF w
<1>. QED  BY <1>2, <1>3

\* A request whose job is left alone or over still holds its copy.
LEMMA OverHeld ==
    ASSUME RefInv, JobsInv', up, NEW j \in Jobs, NEW v0, v0 = vault \/ v0 = Purged(vault),
           Over(v0, vault', j),
           phase'[j] = "running" => phase[j] = "running",
           phase'[j] # "idle" => phase[j] # "idle"
    PROVE  Held(j)'
<1>1. v0.recovery[j] = vault.recovery[j] /\ (j \in v0.active <=> j \in vault.active)
  BY PurgeCopies
<1>2. Held(j)
  BY DEF RefInv
<1>3. CASE Same(v0, vault', j)
  BY <1>1, <1>2, <1>3 DEF Same, MemorySame, Held
<1>4. CASE j \notin vault'.active
  <2>1. Slot(vault', j, queued')
    BY DEF JobsInv, Sound
  <2>. QED  BY <1>4, <2>1 DEF Slot, Held
<1>. QED  BY <1>3, <1>4 DEF Over

\* The vault is left alone.
LEMMA StillRefines ==
    ASSUME RefInv, UNCHANGED <<vault, up, now>>,
           \A i \in Jobs : /\ phase'[i] = "running" => phase[i] = "running"
                           /\ phase'[i] # "idle" => phase[i] # "idle"
    PROVE  Refines
<1>1. vault' = vault /\ up' = up /\ now' = now
  OBVIOUS
<1>2. \A i \in Jobs : Move(LifeIn(vault, up, now, i), LifeIn(vault', up', now', i))
  BY <1>1 DEF Move
<1>3. \A i \in Jobs : Held(i)'
  BY <1>1 DEF RefInv, Held
<1>. QED  BY <1>1, <1>2, <1>3 DEF Refines, RefInv

\* Submit accepts a free job, or leaves it.
LEMMA SubmitRefines ==
    ASSUME RefInv, MaxFaults = 0, NEW j \in Jobs, NEW flt, Submit(j, flt)
    PROVE  Refines
<1>. DEFINE v == Purged(vault)
            b == BeginJob(v, j, "none")
<1>1. /\ up /\ up' = up /\ now' = now /\ flt = "none" /\ now \in 0..MaxTime
      /\ phase \in [Jobs -> Phases] /\ phase[j] = "idle"
  BY NoFault, InvTypes DEF Submit, At, RefInv
<1>2. Sound(v, queued) /\ Mirror(v)
  BY <1>1, PurgeCopies
<1>3. CASE Has(v.records, j) \/ j \in v.active
  <2>1. vault' = v /\ phase' = phase
    BY <1>3 DEF Submit
  <2>2. OpMoves(v, vault', j)
    BY <1>2, <2>1, Untouched
  <2>3. Held(j)'
    BY <1>1, <2>1 DEF Held
  <2>. HIDE DEF v
  <2>. QED  BY <1>1, <2>1, <2>2, <2>3, RequestRefines DEF v
<1>4. CASE ~(Has(v.records, j) \/ j \in v.active)
  <2>1. vault' = b.v /\ phase' = [phase EXCEPT ![j] = IF b.ok THEN "open" ELSE "idle"]
    BY <1>1, <1>4 DEF Submit, Goto
  <2>2. v.records[j] = NoRecord /\ j \notin v.active
    BY <1>4 DEF Has
  <2>. HIDE DEF v
  <2>3. /\ OpMoves(v, b.v, j) /\ b.ok \in BOOLEAN
        /\ b.ok => b.v.recovery[j] = Fallback
    BY <1>1, <1>2, <2>2, BeginJobMoves
  <2>. HIDE DEF b
  <2>4. /\ phase'[j] = IF b.ok THEN "open" ELSE "idle"
        /\ \A i \in Jobs \ {j} : phase'[i] = phase[i]
    BY <1>1, <2>1
  <2>5. Fallback # NoRecord
    BY <1>1, FallbackRecord, RecordFields
  <2>6. Held(j)'
    <3>. HIDE DEF Fallback
    <3>. QED  BY <2>1, <2>3, <2>4, <2>5 DEF Held
  <2>7. OpMoves(v, vault', j)
    BY <2>1, <2>3
  <2>. QED  BY <1>1, <2>4, <2>6, <2>7, RequestRefines DEF v
<1>. QED  BY <1>3, <1>4

\* Dispatch, Checkpoint and CheckpointHandoff: the copy gets evidence, or the request ends.
LEMMA CopyRefines ==
    ASSUME RefInv, JobsInv', up, up' = up, now' = now, NEW j \in Jobs,
           NEW v0, v0 = vault \/ v0 = Purged(vault), phase[j] \in {"open", "running"},
           NEW r, StreamReceipt(r), vault' = UpdateActive(v0, j, r, "none").v,
           phase' = [phase EXCEPT ![j] = IF UpdateActive(v0, j, r, "none").ok
                                         THEN "running" ELSE "ending"]
    PROVE  Refines
<1>. DEFINE u == UpdateActive(v0, j, r, "none")
<1>1. Sound(v0, queued) /\ Mirror(v0) /\ now \in 0..MaxTime /\ phase \in [Jobs -> Phases]
  BY PurgeCopies, InvTypes DEF RefInv
<1>2. /\ v0.recovery[j] = vault.recovery[j] /\ (j \in v0.active <=> j \in vault.active)
  BY PurgeCopies
<1>3. /\ OpMoves(v0, u.v, j) /\ u.ok \in BOOLEAN
      /\ \/ Same(v0, u.v, j)
         \/ u.v.recovery[j] # NoRecord /\ u.v.recovery[j].ev # "none"
      /\ u.ok /\ v0.recovery[j] # NoRecord => u.v.recovery[j].ev # "none"
  BY <1>1, UpdateActiveMoves, ZenonT(60)
<1>4. vault' = u.v /\ phase' = [phase EXCEPT ![j] = IF u.ok THEN "running" ELSE "ending"]
  OBVIOUS
<1>. HIDE DEF u
<1>5. /\ phase'[j] = IF u.ok THEN "running" ELSE "ending"
      /\ \A i \in Jobs \ {j} : phase'[i] = phase[i]
  BY <1>1, <1>4
<1>6. Held(j)'
  <2>1. Held(j)
    BY DEF RefInv
  <2>2. CASE Same(v0, u.v, j)
    <3>1. vault'.recovery[j] = v0.recovery[j] /\ (j \in vault'.active <=> j \in v0.active)
      BY <1>4, <2>2 DEF Same, MemorySame
    <3>2. u.ok /\ v0.recovery[j] # NoRecord => vault'.recovery[j].ev # "none"
      BY <1>3, <1>4
    <3>3. phase'[j] = "running" => u.ok
      <4>1. ~u.ok => phase'[j] = "ending"
        BY <1>5
      <4>. QED  BY <4>1
    <3>4. /\ j \in vault.active => vault.recovery[j] # NoRecord
          /\ vault'.recovery[j] = vault.recovery[j] /\ (j \in vault'.active <=> j \in vault.active)
      BY <1>2, <2>1, <3>1 DEF Held
    <3>5. phase'[j] = "running" /\ vault'.recovery[j] # NoRecord => vault'.recovery[j].ev # "none"
      BY <1>2, <3>2, <3>3, <3>4
    <3>. QED  BY <3>4, <3>5 DEF Held
  <2>3. CASE u.v.recovery[j] # NoRecord /\ u.v.recovery[j].ev # "none"
    BY <1>4, <2>3 DEF Held
  <2>. QED  BY <1>3, <2>2, <2>3
<1>. QED  BY <1>3, <1>4, <1>5, <1>6, RequestRefines

\* Dispatch makes its job running.
LEMMA DispatchRefines ==
    ASSUME RefInv, JobsInv', MaxFaults = 0, NEW j \in Jobs, NEW flt, Dispatch(j, flt)
    PROVE  Refines
<1>. DEFINE r == Voucher(vault.recovery[j])
<1>1. flt = "none"
  BY NoFault DEF RefInv, Dispatch
<1>2. /\ up /\ up' = up /\ now' = now /\ phase[j] \in {"open", "running"}
      /\ Has(vault.recovery, j) /\ vault.recovery[j].att < MaxAttempts
      /\ vault' = UpdateActive(vault, j, r, "none").v
      /\ phase' = [phase EXCEPT ![j] = IF UpdateActive(vault, j, r, "none").ok
                                       THEN "running" ELSE "ending"]
  BY <1>1 DEF Dispatch, At, Goto
<1>3. StreamReceipt(r)
  BY <1>2, LiveCopy, VoucherFits DEF RefInv
<1>. HIDE DEF r
<1>. QED  BY <1>2, <1>3, CopyRefines

\* Checkpoint leaves a running job running.
LEMMA CheckpointRefines ==
    ASSUME RefInv, JobsInv', MaxFaults = 0, NEW j \in Jobs, NEW flt, Checkpoint(j, flt)
    PROVE  Refines
<1>. DEFINE r == CheckpointReceipt(vault.recovery[j])
<1>1. flt = "none"
  BY NoFault DEF RefInv, Checkpoint
<1>2. /\ up /\ up' = up /\ now' = now /\ phase[j] \in {"open", "running"}
      /\ Has(vault.recovery, j)
      /\ vault' = UpdateActive(vault, j, r, "none").v
      /\ phase' = [phase EXCEPT ![j] = IF UpdateActive(vault, j, r, "none").ok
                                       THEN "running" ELSE "ending"]
  BY <1>1 DEF Checkpoint, At, Goto
<1>3. StreamReceipt(r)
  BY <1>2, LiveCopy, CheckpointFits DEF RefInv
<1>. HIDE DEF r
<1>. QED  BY <1>2, <1>3, CopyRefines

\* CheckpointHandoff leaves a running job running.
LEMMA CheckpointHandoffRefines ==
    ASSUME RefInv, JobsInv', MaxFaults = 0, NEW j \in Jobs, NEW flt, CheckpointHandoff(j, flt)
    PROVE  Refines
<1>. DEFINE v0 == Purged(vault)
            r == [vault.recovery[j] EXCEPT !.feature = TRUE]
<1>1. flt = "none"
  BY NoFault DEF RefInv, CheckpointHandoff
<1>2. /\ up /\ up' = up /\ now' = now /\ phase[j] \in {"open", "running"}
      /\ Has(vault.recovery, j) /\ vault.recovery[j].ev = "checkpoint"
      /\ vault' = UpdateActive(v0, j, r, "none").v
      /\ phase' = [phase EXCEPT ![j] = IF UpdateActive(v0, j, r, "none").ok
                                       THEN "running" ELSE "ending"]
  BY <1>1 DEF CheckpointHandoff, At, Goto
<1>3. StreamReceipt(r)
  BY <1>2, LiveCopy, FeatureFits DEF RefInv
<1>4. v0 = Purged(vault)
  OBVIOUS
<1>. HIDE DEF v0, r
<1>. QED  BY <1>2, <1>3, <1>4, CopyRefines

\* A request that completes its job; afterwards it waits, ends or fails.
LEMMA CompleteRefines ==
    ASSUME RefInv, JobsInv', up, up' = up, now' = now, NEW j \in Jobs, phase[j] # "idle",
           NEW r \in Record, vault' = Complete(vault, j, r, "none").v,
           vault.recovery[j] # NoRecord =>
               /\ vault.recovery[j].ev = "none" => r.status # "pending"
               /\ vault.recovery[j].ev # "none" => r.status \in {"pending", "failed", "cancelled"},
           \A i \in Jobs \ {j} : phase'[i] = phase[i], phase'[j] # "running"
    PROVE  Refines
<1>1. Sound(vault, queued) /\ Mirror(vault) /\ now \in 0..MaxTime
  BY InvTypes DEF RefInv
<1>2. j \in vault.active => vault.recovery[j] # NoRecord
  BY DEF RefInv, Held
<1>3. OpMoves(vault, vault', j) /\ Over(vault, vault', j)
  BY <1>1, <1>2, CompleteMoves
<1>4. Held(j)'
  BY <1>3, OverHeld
<1>. QED  BY <1>3, <1>4, RequestRefines

\* CompleteUnpaid ends an accepted job.
LEMMA CompleteUnpaidRefines ==
    ASSUME RefInv, JobsInv', MaxFaults = 0, NEW j \in Jobs, NEW flt, CompleteUnpaid(j, flt)
    PROVE  Refines
<1>. DEFINE r == [Fallback EXCEPT !.status = "completed", !.err = "none", !.info = FALSE, !.bytes = 2]
            c == Complete(vault, j, r, "none")
<1>1. flt = "none" /\ phase \in [Jobs -> Phases] /\ now \in 0..MaxTime
  BY NoFault, InvTypes DEF RefInv, CompleteUnpaid
<1>2. r \in Record /\ r.status = "completed"
  <2>1. Fallback \in Record
    BY <1>1, FallbackRecord
  <2>2. "completed" \in Statuses /\ "none" \in Errors /\ 2 \in 1..2
    BY DEF Statuses, Terminal, Errors
  <2>. QED  BY <2>1, <2>2 DEF Record
<1>3. /\ up /\ up' = up /\ now' = now /\ phase[j] = "open" /\ vault' = c.v
      /\ phase' = [phase EXCEPT ![j] = IF c.ok THEN "idle" ELSE "ending"]
  BY <1>1 DEF CompleteUnpaid, At, Goto
<1>4. vault.recovery[j] # NoRecord => vault.recovery[j].ev = "none"
  BY <1>3 DEF RefInv, JobsInv, PhaseOf
<1>5. (\A i \in Jobs \ {j} : phase'[i] = phase[i]) /\ phase'[j] # "running"
  <2>. HIDE DEF c
  <2>. QED  BY <1>1, <1>3
<1>6. vault' = Complete(vault, j, r, "none").v
  BY <1>3
<1>. HIDE DEF r, c
<1>. QED  BY <1>2, <1>3, <1>4, <1>5, <1>6, CompleteRefines

\* Stage makes a running job pending.
LEMMA StageRefines ==
    ASSUME RefInv, JobsInv', MaxFaults = 0, NEW j \in Jobs, NEW k \in Outcomes, NEW flt,
           Stage(j, k, flt)
    PROVE  Refines
<1>. DEFINE r == [Fallback EXCEPT !.status = "pending", !.ev = "final", !.as = k,
                       !.att = vault.recovery[j].att, !.err = StagedError(k), !.info = (k = "failed"),
                       !.bytes = IF k = "completed" THEN 2 ELSE 1]
            c == Complete(vault, j, r, "none")
<1>1. flt = "none" /\ phase \in [Jobs -> Phases] /\ now \in 0..MaxTime
  BY NoFault, InvTypes DEF RefInv, Stage
<1>2. r \in Record /\ r.status = "pending"
  <2>1. k \in Terminal /\ StagedError(k) \in Errors
    BY JobsAssumption, KindErrors
  <2>2. (k = "failed") \in BOOLEAN /\ (IF k = "completed" THEN 2 ELSE 1) \in 1..2
    OBVIOUS
  <2>a. vault.recovery[j].att \in 0..MaxAttempts
    BY LiveCopy, RecordFields DEF Stage, RefInv
  <2>. HIDE DEF StagedError
  <2>3. r.status = "pending"
    BY DEF Fallback
  <2>4. r \in Record
    BY <1>1, <2>1, <2>2, <2>a DEF Fallback, Record, Statuses, Evidence, Errors
  <2>. QED  BY <2>3, <2>4
<1>3. /\ up /\ up' = up /\ now' = now /\ phase[j] = "running" /\ vault' = c.v
      /\ phase' = [phase EXCEPT ![j] = IF c.ok THEN "staged" ELSE "failing"]
  BY <1>1 DEF Stage, At, Goto
<1>4. vault.recovery[j] # NoRecord => vault.recovery[j].ev # "none"
  BY <1>3 DEF RefInv, Held
<1>5. (\A i \in Jobs \ {j} : phase'[i] = phase[i]) /\ phase'[j] # "running"
  <2>. HIDE DEF c
  <2>. QED  BY <1>1, <1>3
<1>6. vault' = Complete(vault, j, r, "none").v
  BY <1>3
<1>. HIDE DEF r, c
<1>. QED  BY <1>2, <1>3, <1>4, <1>5, <1>6, CompleteRefines

\* EndRequest ends its job as failed or cancelled.
LEMMA EndRequestRefines ==
    ASSUME RefInv, JobsInv', MaxFaults = 0, NEW j \in Jobs, NEW cancelled \in BOOLEAN, NEW flt,
           EndRequest(j, cancelled, flt)
    PROVE  Refines
<1>. DEFINE s == IF cancelled THEN "cancelled" ELSE "failed"
            e == IF cancelled THEN "cancelled" ELSE "failure"
            r == [Fallback EXCEPT !.status = s, !.err = e, !.info = ~cancelled]
<1>1. flt = "none" /\ phase \in [Jobs -> Phases] /\ now \in 0..MaxTime
  BY NoFault, InvTypes DEF RefInv, EndRequest
<1>2. r \in Record /\ r.status \in {"failed", "cancelled"}
  <2>1. Fallback \in Record
    BY <1>1, FallbackRecord
  <2>2. s \in Statuses /\ s \in {"failed", "cancelled"} /\ e \in Errors
    BY DEF Statuses, Terminal, Errors
  <2>. HIDE DEF s, e
  <2>. QED  BY <2>1, <2>2 DEF Record
<1>3. /\ up /\ up' = up /\ now' = now /\ phase[j] \in {"ending", "failing"}
      /\ phase' = [phase EXCEPT ![j] = "idle"]
      /\ vault' = IF j \in vault.active THEN Complete(vault, j, r, "none").v ELSE vault
  BY <1>1 DEF EndRequest, Goto
<1>4. (\A i \in Jobs \ {j} : phase'[i] = phase[i]) /\ phase'[j] = "idle"
  BY <1>1, <1>3
<1>. HIDE DEF r, s, e
<1>5. CASE j \in vault.active
  <2>1. vault' = Complete(vault, j, r, "none").v
    BY <1>3, <1>5
  <2>. QED  BY <1>2, <1>3, <1>4, <2>1, CompleteRefines
<1>6. CASE j \notin vault.active
  <2>1. UNCHANGED <<vault, up, now>>
    BY <1>3, <1>6
  <2>. QED  BY <1>4, <2>1, StillRefines
<1>. QED  BY <1>5, <1>6

\* A request or the worker writes or finishes a record.
LEMMA WriteRefines ==
    ASSUME RefInv, JobsInv', up, up' = up, now' = now, NEW j \in Jobs,
           NEW v0, v0 = vault \/ v0 = Purged(vault), OpMoves(v0, vault', j), Over(v0, vault', j),
           \A i \in Jobs \ {j} : phase'[i] = phase[i],
           phase'[j] = "running" => phase[j] = "running",
           phase'[j] # "idle" => phase[j] # "idle"
    PROVE  Refines
<1>1. Held(j)'
  BY OverHeld
<1>. QED  BY <1>1, RequestRefines

\* Handoff leaves the life of its job alone.
LEMMA HandoffRefines ==
    ASSUME RefInv, JobsInv', MaxFaults = 0, NEW j \in Jobs, NEW flt, Handoff(j, flt)
    PROVE  Refines
<1>. DEFINE v == Purged(vault)
            r == [v.records[j] EXCEPT !.feature = TRUE]
            u == IF Has(v.records, j) THEN UpdateReceipt(v, j, r, "none") ELSE Failure(v)
<1>1. /\ flt = "none" /\ phase \in [Jobs -> Phases] /\ now \in 0..MaxTime /\ up
      /\ up' = up /\ now' = now /\ phase[j] = "staged"
  BY NoFault, InvTypes DEF RefInv, Handoff, At
<1>2. vault' = u.v /\ phase' = [phase EXCEPT ![j] = IF u.ok THEN "handed" ELSE "failing"]
  BY <1>1 DEF Handoff, Goto
<1>3. Sound(v, queued) /\ Mirror(v)
  BY <1>1, PurgeCopies
<1>4. v = Purged(vault)
  OBVIOUS
<1>. HIDE DEF v
<1>5. OpMoves(v, vault', j) /\ Over(v, vault', j)
  <2>1. CASE Has(v.records, j)
    <3>1. u = UpdateReceipt(v, j, r, "none")
      BY <2>1
    <3>2. r \in Record
      <4>1. v.records[j] \in Record
        BY <1>3, <2>1, SoundTypes DEF Has
      <4>. QED  BY <4>1 DEF Record
    <3>. HIDE DEF r, u
    <3>3. OpMoves(v, u.v, j) /\ Over(v, u.v, j)
      BY <1>1, <1>3, <3>1, <3>2, UpdateReceiptMoves
    <3>. QED  BY <1>2, <3>3
  <2>2. CASE ~Has(v.records, j)
    <3>1. u = [v |-> v, ok |-> FALSE]
      BY <2>2 DEF Failure
    <3>. HIDE DEF u
    <3>2. vault' = v
      BY <1>2, <3>1
    <3>. QED  BY <1>3, <3>2, Untouched DEF Over
  <2>. QED  BY <2>1, <2>2
<1>6. (\A i \in Jobs \ {j} : phase'[i] = phase[i]) /\ phase'[j] # "running" /\ phase[j] # "idle"
  <2>. HIDE DEF u
  <2>. QED  BY <1>1, <1>2
<1>. QED  BY <1>1, <1>4, <1>5, <1>6, WriteRefines

\* FinishRequest ends a pending job.
LEMMA FinishRequestRefines ==
    ASSUME RefInv, JobsInv', MaxFaults = 0, NEW j \in Jobs, NEW flt, FinishRequest(j, flt)
    PROVE  Refines
<1>. DEFINE f == Finish(vault, j, kind[j], TerminalError(kind[j]), "none")
<1>1. /\ flt = "none" /\ phase \in [Jobs -> Phases] /\ now \in 0..MaxTime /\ up
      /\ up' = up /\ now' = now /\ phase[j] = "queued" /\ kind[j] \in Terminal
  BY NoFault, InvTypes DEF RefInv, FinishRequest, At
<1>2. vault' = f.v /\ phase' = [phase EXCEPT ![j] = IF f.ok THEN "idle" ELSE "failing"]
  BY <1>1 DEF FinishRequest, Goto
<1>3. Sound(vault, queued) /\ Mirror(vault) /\ TerminalError(kind[j]) \in Errors
  BY <1>1, InvTypes, KindErrors DEF RefInv
<1>4. OpMoves(vault, f.v, j) /\ Over(vault, f.v, j)
  <2>. DEFINE err == TerminalError(kind[j])
  <2>1. err \in Errors
    BY <1>3
  <2>. HIDE DEF err
  <2>. QED  BY <1>1, <1>3, <2>1, FinishMoves DEF err
<1>. HIDE DEF f
<1>5. (\A i \in Jobs \ {j} : phase'[i] = phase[i]) /\ phase'[j] # "running" /\ phase[j] # "idle"
  BY <1>1, <1>2
<1>. QED  BY <1>1, <1>2, <1>4, <1>5, WriteRefines

\* Records that may be evicted go: expiry and removal.
LEMMA TrimRefines ==
    ASSUME RefInv, up, up' = up, now' = now, phase' = phase,
           Trimmed(Purged(vault), vault', Jobs)
    PROVE  Refines
<1>. DEFINE v == Purged(vault)
<1>1. up' = TRUE /\ up = TRUE /\ Sound(vault, queued) /\ Mirror(vault)
  BY InvTypes DEF RefInv, JobsInv, TypeOK
<1>2. /\ Sound(v, queued) /\ Mirror(v) /\ Trimmed(vault, v, Jobs)
      /\ \A i \in Jobs : LifeIn(v, TRUE, now, i) = LifeIn(vault, TRUE, now, i)
  BY <1>1, PurgeLives, PurgeKeeps
<1>. HIDE DEF v
<1>3. Trimmed(v, vault', Jobs)
  BY DEF v
<1>4. \A i \in Jobs : MoveAt(v, vault', i)
  BY <1>2, <1>3, TrimMoves
<1>5. Trimmed(vault, vault', Jobs)
  BY <1>2, <1>3, TrimTwice
<1>6. ASSUME NEW i \in Jobs
      PROVE  Held(i)'
  <2>1. vault'.recovery[i] = vault.recovery[i] /\ (i \in vault'.active <=> i \in vault.active)
    BY <1>5 DEF Trimmed, Same, MemorySame, Evicted
  <2>. QED  BY <2>1 DEF Held, RefInv
<1>. QED  BY <1>1, <1>2, <1>4, <1>6 DEF Refines, MoveAt, Mirror

\* Remove frees a job that is over.
LEMMA RemoveRefines ==
    ASSUME RefInv, MaxFaults = 0, NEW j \in Jobs, NEW unlinked \in BOOLEAN, Remove(j, unlinked)
    PROVE  Refines
<1>. DEFINE v == Purged(vault)
<1>1. unlinked
  BY DEF Remove, RefInv, JobsInv, TypeOK
<1>2. /\ up /\ up' = up /\ now' = now /\ phase' = phase
      /\ v.records[j] # NoRecord /\ j \notin v.reconciling /\ vault' = Drop(v, {j})
  BY <1>1 DEF Remove, Has
<1>3. Sound(v, queued)
  BY <1>2, PurgeCopies
<1>. HIDE DEF v
<1>4. v \in VaultType /\ {j} \in SUBSET Jobs
  BY <1>3 DEF Sound
<1>5. Trimmed(v, vault', Jobs)
  BY <1>2, <1>4, DropTrims
<1>. QED  BY <1>2, <1>5, TrimRefines DEF v

\* Purging frees jobs that are over and expired.
LEMMA ExpiryRefines ==
    ASSUME RefInv, up, up' = up, now' = now, phase' = phase, vault' = Purged(vault)
    PROVE  Refines
<1>. DEFINE v == Purged(vault)
<1>1. Sound(vault, queued) /\ Mirror(vault)
  BY InvTypes DEF RefInv
<1>2. Sound(v, queued)
  BY <1>1, PurgeKeeps
<1>3. vault' = v
  OBVIOUS
<1>. HIDE DEF v
<1>4. Trimmed(v, v, Jobs)
  BY <1>2 DEF Trimmed, Same, MemorySame, Sound
<1>5. Trimmed(v, vault', Jobs)
  BY <1>3, <1>4
<1>. QED  BY <1>5, TrimRefines DEF v

\* StoreFeature leaves the life of its job alone.
LEMMA StoreFeatureRefines ==
    ASSUME RefInv, JobsInv', MaxFaults = 0, NEW flt, StoreFeature(flt)
    PROVE  Refines
<1>. DEFINE j == worker.job
            r == [worker.snap EXCEPT !.feature = TRUE]
            u == UpdateReceipt(vault, j, r, "none")
<1>1. /\ flt = "none" /\ now \in 0..MaxTime /\ up /\ up' = up /\ now' = now /\ phase' = phase
      /\ worker.step # "idle" /\ Sound(vault, queued) /\ Mirror(vault)
  BY NoFault, InvTypes DEF RefInv, StoreFeature, Working
<1>2. j \in Jobs /\ worker.snap \in Record
  BY <1>1, WorkerTypes DEF RefInv
<1>3. r \in Record
  BY <1>2 DEF Record
<1>4. vault' = u.v
  BY <1>1 DEF StoreFeature
<1>. HIDE DEF j, r
<1>5. OpMoves(vault, u.v, j) /\ Over(vault, u.v, j)
  BY <1>1, <1>2, <1>3, UpdateReceiptMoves
<1>. HIDE DEF u
<1>. QED  BY <1>1, <1>2, <1>4, <1>5, WriteRefines

\* RecoveryFinishes ends a pending job.
LEMMA RecoveryFinishesRefines ==
    ASSUME RefInv, JobsInv', MaxFaults = 0, NEW flt, RecoveryFinishes(flt)
    PROVE  Refines
<1>. DEFINE j == worker.job
            s == worker.snap.as
            e == TerminalError(s)
            f == Finish(vault, j, s, e, "none")
<1>1. /\ flt = "none" /\ now \in 0..MaxTime /\ up /\ up' = up /\ now' = now /\ phase' = phase
      /\ worker.step # "idle" /\ Sound(vault, queued) /\ Mirror(vault)
  BY NoFault, InvTypes DEF RefInv, RecoveryFinishes, Working
<1>2. j \in Jobs /\ worker.snap \in Record
  BY <1>1, WorkerTypes DEF RefInv
<1>3. s \in Terminal /\ e \in Errors
  BY <1>2, RecordFields, KindErrors
<1>4. vault' = f.v
  BY <1>1 DEF RecoveryFinishes
<1>. HIDE DEF j, s, e
<1>5. OpMoves(vault, f.v, j) /\ Over(vault, f.v, j)
  BY <1>1, <1>2, <1>3, FinishMoves
<1>. HIDE DEF f
<1>. QED  BY <1>1, <1>2, <1>4, <1>5, WriteRefines

\* Two operations on a job, the first of which leaves its life.
LEMMA TwiceMoves ==
    ASSUME NEW v, NEW m, NEW w, NEW Q, NEW j \in Jobs, Sound(v, Q), Mirror(v),
           OpMoves(v, m, j), OpMoves(m, w, j),
           LifeIn(m, TRUE, now, j) = LifeIn(v, TRUE, now, j)
    PROVE  OpMoves(v, w, j)
<1>1. Trimmed(v, w, Jobs \ {j})
  BY TrimTwice DEF OpMoves
<1>2. \A i \in Jobs \ {j} : MoveAt(v, w, i)
  BY <1>1, TrimMoves
<1>3. MoveAt(v, w, j)
  BY DEF OpMoves, MoveAt
<1>. QED  BY <1>1, <1>2, <1>3 DEF OpMoves

\* RecoveryCloses ends a pending job, or leaves it.
LEMMA RecoveryClosesRefines ==
    ASSUME RefInv, JobsInv', MaxFaults = 0, NEW flt, RecoveryCloses(flt)
    PROVE  Refines
<1>. DEFINE j == worker.job
            snap == worker.snap
            s == ClosedStatus(snap)
            e == snap.err
            u(r) == UpdateReceipt(vault, j, r, "none")
            f(r) == Finish(u(r).v, j, s, e, "none")
<1>1. /\ flt = "none" /\ now \in 0..MaxTime /\ up /\ up' = up /\ now' = now /\ phase' = phase
      /\ worker.step # "idle" /\ Sound(vault, queued) /\ Mirror(vault)
  BY NoFault, InvTypes DEF RefInv, RecoveryCloses, Working
<1>2. j \in Jobs /\ snap \in Record
  BY <1>1, WorkerTypes DEF RefInv
<1>3. s \in Terminal /\ e \in Errors
  BY <1>2, RecordFields DEF ClosedStatus, Terminal
<1>4. \/ \E r \in Proven(snap) : vault' = IF u(r).ok THEN f(r).v ELSE u(r).v
      \/ vault' = u(snap).v
      \/ vault' = vault
  BY <1>1 DEF RecoveryCloses
<1>5. OpMoves(vault, vault', j) /\ Over(vault, vault', j)
  <2>1. CASE vault' = vault
    BY <1>1, <1>2, <2>1, Untouched DEF Over
  <2>2. CASE vault' = u(snap).v
    <3>. HIDE DEF j, snap
    <3>. QED  BY <1>1, <1>2, <2>2, UpdateReceiptMoves
  <2>3. ASSUME NEW r \in Proven(snap), vault' = IF u(r).ok THEN f(r).v ELSE u(r).v
        PROVE  OpMoves(vault, vault', j) /\ Over(vault, vault', j)
    <3>. DEFINE w == UpdateReceipt(vault, j, r, "none")
                y == Finish(w.v, j, s, e, "none")
    <3>1. vault' = IF w.ok THEN y.v ELSE w.v
      BY <2>3
    <3>2. /\ r \in Record
          /\ Has(vault.records, j) /\ vault.records[j].status = "pending" =>
                Renews(r, vault.records[j])
      BY <1>1, <2>3, ProvenRecord DEF RefInv
    <3>. HIDE DEF j, snap, s, e
    <3>3. /\ OpMoves(vault, w.v, j) /\ Over(vault, w.v, j)
          /\ LifeIn(w.v, TRUE, now, j) = LifeIn(vault, TRUE, now, j)
      BY <1>1, <1>2, <3>2, UpdateReceiptMoves
    <3>4. Sound(w.v, queued)
      BY <1>1, <1>2, <3>2, UpdateReceiptKeeps DEF Faults
    <3>. HIDE DEF w
    <3>5. Mirror(w.v)
      BY <3>3 DEF OpMoves, MoveAt, Mirror
    <3>6. OpMoves(w.v, y.v, j) /\ Over(w.v, y.v, j)
      BY <1>1, <1>2, <1>3, <3>4, <3>5, FinishMoves
    <3>. HIDE DEF y
    <3>7. OpMoves(vault, y.v, j)
      BY <1>1, <1>2, <3>3, <3>6, TwiceMoves
    <3>8. Over(vault, y.v, j)
      BY <3>3, <3>6 DEF Over, Same, MemorySame
    <3>. QED  BY <3>1, <3>3, <3>7, <3>8
  <2>. QED  BY <1>4, <2>1, <2>2, <2>3
<1>. HIDE DEF j
<1>. QED  BY <1>1, <1>2, <1>5, WriteRefines

\* Time frees the jobs whose record expires.
LEMMA TickRefines ==
    ASSUME RefInv, Tick
    PROVE  Refines
<1>1. /\ vault' = vault /\ up' = up /\ phase' = phase /\ now' = now + 1 /\ now \in 0..MaxTime
      /\ Sound(vault, queued)
  BY InvTypes DEF Tick, RefInv
<1>2. ASSUME NEW i \in Jobs
      PROVE  Move(LifeIn(vault, up, now, i), LifeIn(vault, up, now + 1, i))
  <2>. DEFINE d == vault.disk[i]
  <2>1. CASE up /\ vault.recovery[i] # NoRecord
    BY <2>1 DEF LifeIn, Move
  <2>2. CASE ~(up /\ vault.recovery[i] # NoRecord) /\ d = NoRecord
    BY <2>2 DEF LifeIn, Move
  <2>3. CASE ~(up /\ vault.recovery[i] # NoRecord) /\ d # NoRecord /\ d.status = "pending"
    BY <2>3 DEF LifeIn, Move
  <2>4. CASE ~(up /\ vault.recovery[i] # NoRecord) /\ d # NoRecord /\ d.status # "pending"
    <3>1. d \in Record
      BY <1>1, <2>4, SoundTypes
    <3>2. d.status \in Terminal /\ d.fin \in 0..MaxTime
      BY <2>4, <3>1, RecordFields DEF Statuses
    <3>3. d.fin + Ttl <= now => d.fin + Ttl <= now + 1
      BY <1>1, <3>2, JobsAssumption
    <3>4. /\ LifeIn(vault, up, now, i) = IF d.fin + Ttl <= now THEN "free" ELSE d.status
          /\ LifeIn(vault, up, now + 1, i) = IF d.fin + Ttl <= now + 1 THEN "free" ELSE d.status
      BY <2>4 DEF LifeIn
    <3>. HIDE DEF d
    <3>. QED  BY <3>2, <3>3, <3>4 DEF Move
  <2>. QED  BY <2>1, <2>2, <2>3, <2>4
<1>3. \A i \in Jobs : Held(i)'
  BY <1>1 DEF Held, RefInv
<1>. QED  BY <1>1, <1>2, <1>3 DEF Refines, RefInv

\* What a crash makes of a job's life.
LEMMA LostMemory ==
    ASSUME NEW v, NEW Q, Sound(v, Q), Mirror(v), NEW w, NEW i \in Jobs, w.disk[i] = v.disk[i]
    PROVE  /\ Move(LifeIn(v, TRUE, now, i), LifeIn(w, FALSE, now, i))
           /\ v.recovery[i] = NoRecord => LifeIn(w, FALSE, now, i) = LifeIn(v, TRUE, now, i)
<1>1. CASE v.recovery[i] = NoRecord
  BY <1>1 DEF LifeIn, Move
<1>2. CASE v.recovery[i] # NoRecord
  <2>. DEFINE d == v.recovery[i]
  <2>1. d \in Record /\ v.disk[i] = d /\ Slot(v, i, Q)
    BY <1>2, SoundTypes DEF Mirror, Mem, Slot
  <2>2. d # NoRecord /\ d.status \in Statuses /\ (d.status = "pending" => d.ev # "none")
        /\ (d.ev # "none" => d.status = "pending")
    BY <1>2, <2>1, RecordFields DEF Slot, Good, Live
  <2>3. LifeIn(w, FALSE, now, i) =
          IF d.status # "pending" /\ d.fin + Ttl <= now THEN "free" ELSE d.status
    BY <2>1, <2>2 DEF LifeIn
  <2>4. LifeIn(v, TRUE, now, i) = IF d.ev = "none" THEN "accepted" ELSE "running"
    BY <1>2 DEF LifeIn
  <2>. HIDE DEF d
  <2>. QED  BY <1>2, <2>2, <2>3, <2>4 DEF Move, Statuses, d
<1>. QED  BY <1>1, <1>2

\* A crash leaves each job with the life of its file.
LEMMA CrashRefines ==
    ASSUME RefInv, NEW closing \in BOOLEAN, Crash(closing)
    PROVE  Refines
<1>. DEFINE j == worker.job
<1>0. PICK x : /\ vault' = [EmptyVault EXCEPT !.disk = x.disk]
               /\ \/ x = vault
                  \/ /\ worker.step = "close"
                     /\ \E r \in Proven(worker.snap) : x = UpdateReceipt(vault, j, r, "none").v
  BY DEF Crash, Working
<1>1. /\ vault' = [EmptyVault EXCEPT !.disk = x.disk] /\ up /\ up' = FALSE /\ now' = now
      /\ phase' = [k \in Jobs |-> "idle"]
  BY <1>0 DEF Crash
<1>2. Sound(vault, queued) /\ Mirror(vault) /\ now \in 0..MaxTime /\ up = TRUE
  BY <1>1, InvTypes DEF RefInv, JobsInv, TypeOK
<1>3. /\ Sound(x, queued) /\ Mirror(x)
      /\ \A i \in Jobs : \/ LifeIn(x, TRUE, now, i) = LifeIn(vault, TRUE, now, i)
                         \/ /\ x.recovery[i] = NoRecord
                            /\ Move(LifeIn(vault, TRUE, now, i), LifeIn(x, TRUE, now, i))
  <2>1. CASE x = vault
    BY <1>2, <2>1
  <2>2. ASSUME worker.step = "close", NEW r \in Proven(worker.snap),
               x = UpdateReceipt(vault, j, r, "none").v
        PROVE  /\ Sound(x, queued) /\ Mirror(x)
               /\ \A i \in Jobs : \/ LifeIn(x, TRUE, now, i) = LifeIn(vault, TRUE, now, i)
                                  \/ /\ x.recovery[i] = NoRecord
                                     /\ Move(LifeIn(vault, TRUE, now, i), LifeIn(x, TRUE, now, i))
    <3>. DEFINE u == UpdateReceipt(vault, j, r, "none")
    <3>1. /\ j \in Jobs /\ r \in Record
          /\ Has(vault.records, j) /\ vault.records[j].status = "pending" =>
                Renews(r, vault.records[j])
      BY <2>2, WorkerTypes, ProvenRecord DEF RefInv
    <3>. HIDE DEF j
    <3>3. Sound(u.v, queued)
      BY <1>2, <3>1, UpdateReceiptKeeps DEF Faults
    <3>4. OpMoves(vault, u.v, j) /\ LifeIn(u.v, TRUE, now, j) = LifeIn(vault, TRUE, now, j)
      BY <1>2, <3>1, UpdateReceiptMoves
    <3>5. x = u.v
      BY <2>2
    <3>. HIDE DEF u
    <3>6. ASSUME NEW i \in Jobs \ {j}
          PROVE  \/ LifeIn(x, TRUE, now, i) = LifeIn(vault, TRUE, now, i)
                 \/ /\ x.recovery[i] = NoRecord
                    /\ Move(LifeIn(vault, TRUE, now, i), LifeIn(x, TRUE, now, i))
      <4>1. CASE Same(vault, x, i)
        BY <1>2, <4>1, SameMoves
      <4>2. CASE Evicted(vault, x, i)
        <5>1. x.recovery[i] = NoRecord
          BY <1>2, <4>2, SoundTypes DEF Evicted, Slot
        <5>. QED  BY <1>2, <4>2, <5>1, EvictedMoves DEF MoveAt
      <4>. QED  BY <3>4, <3>5, <4>1, <4>2 DEF OpMoves, Trimmed
    <3>. QED  BY <3>3, <3>4, <3>5, <3>6 DEF OpMoves, MoveAt, Mirror
  <2>. QED  BY <1>0, <2>1, <2>2
<1>4. vault'.disk = x.disk /\ vault'.active = {} /\ \A i \in Jobs : vault'.recovery[i] = NoRecord
  BY <1>1, <1>3, DiskAlone
<1>5. ASSUME NEW i \in Jobs
      PROVE  Move(LifeIn(vault, TRUE, now, i), LifeIn(vault', FALSE, now, i))
  <2>1. /\ Move(LifeIn(x, TRUE, now, i), LifeIn(vault', FALSE, now, i))
        /\ x.recovery[i] = NoRecord => LifeIn(vault', FALSE, now, i) = LifeIn(x, TRUE, now, i)
    BY <1>3, <1>4, LostMemory
  <2>. QED  BY <1>3, <2>1
<1>6. \A i \in Jobs : Held(i)'
  BY <1>1, <1>4 DEF Held
<1>. QED  BY <1>1, <1>2, <1>5, <1>6 DEF Refines

\* A restart brings back every life the files hold.
LEMMA RestartRefines ==
    ASSUME RefInv, Restart
    PROVE  Refines
<1>1. ~up /\ vault' = Load(vault).v /\ up' = TRUE /\ now' = now /\ phase' = phase
  BY DEF Restart
<1>2. Sound(vault, queued) /\ up = FALSE /\ \A i \in Jobs : phase[i] = "idle"
  BY <1>1, InvTypes DEF RefInv, JobsInv, TypeOK, DownInv
<1>3. PICK read : Reads(vault, read, queued)
  BY <1>2, LoadReads
<1>4. Sound(read, queued) /\ Mirror(read)
  BY <1>3 DEF Reads, Mirror, Mem
<1>5. \A i \in Jobs : LifeIn(read, TRUE, now, i) = LifeIn(vault, FALSE, now, i)
  BY <1>3 DEF Reads, LifeIn
<1>. DEFINE p == Purged(read)
            e == EnforceBounds(p, {})
<1>6. /\ Sound(p, queued) /\ Mirror(p)
      /\ \A i \in Jobs : LifeIn(p, TRUE, now, i) = LifeIn(read, TRUE, now, i)
  BY <1>4, PurgeKeeps, PurgeLives
<1>7. vault' = e.v
  BY <1>1, <1>3 DEF Reads
<1>. HIDE DEF p
<1>8. Trimmed(p, e.v, Jobs)
  BY <1>6, EnforceBoundsTrims DEF Sound, Room
<1>. HIDE DEF e
<1>9. \A i \in Jobs : MoveAt(p, e.v, i)
  BY <1>6, <1>8, TrimMoves
<1>10. \A i \in Jobs : Held(i)'
  BY <1>1, <1>2 DEF Held
<1>. QED  BY <1>1, <1>2, <1>5, <1>6, <1>7, <1>9, <1>10 DEF Refines, MoveAt, Mirror

\* Every step of a request is a move of the lifecycle.
LEMMA RequestMoves ==
    ASSUME RefInv, JobsInv', MaxFaults = 0, NEW j \in Jobs, Request(j)
    PROVE  Refines
<1>1. ASSUME NEW flt \in Faults, Submit(j, flt)
      PROVE  Refines
  BY <1>1, SubmitRefines
<1>2. ASSUME NEW flt \in Faults, Dispatch(j, flt)
      PROVE  Refines
  BY <1>2, DispatchRefines
<1>3. ASSUME NEW flt \in Faults, Checkpoint(j, flt)
      PROVE  Refines
  BY <1>3, CheckpointRefines
<1>4. ASSUME NEW flt \in Faults, CheckpointHandoff(j, flt)
      PROVE  Refines
  BY <1>4, CheckpointHandoffRefines
<1>5. ASSUME NEW flt \in Faults, CompleteUnpaid(j, flt)
      PROVE  Refines
  BY <1>5, CompleteUnpaidRefines
<1>6. ASSUME NEW flt \in Faults, Handoff(j, flt)
      PROVE  Refines
  BY <1>6, HandoffRefines
<1>7. ASSUME NEW flt \in Faults, FinishRequest(j, flt)
      PROVE  Refines
  BY <1>7, FinishRequestRefines
<1>8. ASSUME NEW flt \in Faults, NEW k \in Outcomes, Stage(j, k, flt)
      PROVE  Refines
  BY <1>8, StageRefines
<1>9. ASSUME NEW flt \in Faults, NEW c \in BOOLEAN, EndRequest(j, c, flt)
      PROVE  Refines
  BY <1>9, EndRequestRefines
<1>10. ASSUME QueueFeature(j) \/ Break(j)
       PROVE  Refines
  <2>1. phase \in [Jobs -> Phases]
    BY InvTypes DEF RefInv
  <2>2. UNCHANGED <<vault, up, now>>
    BY <1>10 DEF QueueFeature, Break
  <2>3. \A i \in Jobs : /\ phase'[i] = "running" => phase[i] = "running"
                        /\ phase'[i] # "idle" => phase[i] # "idle"
    BY <1>10, <2>1 DEF QueueFeature, Break, Goto, At
  <2>. QED  BY <2>2, <2>3, StillRefines
<1>11. ASSUME NEW b \in BOOLEAN, Remove(j, b)
       PROVE  Refines
  BY <1>11, RemoveRefines
<1>. QED
  BY <1>1, <1>2, <1>3, <1>4, <1>5, <1>6, <1>7, <1>8, <1>9, <1>10, <1>11 DEF Request

\* Every step of recovery is a move of the lifecycle.
LEMMA RecoveryMoves ==
    ASSUME RefInv, JobsInv', MaxFaults = 0, Recovery
    PROVE  Refines
<1>1. ASSUME StartPass \/ \E j \in Jobs : TakeJob(j)
      PROVE  Refines
  <2>1. up /\ up' = up /\ now' = now /\ phase' = phase /\ vault' = Purged(vault)
    BY <1>1 DEF StartPass, TakeJob
  <2>. QED  BY <2>1, ExpiryRefines
<1>2. ASSUME \E b \in BOOLEAN : Deliver(b) \/ RecoveryQueues(b)
      PROVE  Refines
  <2>1. UNCHANGED <<vault, up, now, phase>>
    BY <1>2 DEF Deliver, RecoveryQueues
  <2>. QED  BY <2>1, StillRefines
<1>3. ASSUME NEW flt \in Faults, StoreFeature(flt)
      PROVE  Refines
  BY <1>3, StoreFeatureRefines
<1>4. ASSUME NEW flt \in Faults, RecoveryFinishes(flt)
      PROVE  Refines
  BY <1>4, RecoveryFinishesRefines
<1>5. ASSUME NEW flt \in Faults, RecoveryCloses(flt)
      PROVE  Refines
  BY <1>5, RecoveryClosesRefines
<1>. QED  BY <1>1, <1>2, <1>3, <1>4, <1>5 DEF Recovery

\* Every step is a move of the lifecycle, or leaves it.
LEMMA StepRefines ==
    ASSUME RefInv, JobsInv', MaxFaults = 0, [Next]_vars
    PROVE  Refines
<1>1. ASSUME NEW j \in Jobs, Request(j)
      PROVE  Refines
  BY <1>1, RequestMoves
<1>2. ASSUME NEW j \in Jobs, NEW a \in 0..MaxAttempts,
             ReservationExpires(j, a) \/ ReservationCloses(j, a)
      PROVE  Refines
  <2>1. UNCHANGED <<vault, up, now, phase>>
    BY <1>2 DEF ReservationExpires, ReservationCloses
  <2>. QED  BY <2>1, StillRefines
<1>3. CASE Recovery
  BY <1>3, RecoveryMoves
<1>4. CASE Tick
  BY <1>4, TickRefines
<1>5. CASE Restart
  BY <1>5, RestartRefines
<1>6. ASSUME NEW b \in BOOLEAN, Crash(b)
      PROVE  Refines
  BY <1>6, CrashRefines
<1>7. CASE UNCHANGED vars
  <2>1. UNCHANGED <<vault, up, now, phase>>
    BY <1>7 DEF vars
  <2>. QED  BY <2>1, StillRefines
<1>. QED  BY <1>1, <1>2, <1>3, <1>4, <1>5, <1>6, <1>7 DEF Next

\* The initial states map to the initial state of the lifecycle.
LEMMA InitRefines ==
    ASSUME Init
    PROVE  RefInv /\ Lifecycle!LifeInit
<1>1. JobsInv
  BY InitHolds
<1>2. Mirror(vault) /\ \A i \in Jobs : Held(i)
  BY DEF Init, EmptyVault, Mirror, Mem, Held
<1>3. \A i \in Jobs : LifeOf(i) = "free"
  BY DEF Init, EmptyVault, LifeOf, Has
<1>. QED  BY <1>1, <1>2, <1>3 DEF RefInv, Lifecycle!LifeInit

\* While the disk works (MaxFaults = 0) and no key is reused while recovery still holds its
\* earlier job, the vault implements the lifecycle of its jobs: the handlers of openai.rs,
\* the recovery worker of failure_recovery.rs, eviction, expiry, crash and load of
\* job_store.rs only move a job as JobLifecycle allows, for any jobs and any bounds.
THEOREM VaultRefinesLifecycle ==
    ASSUME ReuseEarly = FALSE, MaxFaults = 0
    PROVE  Spec => ImplementsLifecycle
<1>1. Init => RefInv /\ Lifecycle!LifeInit
  BY InitRefines
<1>2. RefInv /\ [Next]_vars => RefInv' /\ Lifecycle!LifeNext
  <2>. SUFFICES ASSUME RefInv, [Next]_vars
                PROVE  RefInv' /\ Lifecycle!LifeNext
    OBVIOUS
  <2>1. JobsInv /\ JobsInv'
    BY NextStep DEF RefInv
  <2>2. Refines
    BY <2>1, StepRefines
  <2>3. /\ Sound(vault, queued) /\ up \in BOOLEAN
        /\ Sound(vault', queued') /\ up' \in BOOLEAN
    BY <2>1 DEF JobsInv, TypeOK
  <2>4. Lifecycle!LifeNext
    BY <2>2, <2>3, MovesRefine DEF Refines
  <2>. QED  BY <2>1, <2>2, <2>4 DEF RefInv, Refines
<1>. QED  BY <1>1, <1>2, PTL DEF Spec, ImplementsLifecycle, Lifecycle!LifeSpec

----------------------------------------------------------------------------
(* The vault opens again: its files never take more room than it has.      *)

\* What a vault's files take.
Footprint(v) == [i \in Jobs |-> IF v.disk[i] = NoRecord THEN 0 ELSE v.disk[i].bytes]

Bounded(v) == v \in VaultType /\ SumFunctionOnSet(Footprint(v), Jobs) <= MaxBytes

\* The sizes in memory are those of the files, and they fit.
Tight(v) ==
    /\ v \in VaultType /\ SumFunctionOnSet(v.sealed, Jobs) <= MaxBytes
    /\ \A i \in Jobs : v.sealed[i] = Footprint(v)[i]

\* Files stay or go, and their sizes with them.
Shrunk(v, w) ==
    /\ w \in VaultType
    /\ \A i \in Jobs : \/ w.disk[i] = v.disk[i] /\ w.sealed[i] = v.sealed[i]
                       \/ w.disk[i] = NoRecord /\ w.sealed[i] = 0

\* Sizes are amounts that can be summed.
LEMMA SizesNat ==
    ASSUME NEW v \in VaultType
    PROVE  /\ IsFiniteSet(Jobs) /\ NatOn(v.sealed, Jobs) /\ IntOn(v.sealed, Jobs)
           /\ SumFunctionOnSet(v.sealed, Jobs) \in Nat /\ MaxBytes \in Nat
<1>1. IsFiniteSet(Jobs) /\ MaxBytes \in Nat
  BY JobsAssumption
<1>2. NatOn(v.sealed, Jobs) /\ IntOn(v.sealed, Jobs)
  BY DEF VaultType, NatOn, IntOn
<1>. QED  BY <1>1, <1>2, SumNat

\* What is nowhere larger has no larger sum.
LEMMA SumLess ==
    ASSUME NEW S, NEW f, NEW g, IsFiniteSet(S), NatOn(f, S), NatOn(g, S),
           \A x \in S : g[x] <= f[x]
    PROVE  SumFunctionOnSet(g, S) <= SumFunctionOnSet(f, S)
<1>. PICK h : h = [x \in S |-> f[x] - g[x]]
  OBVIOUS
<1>1. NatOn(h, S) /\ IntOn(h, S) /\ IntOn(g, S) /\ AddsOn(g, h, f, S)
  BY DEF NatOn, IntOn, AddsOn
<1>2. SumFunctionOnSet(f, S) = SumFunctionOnSet(g, S) + SumFunctionOnSet(h, S)
  BY <1>1, SumAdd
<1>3. SumFunctionOnSet(g, S) \in Nat /\ SumFunctionOnSet(h, S) \in Nat
  BY <1>1, SumNat
<1>. QED  BY <1>2, <1>3

\* A vault whose files go still fits.
LEMMA ShrunkTight ==
    ASSUME NEW v, NEW w, Tight(v), Shrunk(v, w)
    PROVE  Tight(w)
<1>1. \A i \in Jobs : w.sealed[i] <= v.sealed[i] /\ w.sealed[i] = Footprint(w)[i]
  BY DEF Tight, Shrunk, Footprint, VaultType
<1>2. SumFunctionOnSet(w.sealed, Jobs) <= SumFunctionOnSet(v.sealed, Jobs)
  <2>. PICK f, g : f = v.sealed /\ g = w.sealed
    OBVIOUS
  <2>1. IsFiniteSet(Jobs) /\ NatOn(f, Jobs) /\ NatOn(g, Jobs)
    BY SizesNat DEF Tight, Shrunk
  <2>. QED  BY <1>1, <2>1, SumLess
<1>. QED  BY <1>1, <1>2, SizesNat DEF Tight, Shrunk

\* Eviction makes a vault shrink.
LEMMA TrimShrinks ==
    ASSUME NEW v, NEW w, Trimmed(v, w, Jobs)
    PROVE  Shrunk(v, w)
BY DEF Trimmed, Same, MemorySame, Evicted, Shrunk

\* So does expiry, whatever it takes.
LEMMA DropShrinks ==
    ASSUME NEW v \in VaultType, NEW E \in SUBSET Jobs
    PROVE  /\ Shrunk(v, Drop(v, E)) /\ Drop(v, E).active = v.active
           /\ \A i \in E : Drop(v, E).sealed[i] = 0
           /\ \A i \in Jobs \ E : Drop(v, E).sealed[i] = v.sealed[i]
<1>. DEFINE w == Drop(v, E)
            records == [j \in Jobs |-> IF j \in E THEN NoRecord ELSE v.records[j]]
            disk == [j \in Jobs |-> IF j \in E THEN NoRecord ELSE v.disk[j]]
            sealed == [j \in Jobs |-> IF j \in E THEN 0 ELSE v.sealed[j]]
<1>1. records \in Slots /\ disk \in Slots /\ sealed \in [Jobs -> 0..2]
  BY DEF VaultType, Slots
<1>2. w = [v EXCEPT !.records = records, !.disk = disk, !.sealed = sealed,
                    !.reconciling = @ \ E]
  BY DEF Drop
<1>. HIDE DEF w, records, disk, sealed
<1>3. w \in VaultType /\ w.disk = disk /\ w.sealed = sealed /\ w.active = v.active
  BY <1>1, <1>2 DEF VaultType
<1>4. /\ \A i \in E : w.disk[i] = NoRecord /\ w.sealed[i] = 0
      /\ \A i \in Jobs \ E : w.disk[i] = v.disk[i] /\ w.sealed[i] = v.sealed[i]
  BY <1>3 DEF disk, sealed
<1>5. Shrunk(v, w)
  BY <1>3, <1>4 DEF Shrunk
<1>. QED  BY <1>3, <1>4, <1>5 DEF w

\* Of a chain of finite sets, what they have in common is one of them.
LEMMA ChainLeast ==
    ASSUME NEW C, IsFiniteSet(C), NEW sets \in SUBSET (SUBSET C), sets # {},
           \A A, B \in sets : A \subseteq B \/ B \subseteq A
    PROVE  {x \in C : \A E \in sets : x \in E} \in sets
<1>1. \A E \in sets : IsFiniteSet(E) /\ Cardinality(E) \in Nat
  BY FS_Subset, FS_CardinalityType
<1>. DEFINE Small == {n \in Nat : \A E \in sets : Cardinality(E) >= n}
<1>2. 0 \in Small
  BY <1>1
<1>3. PICK n \in Nat : n \in Small /\ n + 1 \notin Small
  <2>1. PICK E \in sets : TRUE
    OBVIOUS
  <2>2. Cardinality(E) + 1 \in Nat /\ Cardinality(E) + 1 \notin Small
    BY <1>1
  <2>. HIDE DEF Small
  <2>. SUFFICES ASSUME \A n \in Nat : n \in Small => n + 1 \in Small PROVE FALSE
    OBVIOUS
  <2>3. Nat \subseteq Small
    BY <1>2, NatInductionSet
  <2>. QED  BY <2>2, <2>3
<1>4. PICK E \in sets : ~(Cardinality(E) >= n + 1)
  BY <1>3
<1>5. \A F \in sets : Cardinality(E) <= Cardinality(F)
  BY <1>1, <1>3, <1>4
<1>6. ASSUME NEW F \in sets
      PROVE  E \subseteq F
  <2>1. CASE F \subseteq E
    <3>1. Cardinality(F) <= Cardinality(E) /\ (Cardinality(E) = Cardinality(F) => E = F)
      BY <1>1, <2>1, FS_Subset
    <3>. QED  BY <1>1, <1>5, <3>1
  <2>. QED  BY <2>1
<1>7. {x \in C : \A F \in sets : x \in F} = E
  BY <1>6
<1>. QED  BY <1>7

\* Two sets of oldest records: one holds the other.
LEMMA OldestChain ==
    ASSUME NEW v \in VaultType, NEW C \in SUBSET Counted(v), NEW A \in SUBSET C,
           NEW B \in SUBSET C,
           \A i \in A, j \in C \ A : Older(v, i, j), \A i \in B, j \in C \ B : Older(v, i, j)
    PROVE  A \subseteq B \/ B \subseteq A
<1>. SUFFICES ASSUME NEW a \in A, NEW b \in B, a \notin B, b \notin A PROVE FALSE
  OBVIOUS
<1>1. Older(v, a, b) /\ Older(v, b, a)
  OBVIOUS
<1>2. a \in Jobs /\ b \in Jobs /\ v.records[a] \in Record /\ v.records[b] \in Record
  BY DEF Counted, Has, VaultType, Slots
<1>3. /\ v.records[a].fin \in Nat /\ v.records[b].fin \in Nat /\ a \in Nat /\ b \in Nat
  BY <1>2, RecordFields, JobsAssumption
<1>. QED  BY <1>1, <1>3 DEF Older

\* When room is made for a write, what is left besides it leaves that room.
LEMMA RoomFits ==
    ASSUME NEW v \in VaultType, NEW j \in Jobs, NEW bytes \in Nat,
           RoomForBytes(v, j, bytes).ok
    PROVE  SumFunctionOnSet(RoomForBytes(v, j, bytes).v.sealed, Without(Jobs, j)) + bytes
              <= MaxBytes
<1>. DEFINE C == Counted(v) \ {j}
            sets == {E \in SUBSET C :
                        /\ \A i \in E, k \in C \ E : Older(v, i, k)
                        /\ Sizes(v, Jobs \ (E \cup {j})) + bytes <= MaxBytes}
            least == {k \in C : \A E \in sets : k \in E}
<1>1. RoomForBytes(v, j, bytes) = [v |-> Drop(v, least), ok |-> sets # {}]
  BY DEF RoomForBytes, MakeRoom
<1>2. sets # {} /\ RoomForBytes(v, j, bytes).v = Drop(v, least)
  <2>. DEFINE m == RoomForBytes(v, j, bytes)
              some == sets # {}
  <2>. HIDE DEF sets, least, m, some
  <2>1. m = [v |-> Drop(v, least), ok |-> some]
    BY <1>1 DEF m, some
  <2>2. m.v = Drop(v, least) /\ m.ok = some
    BY <2>1
  <2>. QED  BY <2>2 DEF m, some
<1>3. C \in SUBSET Jobs /\ IsFiniteSet(C) /\ C \in SUBSET Counted(v) /\ j \notin C
  BY FS_Subset, JobsAssumption DEF Counted
<1>4. sets \in SUBSET (SUBSET C) /\ \A A, B \in sets : A \subseteq B \/ B \subseteq A
  <2>1. ASSUME NEW A \in sets, NEW B \in sets PROVE A \subseteq B \/ B \subseteq A
    <3>1. /\ A \in SUBSET C /\ \A i \in A, k \in C \ A : Older(v, i, k)
          /\ B \in SUBSET C /\ \A i \in B, k \in C \ B : Older(v, i, k)
      OBVIOUS
    <3>. HIDE DEF C, sets
    <3>. QED  BY <1>3, <3>1, OldestChain
  <2>. QED  BY <2>1
<1>5. least \in sets
  <2>. HIDE DEF C, sets
  <2>. QED  BY <1>2, <1>3, <1>4, ChainLeast
<1>6. least \in SUBSET C /\ Sizes(v, Jobs \ (least \cup {j})) + bytes <= MaxBytes
  <2>. HIDE DEF least
  <2>. QED  BY <1>5
<1>. HIDE DEF C, sets, least
<1>. PICK f, g, S, T : /\ f = v.sealed /\ g = Drop(v, least).sealed
                       /\ S = Jobs \ {j} /\ T = Jobs \ (least \cup {j})
  OBVIOUS
<1>7. least \in SUBSET Jobs /\ j \notin least /\ T \subseteq S /\ S \subseteq Jobs /\ S \ T = least
  BY <1>3, <1>6
<1>8. /\ Drop(v, least) \in VaultType /\ (\A i \in least : g[i] = 0)
      /\ \A i \in Jobs \ least : g[i] = f[i]
  BY <1>7, DropShrinks DEF Shrunk
<1>9. IsFiniteSet(Jobs) /\ IntOn(g, Jobs) /\ IntOn(f, Jobs)
  BY <1>8, SizesNat
<1>10. IsFiniteSet(S) /\ IsFiniteSet(T) /\ IntOn(g, S) /\ IsFiniteSet(S \ T)
  BY <1>7, <1>9, FS_Subset, FS_Difference DEF IntOn
<1>11. SumFunctionOnSet(g, S) = SumFunctionOnSet(g, T) + SumFunctionOnSet(g, S \ T)
  BY <1>7, <1>10, SumSplit
<1>12. ZeroOn(g, S \ T) /\ SameOn(g, f, T)
  BY <1>7, <1>8 DEF ZeroOn, SameOn
<1>13. SumFunctionOnSet(g, S \ T) = 0 /\ SumFunctionOnSet(g, T) = SumFunctionOnSet(f, T)
  BY <1>10, <1>12, SumZero, SumSame
<1>14. SumFunctionOnSet(f, T) + bytes <= MaxBytes
  BY <1>6 DEF Sizes
<1>15. SumFunctionOnSet(g, T) \in Int
  BY <1>7, <1>10, Restricted
<1>16. SumFunctionOnSet(g, S) + bytes <= MaxBytes
  BY <1>11, <1>13, <1>14, <1>15
<1>17. S = Without(Jobs, j)
  BY DEF Without
<1>. QED  BY <1>2, <1>16, <1>17

\* The sum of a function that differs from another at x only.
LEMMA SumReplaced ==
    ASSUME NEW S, NEW f, NEW g, NEW x \in S, IsFiniteSet(S), IntOn(f, S), IntOn(g, S),
           SameOn(g, f, Without(S, x))
    PROVE  /\ SumFunctionOnSet(g, S) = g[x] + SumFunctionOnSet(f, Without(S, x))
           /\ SumFunctionOnSet(f, Without(S, x)) \in Int
<1>1. SumFunctionOnSet(g, S) = g[x] + SumFunctionOnSet(g, Without(S, x))
  BY SumOut
<1>2. Without(S, x) \subseteq S
  BY DEF Without
<1>3. IsFiniteSet(Without(S, x)) /\ SumFunctionOnSet(f, Without(S, x)) \in Int
  BY <1>2, Restricted
<1>4. SumFunctionOnSet(g, Without(S, x)) = SumFunctionOnSet(f, Without(S, x))
  BY <1>3, SumSame
<1>. QED  BY <1>1, <1>3, <1>4

\* The file of job j becomes r, and its size with it.
Places(v, w, j, r) ==
    /\ w.disk[j] = r /\ w.sealed[j] = r.bytes
    /\ \A i \in Jobs \ {j} : w.disk[i] = v.disk[i] /\ w.sealed[i] = v.sealed[i]

\* A file written into the room made for it fits.
LEMMA PlacedTight ==
    ASSUME NEW v, Tight(v), NEW j \in Jobs, NEW r \in Record, NEW m,
           m = RoomForBytes(v, j, r.bytes), m.ok, NEW y \in VaultType, Places(m.v, y, j, r)
    PROVE  Tight(y)
<1>1. v \in VaultType /\ r.bytes \in Nat /\ r # NoRecord
  BY RecordFields DEF Tight
<1>2. Tight(m.v)
  BY <1>1, RoomForBytesTrims, TrimShrinks, ShrunkTight DEF Room
<1>. PICK f, g, n : f = m.v.sealed /\ g = y.sealed /\ n = r.bytes
  OBVIOUS
<1>3. SumFunctionOnSet(f, Without(Jobs, j)) + n <= MaxBytes
  BY <1>1, RoomFits
<1>4. /\ g[j] = n /\ \A i \in Jobs \ {j} : g[i] = f[i]
      /\ y.disk[j] = r /\ \A i \in Jobs \ {j} : y.disk[i] = m.v.disk[i]
  BY DEF Places
<1>5. IsFiniteSet(Jobs) /\ IntOn(g, Jobs) /\ IntOn(f, Jobs)
  BY <1>2, SizesNat DEF Tight
<1>6. SameOn(g, f, Without(Jobs, j))
  BY <1>4 DEF Without, SameOn
<1>8. /\ SumFunctionOnSet(g, Jobs) = g[j] + SumFunctionOnSet(f, Without(Jobs, j))
      /\ SumFunctionOnSet(f, Without(Jobs, j)) \in Int
  BY <1>5, <1>6, SumReplaced
<1>9. SumFunctionOnSet(g, Jobs) <= MaxBytes
  BY <1>1, <1>3, <1>4, <1>8, JobsAssumption
<1>10. \A i \in Jobs : g[i] = Footprint(y)[i]
  BY <1>1, <1>2, <1>4 DEF Tight, Footprint
<1>. QED  BY <1>9, <1>10 DEF Tight

\* Making room for a write keeps the vault tight.
LEMMA RoomTight ==
    ASSUME NEW v, Tight(v), NEW j \in Jobs, NEW bytes
    PROVE  LET m == RoomForBytes(v, j, bytes) IN
           Tight(m.v) /\ m.v \in VaultType /\ m.ok \in BOOLEAN
<1>. DEFINE m == RoomForBytes(v, j, bytes)
<1>1. v \in VaultType
  BY DEF Tight
<1>2. Room(v, Counted(v) \ {j}, m)
  BY <1>1, RoomForBytesTrims
<1>. HIDE DEF m
<1>3. Trimmed(v, m.v, Jobs) /\ m.v \in VaultType /\ m.ok \in BOOLEAN
  BY <1>2 DEF Room, Trimmed
<1>4. Tight(m.v)
  BY <1>3, TrimShrinks, ShrunkTight
<1>. QED  BY <1>3, <1>4 DEF m

\* Without a fault a write puts the file in place or changes nothing.
LEMMA WrittenPlain ==
    ASSUME NEW m, m.ok \in BOOLEAN, m.v \in VaultType, NEW j \in Jobs, NEW r \in Record
    PROVE  LET x == Written(m, j, r, "none") IN
           \/ x.v = m.v /\ ~x.ok
           \/ m.ok /\ x.ok /\ x.v = [m.v EXCEPT !.disk[j] = r]
<1>1. CASE ~m.ok
  BY <1>1 DEF Written
<1>2. CASE m.ok
  <2>1. Written(m, j, r, "none") = Persist(m.v, j, r, "none")
    BY <1>2 DEF Written
  <2>2. CASE (m.v.sealed[j] > 0) # Has(m.v.disk, j)
    <3>1. Persist(m.v, j, r, "none") = [v |-> m.v, ok |-> FALSE]
      BY <2>2 DEF Persist
    <3>. QED  BY <2>1, <3>1
  <2>3. CASE (m.v.sealed[j] > 0) = Has(m.v.disk, j)
    <3>1. Persist(m.v, j, r, "none") = [v |-> [m.v EXCEPT !.disk[j] = r], ok |-> TRUE]
      BY <2>3 DEF Persist
    <3>. QED  BY <1>2, <2>1, <3>1
  <2>. QED  BY <2>2, <2>3
<1>. QED  BY <1>1, <1>2

\* persist_active_recovery keeps the vault tight.
LEMMA PutActiveTight ==
    ASSUME NEW v, Tight(v), NEW j \in Jobs, NEW r \in Record
    PROVE  Tight(PutActive(v, j, r, "none").v)
<1>. DEFINE m == RoomForBytes(v, j, r.bytes)
            x == Written(m, j, r, "none")
            w == PutActive(v, j, r, "none")
            y == [x.v EXCEPT !.recovery[j] = r, !.sealed[j] = r.bytes]
<1>1. Tight(m.v) /\ m.v \in VaultType /\ m.ok \in BOOLEAN
  BY RoomTight
<1>2. w = IF x.ok THEN [v |-> y, ok |-> TRUE] ELSE x
  BY DEF PutActive
<1>3. \/ x.v = m.v /\ ~x.ok
      \/ m.ok /\ x.ok /\ x.v = [m.v EXCEPT !.disk[j] = r]
  <2>. HIDE DEF m
  <2>. QED  BY <1>1, WrittenPlain
<1>4. r.bytes \in 1..2
  BY RecordFields
<1>5. CASE ~x.ok
  <2>. HIDE DEF x, m, w
  <2>1. w.v = m.v
    BY <1>2, <1>3, <1>5
  <2>2. Tight(w.v)
    BY <1>1, <2>1
  <2>. QED  BY <2>2 DEF w
<1>6. CASE x.ok
  <2>1. m.ok /\ x.v = [m.v EXCEPT !.disk[j] = r]
    BY <1>3, <1>6
  <2>. HIDE DEF x
  <2>2. PICK z : z = m.v
    OBVIOUS
  <2>3. y \in VaultType /\ Places(z, y, j, r)
    <3>. HIDE DEF m
    <3>1. z \in VaultType /\ x.v = [z EXCEPT !.disk[j] = r]
      BY <1>1, <2>1, <2>2
    <3>2. /\ x.v \in VaultType /\ x.v.disk = [z.disk EXCEPT ![j] = r] /\ x.v.sealed = z.sealed
      BY <3>1 DEF VaultType, Slots
    <3>3. x.v \in VaultType /\ r.bytes \in 0..2
      BY <1>4, <3>2
    <3>4. /\ y \in VaultType /\ y.disk = x.v.disk /\ y.sealed[j] = r.bytes
          /\ \A i \in Jobs \ {j} : y.sealed[i] = x.v.sealed[i]
      BY <3>3 DEF VaultType, Slots
    <3>. HIDE DEF y
    <3>. QED  BY <3>1, <3>2, <3>4 DEF Places, VaultType, Slots
  <2>4. Tight(y)
    <3>. HIDE DEF y
    <3>. QED  BY <2>1, <2>2, <2>3, PlacedTight
  <2>. HIDE DEF y, m, w
  <2>5. w.v = y
    BY <1>2, <1>6
  <2>6. Tight(w.v)
    BY <2>4, <2>5
  <2>. QED  BY <2>6 DEF w
<1>. QED  BY <1>3, <1>5, <1>6

\* Enforcing the bounds keeps it tight.
LEMMA EnforcedTight ==
    ASSUME NEW v, Tight(v), NEW keep
    PROVE  Tight(EnforceBounds(v, keep).v)
<1>1. Room(v, Counted(v) \ keep, EnforceBounds(v, keep))
  BY EnforceBoundsTrims DEF Tight
<1>. QED  BY <1>1, TrimShrinks, ShrunkTight DEF Room

\* So does the tail that complete, finish_reconciliation and update_reconciliation_receipt share.
LEMMA PutRecordTight ==
    ASSUME NEW v, Tight(v), NEW j \in Jobs, NEW r \in Record
    PROVE  Tight(PutRecord(v, j, r, "none").v)
<1>. DEFINE m == RoomForBytes(v, j, r.bytes)
            x == Written(m, j, r, "none")
            w == PutRecord(v, j, r, "none")
            y == [x.v EXCEPT !.records[j] = r, !.sealed[j] = r.bytes,
                             !.active = @ \ {j}, !.recovery[j] = NoRecord,
                             !.reconciling = IF r.status = "pending" THEN @ \cup {j} ELSE @ \ {j}]
<1>1. Tight(m.v) /\ m.v \in VaultType /\ m.ok \in BOOLEAN
  BY RoomTight
<1>2. w = IF ~x.ok THEN x ELSE EnforceBounds(y, {j})
  BY DEF PutRecord
<1>3. \/ x.v = m.v /\ ~x.ok
      \/ m.ok /\ x.ok /\ x.v = [m.v EXCEPT !.disk[j] = r]
  <2>. HIDE DEF m
  <2>. QED  BY <1>1, WrittenPlain
<1>4. r.bytes \in 1..2
  BY RecordFields
<1>5. CASE ~x.ok
  <2>. HIDE DEF x, m, w
  <2>1. w.v = m.v
    BY <1>2, <1>3, <1>5
  <2>2. Tight(w.v)
    BY <1>1, <2>1
  <2>. QED  BY <2>2 DEF w
<1>6. CASE x.ok
  <2>1. m.ok /\ x.v = [m.v EXCEPT !.disk[j] = r]
    BY <1>3, <1>6
  <2>. HIDE DEF x
  <2>2. PICK z : z = m.v
    OBVIOUS
  <2>3. y \in VaultType /\ Places(z, y, j, r)
    <3>. HIDE DEF m
    <3>1. z \in VaultType /\ x.v = [z EXCEPT !.disk[j] = r]
      BY <1>1, <2>1, <2>2
    <3>2. /\ x.v \in VaultType /\ x.v.disk = [z.disk EXCEPT ![j] = r] /\ x.v.sealed = z.sealed
      BY <3>1 DEF VaultType, Slots
    <3>3. x.v \in VaultType /\ r.bytes \in 0..2
      BY <1>4, <3>2
    <3>4. /\ y \in VaultType /\ y.disk = x.v.disk /\ y.sealed[j] = r.bytes
          /\ \A i \in Jobs \ {j} : y.sealed[i] = x.v.sealed[i]
      BY <3>3 DEF VaultType, Slots
    <3>. HIDE DEF y
    <3>. QED  BY <3>1, <3>2, <3>4 DEF Places, VaultType, Slots
  <2>4. Tight(y)
    <3>. HIDE DEF y
    <3>. QED  BY <2>1, <2>2, <2>3, PlacedTight
  <2>. HIDE DEF y, m, w
  <2>5. w = EnforceBounds(y, {j})
    BY <1>2, <1>6
  <2>6. Tight(w.v)
    BY <2>4, <2>5, EnforcedTight
  <2>. QED  BY <2>6 DEF w
<1>. QED  BY <1>3, <1>5, <1>6

\* update_active_receipt keeps the vault tight.
LEMMA UpdateActiveTight ==
    ASSUME NEW v, Tight(v), NEW j \in Jobs, now \in 0..MaxTime, NEW a \in Record
    PROVE  Tight(UpdateActive(v, j, a, "none").v)
<1>. DEFINE r == Updated(v, j, a)
            u == UpdateActive(v, j, a, "none")
<1>1. CASE j \notin v.active \/ ~Has(v.recovery, j)
  BY <1>1 DEF UpdateActive, Success
<1>2. CASE j \in v.active /\ Has(v.recovery, j)
  <2>1. u = PutActive(v, j, r, "none")
    BY <1>2 DEF UpdateActive, Updated
  <2>2. v.recovery[j] \in Record
    BY <1>2 DEF Tight, Has, VaultType, Slots
  <2>3. r \in Record
    BY <2>2, UpdatedRecord
  <2>. HIDE DEF r
  <2>. QED  BY <2>1, <2>3, PutActiveTight
<1>. QED  BY <1>1, <1>2

\* complete_with_error_info keeps the vault tight.
LEMMA CompleteTight ==
    ASSUME NEW v, Tight(v), NEW j \in Jobs, NEW r \in Record
    PROVE  Tight(Complete(v, j, r, "none").v)
<1>. DEFINE old == v.recovery[j]
            y == [r EXCEPT !.status = old.status, !.ev = old.ev, !.as = old.as,
                           !.feature = old.feature, !.settled = old.settled,
                           !.att = old.att, !.prior = old.prior]
            outranked == r.status \in {"failed", "cancelled"} /\ old # NoRecord /\ old.ev # "none"
            x == IF outranked THEN y ELSE r
            c == Complete(v, j, r, "none")
<1>1. CASE Has(v.records, j) \/ j \notin v.active
  BY <1>1 DEF Complete, Failure
<1>2. CASE ~Has(v.records, j) /\ j \in v.active
  <2>1. c = PutRecord(v, j, x, "none")
    BY <1>2 DEF Complete
  <2>2. x \in Record
    <3>1. old \in Record \cup {NoRecord}
      BY DEF Tight, VaultType, Slots
    <3>. HIDE DEF old
    <3>2. outranked => y \in Record
      BY <3>1 DEF Record
    <3>. QED  BY <3>2
  <2>. HIDE DEF x
  <2>. QED  BY <2>1, <2>2, PutRecordTight
<1>. QED  BY <1>1, <1>2

\* finish_reconciliation keeps the vault tight.
LEMMA FinishTight ==
    ASSUME NEW v, Tight(v), NEW j \in Jobs, now \in 0..MaxTime, NEW status \in Statuses,
           NEW err \in Errors
    PROVE  Tight(Finish(v, j, status, err, "none").v)
<1>. DEFINE r == v.records[j]
            x == [r EXCEPT !.status = status, !.err = err, !.fin = now]
            f == Finish(v, j, status, err, "none")
<1>1. CASE ~Has(v.records, j)
  BY <1>1 DEF Finish, Failure
<1>2. CASE Has(v.records, j)
  <2>0. r \in Record
    BY <1>2 DEF Has, Tight, VaultType, Slots
  <2>1. CASE r.status = status /\ r.err = err
    <3>. DEFINE y == [v EXCEPT !.reconciling = @ \ {j}]
    <3>1. f = [v |-> y, ok |-> TRUE]
      BY <1>2, <2>1 DEF Finish, Success
    <3>2. y \in VaultType /\ y.disk = v.disk /\ y.sealed = v.sealed
      BY DEF Tight, VaultType
    <3>. HIDE DEF y
    <3>3. Tight(y)
      BY <3>2 DEF Tight, Footprint
    <3>. QED  BY <3>1, <3>3
  <2>2. CASE r.status # status \/ r.err # err
    <3>1. f = IF r.status # "pending" THEN Failure(v) ELSE PutRecord(v, j, x, "none")
      BY <1>2, <2>2 DEF Finish
    <3>2. x \in Record
      BY <2>0 DEF Record
    <3>3. Tight(PutRecord(v, j, x, "none").v)
      <4>. HIDE DEF x
      <4>. QED  BY <3>2, PutRecordTight
    <3>. HIDE DEF x, r
    <3>. QED  BY <3>1, <3>3 DEF Failure
  <2>. QED  BY <2>1, <2>2
<1>. QED  BY <1>1, <1>2

\* update_reconciliation_receipt keeps the vault tight.
LEMMA UpdateReceiptTight ==
    ASSUME NEW v, Tight(v), NEW j \in Jobs, now \in 0..MaxTime, NEW r \in Record
    PROVE  Tight(UpdateReceipt(v, j, r, "none").v)
<1>. DEFINE x == Rewritten(v.records[j], r)
            u == UpdateReceipt(v, j, r, "none")
<1>1. CASE ~Has(v.records, j) \/ v.records[j].status # "pending" \/ Receipt(v.records[j]) = Receipt(r)
  <2>1. u = Failure(v) \/ u = Success(v)
    BY <1>1 DEF UpdateReceipt
  <2>. QED  BY <2>1 DEF Failure, Success
<1>2. CASE ~(~Has(v.records, j) \/ v.records[j].status # "pending" \/ Receipt(v.records[j]) = Receipt(r))
  <2>1. u = PutRecord(v, j, x, "none")
    BY <1>2 DEF UpdateReceipt, Rewritten
  <2>2. v.records[j] \in Record
    BY <1>2 DEF Has, Tight, VaultType, Slots
  <2>3. x \in Record
    BY <2>2, RewrittenRecord
  <2>. HIDE DEF x
  <2>. QED  BY <2>1, <2>3, PutRecordTight
<1>. QED  BY <1>1, <1>2

\* begin and protect_active keep the vault tight.
LEMMA BeginJobTight ==
    ASSUME NEW v, Tight(v), NEW j \in Jobs, now \in 0..MaxTime
    PROVE  Tight(BeginJob(v, j, "none").v)
<1>. DEFINE m == RoomForJob(v)
            y == [m.v EXCEPT !.active = @ \cup {j}]
            b == BeginJob(v, j, "none")
<1>1. m.ok \in BOOLEAN /\ Trimmed(v, m.v, Jobs)
  BY RoomForJobTrims DEF Room, Tight
<1>2. b = IF ~m.ok THEN m ELSE PutActive(y, j, Fallback, "none")
  BY DEF BeginJob
<1>. HIDE DEF m, b
<1>3. Tight(m.v) /\ m.v \in VaultType
  BY <1>1, TrimShrinks, ShrunkTight DEF Trimmed
<1>4. y \in VaultType /\ y.disk = m.v.disk /\ y.sealed = m.v.sealed
  BY <1>3 DEF VaultType
<1>. HIDE DEF y
<1>5. Tight(y)
  BY <1>3, <1>4 DEF Tight, Footprint
<1>6. Fallback \in Record
  BY FallbackRecord
<1>7. Tight(PutActive(y, j, Fallback, "none").v)
  <2>. HIDE DEF Fallback
  <2>. QED  BY <1>5, <1>6, PutActiveTight
<1>8. Tight(b.v)
  <2>. HIDE DEF Fallback
  <2>. QED  BY <1>1, <1>2, <1>3, <1>7
<1>. QED  BY <1>8 DEF b

\* Expiry keeps the vault tight.
LEMMA PurgedTight ==
    ASSUME NEW v, Tight(v)
    PROVE  Tight(Purged(v))
<1>. DEFINE E == {j \in Jobs : /\ Has(v.records, j)
                               /\ v.records[j].status # "pending"
                               /\ v.records[j].fin + Ttl <= now}
<1>1. Purged(v) = Drop(v, E) /\ E \in SUBSET Jobs
  BY DEF Purged
<1>. HIDE DEF E
<1>. QED  BY <1>1, DropShrinks, ShrunkTight DEF Tight

\* A directory that fits is opened, and the vault is tight.
LEMMA LoadTight ==
    ASSUME NEW v, NEW Q, Sound(v, Q), Bounded(v)
    PROVE  Load(v).ok /\ Tight(Load(v).v)
<1>1. PICK read : Reads(v, read, Q)
  BY LoadReads
<1>2. Tight(read)
  <2>1. read \in VaultType /\ \A i \in Jobs : /\ read.sealed[i] = Footprint(v)[i]
                                              /\ read.sealed[i] = Footprint(read)[i]
    BY <1>1 DEF Reads, Sound, Footprint
  <2>2. SameOn(read.sealed, Footprint(v), Jobs) /\ IsFiniteSet(Jobs)
    BY <2>1, JobsAssumption DEF SameOn
  <2>. PICK f, g : f = read.sealed /\ g = Footprint(v)
    OBVIOUS
  <2>3. SumFunctionOnSet(f, Jobs) = SumFunctionOnSet(g, Jobs)
    BY <2>2, SumSame
  <2>. QED  BY <2>1, <2>3 DEF Tight, Bounded
<1>. DEFINE p == Purged(read)
            C == Counted(p) \ {}
            sets == {E \in SUBSET C :
                        /\ \A i \in E, k \in C \ E : Older(p, i, k)
                        /\ /\ Cardinality(Counted(p) \ E) <= MaxJobs
                           /\ Sizes(p, Jobs \ E) <= MaxBytes}
            least == {k \in C : \A E \in sets : k \in E}
<1>3. Tight(p) /\ Load(v) = EnforceBounds(p, {})
  BY <1>1, <1>2, PurgedTight DEF Reads
<1>. HIDE DEF p
<1>4. EnforceBounds(p, {}) = [v |-> Drop(p, least), ok |-> sets # {}]
  BY DEF EnforceBounds, MakeRoom
<1>5. Counted(p) \in sets
  <2>1. Counted(p) \ Counted(p) = {}
    OBVIOUS
  <2>2. Cardinality({}) <= MaxJobs
    BY FS_EmptySet, JobsAssumption
  <2>3. Sizes(p, Jobs \ Counted(p)) <= MaxBytes
    <3>. PICK f, T : f = p.sealed /\ T = Jobs \ Counted(p)
      OBVIOUS
    <3>1. IsFiniteSet(Jobs) /\ NatOn(f, Jobs) /\ MaxBytes \in Nat /\ T \subseteq Jobs
      BY <1>3, SizesNat DEF Tight
    <3>2. SumFunctionOnSet(f, T) <= SumFunctionOnSet(f, Jobs)
          /\ SumFunctionOnSet(f, T) \in Nat /\ SumFunctionOnSet(f, Jobs) \in Nat
      BY <3>1, SumPart
    <3>3. SumFunctionOnSet(f, Jobs) <= MaxBytes
      BY <1>3 DEF Tight
    <3>4. SumFunctionOnSet(f, T) <= MaxBytes
      BY <3>1, <3>2, <3>3
    <3>. QED  BY <3>4 DEF Sizes
  <2>. QED  BY <2>1, <2>2, <2>3
<1>6. EnforceBounds(p, {}).ok
  <2>. DEFINE some == sets # {}
              m == EnforceBounds(p, {})
  <2>1. some
    BY <1>5
  <2>. HIDE DEF sets, least, some, m
  <2>2. m = [v |-> Drop(p, least), ok |-> some]
    BY <1>4 DEF some, m
  <2>3. m.ok = some
    BY <2>2
  <2>. QED  BY <2>1, <2>3 DEF m
<1>. QED  BY <1>3, <1>6, EnforcedTight

\* The inductive invariant behind VaultReopens: while the gateway runs, the sizes it counts
\* are those of the files and fit; while it is down, the files fit.
ReopenInv ==
    /\ JobsInv
    /\ up => Tight(vault)
    /\ ~up => Bounded(vault)

\* A crash leaves the files of a vault, which fit.
LEMMA CrashedBounded ==
    ASSUME NEW x, Tight(x), NEW w \in VaultType, w.disk = x.disk
    PROVE  Bounded(w)
<1>. PICK f, g : f = x.sealed /\ g = Footprint(w)
  OBVIOUS
<1>1. SameOn(f, g, Jobs) /\ IsFiniteSet(Jobs)
  BY JobsAssumption DEF Tight, Footprint, SameOn
<1>2. SumFunctionOnSet(f, Jobs) = SumFunctionOnSet(g, Jobs)
  BY <1>1, SumSame
<1>. QED  BY <1>2 DEF Tight, Bounded

\* Admission keeps the vault tight.
LEMMA SubmitTight ==
    ASSUME JobsInv, Tight(vault), NEW j \in Jobs, Submit(j, "none")
    PROVE  Tight(vault')
<1>. DEFINE v == Purged(vault)
<1>1. Tight(v) /\ now \in 0..MaxTime
  BY PurgedTight, InvTypes
<1>2. vault' = v \/ vault' = BeginJob(v, j, "none").v
  BY DEF Submit
<1>. HIDE DEF v
<1>. QED  BY <1>1, <1>2, BeginJobTight

\* Every step of a request keeps the vault tight.
LEMMA RequestTight ==
    ASSUME JobsInv, MaxFaults = 0, Tight(vault), NEW j \in Jobs, Request(j)
    PROVE  Tight(vault')
<1>0. /\ now \in 0..MaxTime /\ kind \in [Jobs -> Terminal]
      /\ \A flt : Fault(flt) => flt = "none"
  BY InvTypes, NoFault
<1>1. ASSUME NEW flt \in Faults, Submit(j, flt)
      PROVE  Tight(vault')
  BY <1>0, <1>1, SubmitTight DEF Submit
<1>2. ASSUME NEW flt \in Faults,
             Dispatch(j, flt) \/ Checkpoint(j, flt) \/ CheckpointHandoff(j, flt)
      PROVE  Tight(vault')
  <2>1. \E v \in {vault, Purged(vault)}, r \in Record : vault' = UpdateActive(v, j, r, "none").v
    <3>. DEFINE d == vault.recovery[j]
    <3>1. /\ Has(vault.recovery, j) /\ d \in Record /\ Live(d)
          /\ Dispatch(j, flt) => d.att < MaxAttempts
          /\ CheckpointHandoff(j, flt) => d.ev = "checkpoint"
      BY <1>2, LiveCopy DEF Dispatch, Checkpoint, CheckpointHandoff
    <3>2. CASE Dispatch(j, flt)
      <4>1. vault' = UpdateActive(vault, j, Voucher(d), "none").v
        BY <1>0, <3>2 DEF Dispatch
      <4>2. Voucher(d) \in Record
        BY <3>1, <3>2, VoucherFits DEF StreamReceipt
      <4>. QED  BY <4>1, <4>2
    <3>3. CASE Checkpoint(j, flt)
      <4>1. vault' = UpdateActive(vault, j, CheckpointReceipt(d), "none").v
        BY <1>0, <3>3 DEF Checkpoint
      <4>2. CheckpointReceipt(d) \in Record
        BY <3>1, CheckpointFits DEF StreamReceipt
      <4>. QED  BY <4>1, <4>2
    <3>4. CASE CheckpointHandoff(j, flt)
      <4>. DEFINE r == [d EXCEPT !.feature = TRUE]
      <4>1. vault' = UpdateActive(Purged(vault), j, r, "none").v
        BY <1>0, <3>4 DEF CheckpointHandoff
      <4>2. r \in Record
        BY <3>1 DEF Record
      <4>. HIDE DEF r
      <4>. QED  BY <4>1, <4>2
    <3>. QED  BY <1>2, <3>2, <3>3, <3>4
  <2>2. PICK v \in {vault, Purged(vault)}, r \in Record :
           vault' = UpdateActive(v, j, r, "none").v
    BY <2>1
  <2>3. Tight(v)
    BY PurgedTight
  <2>. QED  BY <1>0, <2>2, <2>3, UpdateActiveTight
<1>3. ASSUME NEW r \in Record, vault' = Complete(vault, j, r, "none").v
      PROVE  Tight(vault')
  BY <1>3, CompleteTight
<1>4. ASSUME NEW flt \in Faults, CompleteUnpaid(j, flt)
      PROVE  Tight(vault')
  <2>. DEFINE r == [Fallback EXCEPT !.status = "completed", !.err = "none", !.info = FALSE,
                                    !.bytes = 2]
  <2>1. vault' = Complete(vault, j, r, "none").v
    BY <1>0, <1>4 DEF CompleteUnpaid
  <2>2. r \in Record
    <3>1. Fallback \in Record /\ "completed" \in Statuses /\ "none" \in Errors /\ 2 \in 1..2
      BY <1>0, FallbackRecord DEF Statuses, Terminal, Errors
    <3>. QED  BY <3>1 DEF Record
  <2>. HIDE DEF r
  <2>. QED  BY <1>3, <2>1, <2>2
<1>5. ASSUME NEW flt \in Faults, NEW k \in Outcomes, Stage(j, k, flt)
      PROVE  Tight(vault')
  <2>. DEFINE r == [Fallback EXCEPT !.status = "pending", !.ev = "final", !.as = k,
                        !.att = vault.recovery[j].att, !.err = StagedError(k), !.info = (k = "failed"),
                        !.bytes = IF k = "completed" THEN 2 ELSE 1]
  <2>1. vault' = Complete(vault, j, r, "none").v
    BY <1>0, <1>5 DEF Stage
  <2>2. k \in Terminal /\ StagedError(k) \in Errors
    BY JobsAssumption, KindErrors
  <2>3. r \in Record
    <3>. DEFINE info == k = "failed"
                err == StagedError(k)
                bytes == IF k = "completed" THEN 2 ELSE 1
                att == vault.recovery[j].att
    <3>0. att \in 0..MaxAttempts
      BY <1>5, LiveCopy, RecordFields DEF Stage
    <3>1. info \in BOOLEAN /\ err \in Errors /\ bytes \in 1..2
      BY <2>2
    <3>. HIDE DEF info, err, bytes, att
    <3>2. [Fallback EXCEPT !.status = "pending", !.ev = "final", !.as = k, !.att = att,
                        !.err = err, !.info = info, !.bytes = bytes] \in Record
      BY <1>0, <2>2, <3>0, <3>1 DEF Fallback, Record, Statuses, Evidence
    <3>. QED  BY <3>2 DEF info, err, bytes, att
  <2>. HIDE DEF r
  <2>. QED  BY <1>3, <2>1, <2>3
<1>6. ASSUME NEW flt \in Faults, Handoff(j, flt)
      PROVE  Tight(vault')
  <2>. DEFINE v == Purged(vault)
              r == [v.records[j] EXCEPT !.feature = TRUE]
              u == IF Has(v.records, j) THEN UpdateReceipt(v, j, r, "none") ELSE Failure(v)
  <2>0. Tight(v)
    BY PurgedTight
  <2>1. vault' = u.v
    BY <1>0, <1>6 DEF Handoff
  <2>. HIDE DEF v
  <2>2. CASE Has(v.records, j)
    <3>1. v.records[j] \in Record
      BY <2>0, <2>2 DEF Tight, VaultType, Slots, Has
    <3>2. r \in Record
      BY <3>1 DEF Record
    <3>. HIDE DEF r
    <3>. QED  BY <1>0, <2>0, <2>1, <2>2, <3>2, UpdateReceiptTight
  <2>3. CASE ~Has(v.records, j)
    BY <2>0, <2>1, <2>3 DEF Failure
  <2>. QED  BY <2>2, <2>3
<1>7. ASSUME NEW flt \in Faults, FinishRequest(j, flt)
      PROVE  Tight(vault')
  <2>1. vault' = Finish(vault, j, kind[j], TerminalError(kind[j]), "none").v
    BY <1>0, <1>7 DEF FinishRequest
  <2>2. kind[j] \in Statuses /\ TerminalError(kind[j]) \in Errors
    BY <1>0, KindErrors DEF Statuses
  <2>. QED  BY <1>0, <2>1, <2>2, FinishTight
<1>8. ASSUME NEW flt \in Faults, NEW c \in BOOLEAN, EndRequest(j, c, flt)
      PROVE  Tight(vault')
  <2>. DEFINE s == IF c THEN "cancelled" ELSE "failed"
              e == IF c THEN "cancelled" ELSE "failure"
              r == [Fallback EXCEPT !.status = s, !.err = e, !.info = ~c]
  <2>1. vault' = vault \/ vault' = Complete(vault, j, r, "none").v
    BY <1>0, <1>8 DEF EndRequest
  <2>2. r \in Record
    <3>1. Fallback \in Record
      BY <1>0, FallbackRecord
    <3>2. s \in Statuses /\ e \in Errors
      BY DEF Statuses, Terminal, Errors
    <3>. HIDE DEF s, e
    <3>. QED  BY <3>1, <3>2 DEF Record
  <2>. HIDE DEF r
  <2>. QED  BY <1>3, <2>1, <2>2
<1>9. ASSUME NEW b \in BOOLEAN, Remove(j, b)
      PROVE  Tight(vault')
  <2>. DEFINE v == Purged(vault)
  <2>0. Tight(v)
    BY PurgedTight
  <2>1. b /\ vault' = Drop(v, {j})
    BY <1>9 DEF Remove, JobsInv, TypeOK
  <2>. HIDE DEF v
  <2>. QED  BY <2>0, <2>1, DropShrinks, ShrunkTight DEF Tight
<1>10. ASSUME QueueFeature(j) \/ Break(j)
       PROVE  Tight(vault')
  BY <1>10 DEF QueueFeature, Break
<1>. QED  BY <1>1, <1>2, <1>4, <1>5, <1>6, <1>7, <1>8, <1>9, <1>10 DEF Request

\* Every step of recovery keeps the vault tight.
LEMMA RecoveryTight ==
    ASSUME JobsInv, MaxFaults = 0, Tight(vault), Recovery
    PROVE  Tight(vault')
<1>0. /\ now \in 0..MaxTime /\ resv \in ResvType
      /\ \A flt : Fault(flt) => flt = "none"
  BY InvTypes, NoFault
<1>1. CASE StartPass \/ \E j \in Jobs : TakeJob(j)
  <2>1. vault' = Purged(vault)
    BY <1>1 DEF StartPass, TakeJob
  <2>. QED  BY <2>1, PurgedTight
<1>2. CASE \E b \in BOOLEAN : Deliver(b) \/ RecoveryQueues(b)
  BY <1>2 DEF Deliver, RecoveryQueues
<1>3. ASSUME NEW flt \in Faults, StoreFeature(flt) \/ RecoveryFinishes(flt) \/ RecoveryCloses(flt)
      PROVE  worker.step # "idle" /\ worker.job \in Jobs /\ worker.snap \in Record /\ flt = "none"
  BY <1>0, <1>3, WorkerTypes DEF StoreFeature, RecoveryFinishes, RecoveryCloses, Working
<1>4. ASSUME NEW flt \in Faults, StoreFeature(flt)
      PROVE  Tight(vault')
  <2>. DEFINE r == [worker.snap EXCEPT !.feature = TRUE]
  <2>1. vault' = UpdateReceipt(vault, worker.job, r, "none").v
    BY <1>3, <1>4 DEF StoreFeature
  <2>2. r \in Record /\ worker.job \in Jobs
    BY <1>3, <1>4 DEF Record
  <2>. HIDE DEF r
  <2>. QED  BY <1>0, <2>1, <2>2, UpdateReceiptTight
<1>5. ASSUME NEW flt \in Faults, RecoveryFinishes(flt)
      PROVE  Tight(vault')
  <2>1. vault' = Finish(vault, worker.job, worker.snap.as, TerminalError(worker.snap.as), "none").v
    BY <1>3, <1>5 DEF RecoveryFinishes
  <2>2. worker.snap \in Record /\ worker.job \in Jobs
    BY <1>3, <1>5
  <2>3. worker.snap.as \in Statuses /\ TerminalError(worker.snap.as) \in Errors
    BY <2>2, RecordFields, KindErrors DEF Statuses
  <2>. QED  BY <1>0, <2>1, <2>2, <2>3, FinishTight
<1>6. ASSUME NEW flt \in Faults, RecoveryCloses(flt)
      PROVE  Tight(vault')
  <2>. DEFINE j == worker.job
              snap == worker.snap
              u(r) == UpdateReceipt(vault, j, r, "none")
              f(r) == Finish(u(r).v, j, ClosedStatus(snap), snap.err, "none")
  <2>0. flt = "none" /\ j \in Jobs /\ snap \in Record /\ \A r \in Proven(snap) : r \in Record
    BY <1>3, <1>6, ProvenRecord
  <2>1. \/ \E r \in Proven(snap) : vault' = IF u(r).ok THEN f(r).v ELSE u(r).v
        \/ vault' = u(snap).v
        \/ vault' = vault
    BY <1>6, <2>0 DEF RecoveryCloses
  <2>2. ClosedStatus(snap) \in Statuses /\ snap.err \in Errors
    BY <2>0, RecordFields DEF ClosedStatus, Statuses, Terminal
  <2>. HIDE DEF j, snap
  <2>3. ASSUME NEW r \in Record
        PROVE  Tight(u(r).v)
    BY <1>0, <2>0, UpdateReceiptTight
  <2>4. ASSUME NEW r \in Record
        PROVE  Tight(f(r).v)
    <3>. DEFINE w == u(r).v
    <3>1. Tight(w)
      BY <2>3
    <3>. HIDE DEF w
    <3>2. Tight(Finish(w, j, ClosedStatus(snap), snap.err, "none").v)
      BY <1>0, <2>0, <2>2, <3>1, FinishTight
    <3>. QED  BY <3>2 DEF w
  <2>. HIDE DEF u, f
  <2>. QED  BY <2>0, <2>1, <2>3, <2>4
<1>. QED  BY <1>1, <1>2, <1>4, <1>5, <1>6 DEF Recovery

\* A crash, also between the two writes of a closure, leaves a directory that fits.
LEMMA CrashBounded ==
    ASSUME JobsInv, JobsInv', Tight(vault), NEW closing \in BOOLEAN, Crash(closing)
    PROVE  Bounded(vault')
<1>1. PICK x : /\ vault' = [EmptyVault EXCEPT !.disk = x.disk]
               /\ \/ x = vault
                  \/ /\ worker.step = "close"
                     /\ \E r \in Proven(worker.snap) :
                           x = UpdateReceipt(vault, worker.job, r, "none").v
  BY DEF Crash, Working
<1>2. Tight(x)
  <2>1. CASE x = vault
    BY <2>1
  <2>2. ASSUME worker.step = "close", NEW r \in Proven(worker.snap),
               x = UpdateReceipt(vault, worker.job, r, "none").v
        PROVE  Tight(x)
    <3>1. worker.job \in Jobs /\ r \in Record /\ now \in 0..MaxTime
      BY <2>2, WorkerTypes, ProvenRecord, InvTypes
    <3>. QED  BY <2>2, <3>1, UpdateReceiptTight
  <2>. QED  BY <1>1, <2>1, <2>2
<1>3. vault' \in VaultType /\ vault'.disk = x.disk
  <2>1. x.disk \in Slots
    BY <1>2 DEF Tight, VaultType
  <2>. QED  BY <1>1, <2>1, SMTT(30) DEF EmptyVault, VaultType, Slots
<1>. PICK w : w = vault'
  OBVIOUS
<1>4. Bounded(w)
  BY <1>2, <1>3, CrashedBounded
<1>. QED  BY <1>4

\* A request is served by a gateway that runs, and leaves it running.
LEMMA RequestUp ==
    ASSUME NEW j \in Jobs, Request(j)
    PROVE  up /\ up' = up
<1>1. ASSUME NEW flt \in Faults,
             \/ Submit(j, flt) \/ Dispatch(j, flt) \/ Checkpoint(j, flt)
             \/ CheckpointHandoff(j, flt) \/ CompleteUnpaid(j, flt)
             \/ Handoff(j, flt) \/ FinishRequest(j, flt)
      PROVE  up /\ up' = up
  <2>1. CASE Submit(j, flt)
    BY <2>1 DEF Submit, At
  <2>2. CASE Dispatch(j, flt)
    BY <2>2 DEF Dispatch, At
  <2>3. CASE Checkpoint(j, flt)
    BY <2>3 DEF Checkpoint, At
  <2>4. CASE CheckpointHandoff(j, flt)
    BY <2>4 DEF CheckpointHandoff, At
  <2>5. CASE CompleteUnpaid(j, flt)
    BY <2>5 DEF CompleteUnpaid, At
  <2>6. CASE Handoff(j, flt)
    BY <2>6 DEF Handoff, At
  <2>7. CASE FinishRequest(j, flt)
    BY <2>7 DEF FinishRequest, At
  <2>. QED  BY <1>1, <2>1, <2>2, <2>3, <2>4, <2>5, <2>6, <2>7
<1>2. ASSUME NEW flt \in Faults, NEW k \in Outcomes, Stage(j, k, flt)
      PROVE  up /\ up' = up
  BY <1>2 DEF Stage, At
<1>3. ASSUME NEW flt \in Faults, NEW c \in BOOLEAN, EndRequest(j, c, flt)
      PROVE  up /\ up' = up
  BY <1>3 DEF EndRequest
<1>4. ASSUME QueueFeature(j) \/ Break(j)
      PROVE  up /\ up' = up
  BY <1>4 DEF QueueFeature, Break, At
<1>5. ASSUME NEW b \in BOOLEAN, Remove(j, b)
      PROVE  up /\ up' = up
  BY <1>5 DEF Remove
<1>. QED  BY <1>1, <1>2, <1>3, <1>4, <1>5 DEF Request

\* Every step keeps the invariant.
LEMMA ReopenStep ==
    ASSUME ReopenInv, ReuseEarly = FALSE, MaxFaults = 0, [Next]_vars
    PROVE  ReopenInv'
<1>0. JobsInv /\ JobsInv' /\ up \in BOOLEAN
  BY NextStep DEF ReopenInv, JobsInv, TypeOK
<1>1. CASE \E j \in Jobs : Request(j)
  <2>1. up /\ up' = up
    BY <1>1, RequestUp
  <2>. QED  BY <1>0, <1>1, <2>1, RequestTight DEF ReopenInv
<1>2. CASE Recovery
  <2>1. up /\ up' = up
    BY <1>2 DEF Recovery, StartPass, TakeJob, Deliver, RecoveryQueues, StoreFeature,
                RecoveryFinishes, RecoveryCloses, Working
  <2>. QED  BY <1>0, <1>2, <2>1, RecoveryTight DEF ReopenInv
<1>3. CASE \/ \E j \in Jobs, a \in 0..MaxAttempts :
                 ReservationExpires(j, a) \/ ReservationCloses(j, a)
           \/ Tick \/ UNCHANGED vars
  <2>1. UNCHANGED <<vault, up>>
    BY <1>3 DEF ReservationExpires, ReservationCloses, Tick, vars
  <2>. QED  BY <1>0, <2>1 DEF ReopenInv
<1>4. CASE Restart
  <2>1. ~up /\ up' = TRUE /\ vault' = Load(vault).v
    BY <1>4 DEF Restart
  <2>2. Tight(Load(vault).v)
    BY <1>0, <2>1, InvTypes, LoadTight DEF ReopenInv
  <2>. QED  BY <1>0, <2>1, <2>2 DEF ReopenInv
<1>5. ASSUME NEW b \in BOOLEAN, Crash(b)
      PROVE  ReopenInv'
  <2>1. up /\ up' = FALSE
    BY <1>5 DEF Crash
  <2>. QED  BY <1>0, <1>5, <2>1, CrashBounded DEF ReopenInv
<1>. QED  BY <1>1, <1>2, <1>3, <1>4, <1>5 DEF Next

\* While the disk works, the vault opens again after a crash at any instant, for any jobs and
\* any bounds: whatever a write adds was given room on disk before, and what recovery still
\* owes, which load may not evict, is part of it.
THEOREM VaultOpens ==
    ASSUME ReuseEarly = FALSE, MaxFaults = 0
    PROVE  Spec => []VaultReopens
<1>1. Init => ReopenInv
  <2>. SUFFICES ASSUME Init PROVE ReopenInv
    OBVIOUS
  <2>1. JobsInv /\ up
    BY InitHolds DEF Init
  <2>2. Tight(vault)
    <3>1. /\ vault.sealed = [j \in Jobs |-> 0] /\ vault.disk = [j \in Jobs |-> NoRecord]
          /\ vault \in VaultType
      BY <2>1 DEF Init, EmptyVault, JobsInv, Sound
    <3>2. ZeroOn(vault.sealed, Jobs) /\ IsFiniteSet(Jobs) /\ MaxBytes \in Nat
      BY <3>1, JobsAssumption DEF ZeroOn
    <3>. PICK f : f = vault.sealed
      OBVIOUS
    <3>3. SumFunctionOnSet(f, Jobs) = 0
      BY <3>2, SumZero
    <3>. QED  BY <3>1, <3>2, <3>3 DEF Tight, Footprint
  <2>. QED  BY <2>1, <2>2 DEF ReopenInv
<1>2. ReopenInv /\ [Next]_vars => ReopenInv'
  BY ReopenStep
<1>3. ReopenInv => VaultReopens
  BY InvTypes, LoadTight DEF ReopenInv, VaultReopens
<1>. QED  BY <1>1, <1>2, <1>3, PTL DEF Spec
=============================================================================
