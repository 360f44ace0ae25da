-------------------------- MODULE SupervisorProofs --------------------------
(***************************************************************************)
(* Theorems about the node supervisor, for any children, any number of     *)
(* tasks and any number of failed writes.                                  *)
(*                                                                         *)
(* StatusTruthful is not inductive by itself: an earlier task of the same  *)
(* name writes to the same entry.  SoleOwner says that such tasks have     *)
(* ended, and TaskStepShape that a task writes to its own entry only.      *)
(***************************************************************************)
EXTENDS Supervisor, TLAPS

\* What StatusTruthful says of one task.
Shown(t) ==
    /\ children[name[t]] # NoEntry
    /\ step[t] \in {"watch", "steady"} => children[name[t]] = Started(t)
    /\ step[t] \in {"backoff", "cooldown", "returned"} => children[name[t]].pid = 0
    /\ step[t] = "backoff" => children[name[t]].crash_loop = (failures[t] >= Threshold)

Owns(t) == t \in alone /\ shutdowns[name[t]] = t

\* The other tasks of an owned name have ended.
SoleOwner ==
    /\ alone \subseteq DOMAIN name
    /\ \A t \in alone : Owns(t) =>
          \A u \in DOMAIN name : name[u] = name[t] /\ u # t => step[u] = "ended"

OwnedInv == TypeOK /\ SoleOwner /\ \A t \in alone : Owns(t) => Shown(t)

----------------------------------------------------------------------------
(* Types.                                                                  *)

\* What a task writes into the child table is an entry.
LEMMA EntriesBuilt ==
    ASSUME TypeOK, NEW t \in DOMAIN name
    PROVE  /\ t \in Tasks /\ t # 0 /\ name[t] \in Names
           /\ Started(t) \in Entries /\ Failed(t) \in Entries /\ InitialState \in Entries
<1>1. t \in Tasks /\ t # 0 /\ name[t] \in Names
  BY SupervisorAssumption DEF TypeOK, Tasks
<1>2. failures[t] \in 0..Threshold
  BY <1>1 DEF TypeOK
<1>3. (failures[t] >= Threshold) \in BOOLEAN /\ (name[t] \in Restarts /\ t \notin told) \in BOOLEAN
  OBVIOUS
<1>4. t \in 0..MaxTasks /\ 0 \in 0..MaxTasks
  BY <1>1, SupervisorAssumption DEF Tasks
<1>. QED  BY <1>1, <1>3, <1>4 DEF Started, Failed, InitialState, Entries

\* Marking a child keeps the types of the table.
LEMMA MarkTyped ==
    ASSUME TypeOK, NEW n \in Names, NEW e, children[n] # NoEntry => e \in Entries, Mark(n, e)
    PROVE  children' \in [Names -> Entries \cup {NoEntry}]
BY DEF TypeOK, Mark

\* Saving the state counts its faults.
LEMMA PersistTyped ==
    ASSUME TypeOK, NEW ok \in BOOLEAN, Persist(ok)
    PROVE  faults' \in 0..MaxFaults
<1>1. faults \in 0..MaxFaults /\ MaxFaults \in Nat
  BY SupervisorAssumption DEF TypeOK
<1>2. CASE ok
  BY <1>1, <1>2 DEF Persist
<1>3. CASE ~ok
  BY <1>1, <1>3 DEF Persist
<1>. QED  BY <1>2, <1>3

\* The failure counter stays within its threshold.
LEMMA CountTyped ==
    ASSUME NEW f \in 0..Threshold
    PROVE  CountFailure(f) \in 0..Threshold
BY SupervisorAssumption DEF CountFailure

\* What the step of a task touches: its own place in step and failures, its own process, and
\* the entry of its name.
OwnStepOnly(u) ==
    /\ step[u] # "ended" /\ UNCHANGED control
    /\ step' \in [Tasks -> Steps] /\ \A t \in Tasks : t # u => step'[t] = step[t]
    /\ failures' \in [Tasks -> 0..Threshold]
    /\ \A t \in Tasks : t # u => failures'[t] = failures[t]
    /\ children' \in [Names -> Entries \cup {NoEntry}]
    /\ \A n \in Names : n # name[u] => children'[n] = children[n]
    /\ children[name[u]] # NoEntry => children'[name[u]] # NoEntry
    /\ alive' \subseteq Tasks /\ faults' \in 0..MaxFaults

\* A step of a task touches what is its own.
LEMMA TaskStepShape ==
    ASSUME TypeOK, NEW u \in DOMAIN name, TaskStep(u)
    PROVE  OwnStepOnly(u)
<1>0. /\ u \in Tasks /\ name[u] \in Names /\ failures[u] \in 0..Threshold
      /\ 0 \in 0..Threshold
      /\ step \in [Tasks -> Steps] /\ failures \in [Tasks -> 0..Threshold]
      /\ children \in [Names -> Entries \cup {NoEntry}]
      /\ alive \subseteq Tasks /\ faults \in 0..MaxFaults
  BY EntriesBuilt, SupervisorAssumption DEF TypeOK
<1>1. NoEntry \notin Entries
  BY SupervisorAssumption
<1>2. ASSUME NEW e, children[name[u]] # NoEntry => e \in Entries, Mark(name[u], e)
      PROVE  /\ children' \in [Names -> Entries \cup {NoEntry}]
             /\ \A n \in Names : n # name[u] => children'[n] = children[n]
             /\ children[name[u]] # NoEntry => children'[name[u]] # NoEntry
  BY <1>0, <1>1, <1>2 DEF Mark
<1>3. CASE LoopTop(u)
  BY <1>0, <1>3 DEF LoopTop, Goto, Steps, OwnStepOnly
<1>4. CASE ProbeStopped(u)
  BY <1>0, <1>4 DEF ProbeStopped, Goto, Steps, OwnStepOnly
<1>5. CASE Spawn(u)
  BY <1>0, <1>5 DEF Spawn, Goto, Steps, OwnStepOnly
<1>6. CASE SpawnFails(u)
  BY <1>0, <1>6, CountTyped DEF SpawnFails, Goto, Steps, OwnStepOnly
<1>7. CASE Kill(u)
  BY <1>0, <1>7 DEF Kill, Goto, Steps, OwnStepOnly
<1>8. CASE Backoff(u)
  BY <1>0, <1>8 DEF Backoff, Goto, Steps, OwnStepOnly
<1>9. CASE Returned(u)
  BY <1>0, <1>9 DEF Returned, Goto, Steps, OwnStepOnly
<1>10. CASE Cooldown(u)
  BY <1>0, <1>10 DEF Cooldown, Goto, Steps, OwnStepOnly
<1>11. ASSUME NEW long \in BOOLEAN, Reap(u, long)
       PROVE  OwnStepOnly(u)
  <2>1. CountFailure(IF long THEN 0 ELSE failures[u]) \in 0..Threshold
    BY <1>0, CountTyped
  <2>. QED  BY <1>0, <1>11, <2>1 DEF Reap, Goto, Steps, OwnStepOnly
<1>12. ASSUME NEW ok \in BOOLEAN, MarkStarted(u, ok)
       PROVE  OwnStepOnly(u)
  <2>1. faults' \in 0..MaxFaults
    BY <1>12, PersistTyped DEF MarkStarted
  <2>2. Started(u) \in Entries /\ Started(u) # NoEntry
    BY <1>1, EntriesBuilt
  <2>. QED  BY <1>0, <1>12, <2>1, <2>2 DEF MarkStarted, Goto, Steps, OwnStepOnly
<1>13. ASSUME NEW ok \in BOOLEAN, MarkStable(u, ok)
       PROVE  OwnStepOnly(u)
  <2>1. faults' \in 0..MaxFaults
    BY <1>13, PersistTyped DEF MarkStable
  <2>2. children[name[u]] # NoEntry => [children[name[u]] EXCEPT !.crash_loop = FALSE] \in Entries
    BY <1>0 DEF Entries
  <2>3. /\ children' \in [Names -> Entries \cup {NoEntry}]
        /\ \A n \in Names : n # name[u] => children'[n] = children[n]
        /\ children[name[u]] # NoEntry => children'[name[u]] # NoEntry
    BY <1>2, <1>13, <2>2 DEF MarkStable
  <2>. QED  BY <1>0, <1>13, <2>1, <2>3 DEF MarkStable, Goto, Steps, OwnStepOnly
<1>14. ASSUME NEW ok \in BOOLEAN, MarkFailed(u, ok)
       PROVE  OwnStepOnly(u)
  <2>1. faults' \in 0..MaxFaults
    BY <1>14, PersistTyped DEF MarkFailed
  <2>3. /\ children' \in [Names -> Entries \cup {NoEntry}]
        /\ \A n \in Names : n # name[u] => children'[n] = children[n]
        /\ children[name[u]] # NoEntry => children'[name[u]] # NoEntry
    BY <1>2, <1>14, EntriesBuilt DEF MarkFailed
  <2>. QED  BY <1>0, <1>14, <2>1, <2>3 DEF MarkFailed, Goto, Steps, OwnStepOnly
<1>15. ASSUME NEW ok \in BOOLEAN, MarkStopped(u, ok)
       PROVE  OwnStepOnly(u)
  <2>1. faults' \in 0..MaxFaults
    BY <1>15, PersistTyped DEF MarkStopped
  <2>3. /\ children' \in [Names -> Entries \cup {NoEntry}]
        /\ \A n \in Names : n # name[u] => children'[n] = children[n]
        /\ children[name[u]] # NoEntry => children'[name[u]] # NoEntry
    BY <1>2, <1>15, EntriesBuilt DEF MarkStopped
  <2>. QED  BY <1>0, <1>15, <2>1, <2>3 DEF MarkStopped, Goto, Steps, OwnStepOnly
<1>16. ASSUME NEW ok \in BOOLEAN, MarkComponentFailure(u, ok)
       PROVE  OwnStepOnly(u)
  <2>1. faults' \in 0..MaxFaults
    BY <1>16, PersistTyped DEF MarkComponentFailure
  <2>2. [pid |-> 0, restart_pending |-> TRUE, crash_loop |-> TRUE] \in Entries
    BY SupervisorAssumption DEF Entries
  <2>3. /\ children' \in [Names -> Entries \cup {NoEntry}]
        /\ \A n \in Names : n # name[u] => children'[n] = children[n]
        /\ children[name[u]] # NoEntry => children'[name[u]] # NoEntry
    BY <1>2, <1>16, <2>2 DEF MarkComponentFailure
  <2>. QED  BY <1>0, <1>16, <2>1, <2>3 DEF MarkComponentFailure, Goto, Steps, OwnStepOnly
<1>. QED
  BY <1>3, <1>4, <1>5, <1>6, <1>7, <1>8, <1>9, <1>10, <1>11, <1>12, <1>13, <1>14, <1>15, <1>16
  DEF TaskStep

\* The initial states satisfy the type invariant.
LEMMA InitTyped ==
    ASSUME Init
    PROVE  TypeOK
<1>1. /\ name \in Seq(Names) /\ Len(name) <= MaxTasks /\ DOMAIN name = 1..Len(name)
      /\ MaxTasks \in Nat /\ MaxFaults \in Nat /\ Threshold \in Nat
  BY SupervisorAssumption DEF Init
<1>2. DOMAIN name \subseteq Tasks
  BY <1>1 DEF Tasks
<1>3. shutdowns \in [Names -> 0..MaxTasks]
  <2>1. ASSUME NEW n \in Names, n \in Range(name)
        PROVE  (CHOOSE t \in DOMAIN name : name[t] = n) \in DOMAIN name
    BY <2>1 DEF Range
  <2>2. \A t \in DOMAIN name : t \in 0..MaxTasks
    BY <1>1
  <2>. QED  BY <1>1, <2>1, <2>2 DEF Init
<1>4. children \in [Names -> Entries \cup {NoEntry}]
  BY <1>1 DEF Init, InitialState, Entries
<1>. QED  BY <1>1, <1>2, <1>3, <1>4 DEF Init, TypeOK, Steps, Tasks

\* Adding a task keeps the types, and names one task more.
LEMMA AddTyped ==
    ASSUME TypeOK, NEW n \in Names, NEW ok \in BOOLEAN, Add(n, ok)
    PROVE  /\ TypeOK'
           /\ ok => /\ Len(name) + 1 \in Tasks /\ Len(name) + 1 \notin DOMAIN name
                    /\ DOMAIN name' = DOMAIN name \cup {Len(name) + 1}
                    /\ name'[Len(name) + 1] = n
                    /\ \A t \in DOMAIN name : name'[t] = name[t]
<1>1. /\ faults' \in 0..MaxFaults
      /\ children' \in [Names -> Entries \cup {NoEntry}]
  <2>1. InitialState \in Entries
    BY SupervisorAssumption DEF InitialState, Entries
  <2>. QED  BY <2>1, PersistTyped DEF Add, TypeOK
<1>2. /\ name \in Seq(Names) /\ Len(name) \in Nat /\ Len(name) < MaxTasks
      /\ DOMAIN name = 1..Len(name) /\ MaxTasks \in Nat
  BY SupervisorAssumption DEF Add, TypeOK
<1>3. CASE ok
  <2>. DEFINE t == Len(name) + 1
  <2>1. t \in Tasks /\ t \in 0..MaxTasks /\ t \notin DOMAIN name
    BY <1>2 DEF Tasks
  <2>2. name' = Append(name, n)
    BY <1>3 DEF Add
  <2>3. /\ name' \in Seq(Names) /\ Len(name') = Len(name) + 1
        /\ DOMAIN name' = 1..(Len(name) + 1)
        /\ name'[t] = n /\ \A u \in DOMAIN name : name'[u] = name[u]
    BY <1>2, <2>2
  <2>4. Len(name') <= MaxTasks /\ DOMAIN name' = DOMAIN name \cup {t}
    BY <1>2, <2>3
  <2>5. /\ shutdowns' = [shutdowns EXCEPT ![n] = t]
        /\ step' = [step EXCEPT ![t] = "top"]
        /\ alone' \subseteq alone \cup {t}
        /\ UNCHANGED <<main, told, failures, alive>>
    BY <1>3 DEF Add, Goto
  <2>6. /\ shutdowns' \in [Names -> 0..MaxTasks] /\ step' \in [Tasks -> Steps]
        /\ alone' \subseteq Tasks
    BY <2>1, <2>5 DEF TypeOK, Steps
  <2>. QED  BY <1>1, <1>3, <2>1, <2>3, <2>4, <2>5, <2>6 DEF TypeOK
<1>4. CASE ~ok
  BY <1>1, <1>4 DEF Add, TypeOK
<1>. QED  BY <1>3, <1>4

\* Every step keeps the types.
LEMMA TypesKept ==
    ASSUME TypeOK, [Next]_vars
    PROVE  TypeOK'
<1>1. ASSUME NEW t \in DOMAIN name, TaskStep(t)
      PROVE  TypeOK'
  BY <1>1, TaskStepShape DEF OwnStepOnly, TypeOK, control
<1>2. ASSUME NEW t \in DOMAIN name, ProcessExits(t)
      PROVE  TypeOK'
  BY <1>2 DEF ProcessExits, TypeOK, control
<1>3. ASSUME NEW n \in Names, Remove(n)
      PROVE  TypeOK'
  <2>1. told' \subseteq Tasks
    <3>1. shutdowns[n] \in 0..MaxTasks /\ MaxTasks \in Nat
      BY SupervisorAssumption DEF TypeOK
    <3>2. shutdowns[n] # 0 => shutdowns[n] \in Tasks
      BY <3>1 DEF Tasks
    <3>. QED  BY <1>3, <3>2 DEF Remove, TypeOK
  <2>2. 0 \in 0..MaxTasks
    BY SupervisorAssumption
  <2>. QED  BY <1>3, <2>1, <2>2 DEF Remove, TypeOK
<1>4. ASSUME NEW n \in Names, NEW ok \in BOOLEAN, Add(n, ok)
      PROVE  TypeOK'
  BY <1>4, AddTyped
<1>5. CASE Shutdown
  <2>1. told' \subseteq Tasks
    BY <1>5, EntriesBuilt DEF Shutdown, TypeOK
  <2>. QED  BY <1>5, <2>1 DEF Shutdown, TypeOK
<1>6. CASE Exit
  BY <1>6 DEF Exit, TypeOK
<1>7. CASE UNCHANGED vars
  BY <1>7 DEF vars, TypeOK
<1>. QED  BY <1>1, <1>2, <1>3, <1>4, <1>5, <1>6, <1>7 DEF Next

\* Type correctness of the supervisor: tasks, entries and counters stay in their ranges
\* through every mark, request and fault (run_supervisor and supervise_child).
THEOREM SupervisorTyped == Spec => []TypeOK
<1>1. Init => TypeOK
  BY InitTyped
<1>2. TypeOK /\ [Next]_vars => TypeOK'
  BY TypesKept
<1>. QED  BY <1>1, <1>2, PTL DEF Spec

----------------------------------------------------------------------------
(* Status.                                                                 *)

\* The initial states satisfy the invariant.
LEMMA InitOwned ==
    ASSUME Init
    PROVE  OwnedInv
<1>1. TypeOK
  BY InitTyped
<1>2. \A t, u \in DOMAIN name : name[u] = name[t] => u = t
  BY SupervisorAssumption DEF Init
<1>3. SoleOwner
  BY <1>2 DEF SoleOwner, Init
<1>4. ASSUME NEW t \in alone
      PROVE  Shown(t)
  <2>1. t \in DOMAIN name /\ t \in Tasks /\ name[t] \in Names /\ InitialState \in Entries
    BY <1>1, EntriesBuilt DEF Init
  <2>2. children[name[t]] = InitialState /\ step[t] = "top"
    BY <2>1 DEF Init, Range
  <2>. QED  BY <2>1, <2>2, SupervisorAssumption DEF Shown
<1>. QED  BY <1>1, <1>3, <1>4 DEF OwnedInv

\* A task that owns its name leaves its entry true behind.
LEMMA OwnStepShown ==
    ASSUME TypeOK, NEW t \in DOMAIN name, TaskStep(t), Shown(t)
    PROVE  Shown(t)'
<1>0. /\ t \in Tasks /\ name[t] \in Names /\ name' = name
      /\ step \in [Tasks -> Steps] /\ failures \in [Tasks -> 0..Threshold]
      /\ children \in [Names -> Entries \cup {NoEntry}]
      /\ children[name[t]] # NoEntry /\ children'[name[t]] # NoEntry
      /\ children[name[t]] \in Entries
      /\ Threshold \in Nat \ {0}
  BY EntriesBuilt, TaskStepShape, SupervisorAssumption DEF TypeOK, OwnStepOnly, Shown, control
<1>1. ASSUME step'[t] \notin {"watch", "steady", "backoff", "cooldown", "returned"}
      PROVE  Shown(t)'
  BY <1>0, <1>1 DEF Shown
<1>2. CASE LoopTop(t) \/ ProbeStopped(t) \/ Spawn(t) \/ SpawnFails(t) \/ Kill(t) \/ Returned(t)
  BY <1>0, <1>1, <1>2 DEF LoopTop, ProbeStopped, Spawn, SpawnFails, Kill, Returned, Goto
<1>3. CASE Backoff(t)
  <2>1. step[t] = "backoff" /\ children' = children /\ step'[t] \in {"top", "returned"}
    BY <1>0, <1>3 DEF Backoff, Goto
  <2>. QED  BY <1>0, <2>1 DEF Shown
<1>4. CASE Cooldown(t)
  BY <1>0, <1>1, <1>4 DEF Cooldown, Goto
<1>5. ASSUME NEW long \in BOOLEAN, Reap(t, long)
      PROVE  Shown(t)'
  BY <1>0, <1>1, <1>5 DEF Reap, Goto
<1>6. ASSUME NEW ok \in BOOLEAN, MarkStarted(t, ok)
      PROVE  Shown(t)'
  <2>1. /\ children'[name[t]] = Started(t) /\ failures' = failures
        /\ step'[t] \in {"watch", "fault"}
    BY <1>0, <1>6 DEF MarkStarted, Goto
  <2>. QED  BY <1>0, <2>1 DEF Shown, Started
<1>7. ASSUME NEW ok \in BOOLEAN, MarkStable(t, ok)
      PROVE  Shown(t)'
  <2>1. /\ children[name[t]] = Started(t)
        /\ children'[name[t]] = [children[name[t]] EXCEPT !.crash_loop = FALSE]
        /\ failures'[t] = 0 /\ step'[t] = "steady"
    BY <1>0, <1>7 DEF MarkStable, Mark, Goto, Shown
  <2>2. (failures'[t] >= Threshold) = FALSE
    BY <1>0, <2>1
  <2>3. children'[name[t]] = Started(t)'
    <3>0. /\ children[name[t]].pid = t /\ children[name[t]].restart_pending = FALSE
          /\ t \in 0..MaxTasks
      BY <1>0, <2>1, SupervisorAssumption DEF Started, Tasks
    <3>1. [children[name[t]] EXCEPT !.crash_loop = FALSE]
             = [pid |-> t, restart_pending |-> FALSE, crash_loop |-> FALSE]
      <4>. DEFINE x == [children[name[t]] EXCEPT !.crash_loop = FALSE]
                  y == [pid |-> t, restart_pending |-> FALSE, crash_loop |-> FALSE]
      <4>1. x \in Entries /\ x.pid = t /\ x.restart_pending = FALSE /\ x.crash_loop = FALSE
        BY <1>0, <3>0 DEF Entries
      <4>2. y \in Entries /\ y.pid = t /\ y.restart_pending = FALSE /\ y.crash_loop = FALSE
        BY <3>0 DEF Entries
      <4>3. \A e, f \in Entries :
               e.pid = f.pid /\ e.restart_pending = f.restart_pending
               /\ e.crash_loop = f.crash_loop => e = f
        BY DEF Entries
      <4>. HIDE DEF x, y
      <4>4. x = y
        BY <4>1, <4>2, <4>3
      <4>. QED  BY <4>4 DEF x, y
    <3>2. Started(t)' = [pid |-> t, restart_pending |-> FALSE, crash_loop |-> FALSE]
      BY <2>2 DEF Started
    <3>. QED  BY <2>1, <3>1, <3>2
  <2>. QED  BY <1>0, <2>1, <2>3 DEF Shown
<1>8. ASSUME NEW ok \in BOOLEAN, MarkFailed(t, ok)
      PROVE  Shown(t)'
  <2>1. /\ children'[name[t]] = Failed(t) /\ failures' = failures
        /\ step'[t] \in {"fault", "returned", "backoff"}
    BY <1>0, <1>8 DEF MarkFailed, Mark, Goto
  <2>2. /\ Failed(t).pid = 0 /\ Failed(t).crash_loop = (failures[t] >= Threshold)
    BY DEF Failed
  <2>3. /\ children'[name'[t]].pid = 0
        /\ children'[name'[t]].crash_loop = (failures'[t] >= Threshold)
    BY <1>0, <2>1, <2>2, Zenon
  <2>4. step'[t] \notin {"watch", "steady"} /\ children'[name'[t]] # NoEntry
    BY <1>0, <2>1
  <2>. QED  BY <2>3, <2>4, Zenon DEF Shown
<1>9. ASSUME NEW ok \in BOOLEAN, MarkStopped(t, ok)
      PROVE  Shown(t)'
  <2>1. children'[name[t]] = InitialState /\ step'[t] \in {"fault", "returned"}
    BY <1>0, <1>9 DEF MarkStopped, Mark, Goto
  <2>2. InitialState.pid = 0
    BY DEF InitialState
  <2>. QED  BY <1>0, <2>1, <2>2 DEF Shown
<1>10. ASSUME NEW ok \in BOOLEAN, MarkComponentFailure(t, ok)
       PROVE  Shown(t)'
  <2>1. children'[name[t]].pid = 0 /\ step'[t] = "cooldown"
    BY <1>0, <1>10 DEF MarkComponentFailure, Mark, Goto
  <2>. QED  BY <1>0, <2>1 DEF Shown
<1>. QED
  BY <1>2, <1>3, <1>4, <1>5, <1>6, <1>7, <1>8, <1>9, <1>10 DEF TaskStep

\* Shown(t) depends on the entry of t's name and on the place of t only.
LEMMA ShownKept ==
    ASSUME NEW t, Shown(t), name'[t] = name[t], children'[name[t]] = children[name[t]],
           step'[t] = step[t], failures'[t] = failures[t]
    PROVE  Shown(t)'
BY DEF Shown, Started

\* Every step keeps the invariant.
LEMMA OwnedKept ==
    ASSUME OwnedInv, [Next]_vars
    PROVE  OwnedInv'
<1>0. TypeOK /\ TypeOK'
  BY TypesKept DEF OwnedInv
<1>1. alone \subseteq DOMAIN name
  BY DEF OwnedInv, SoleOwner
<1>2. ASSUME NEW u \in DOMAIN name, TaskStep(u)
      PROVE  OwnedInv'
  <2>1. OwnStepOnly(u)
    BY <1>0, <1>2, TaskStepShape
  <2>2. /\ step[u] # "ended" /\ name' = name /\ alone' = alone /\ shutdowns' = shutdowns
        /\ \A t \in Tasks : t # u => step'[t] = step[t] /\ failures'[t] = failures[t]
        /\ \A n \in Names : n # name[u] => children'[n] = children[n]
    BY <2>1 DEF OwnStepOnly, control
  <2>3. \A t \in DOMAIN name : t \in Tasks /\ name[t] \in Names
    BY <1>0, EntriesBuilt
  <2>4. ASSUME NEW t \in alone, Owns(t)
        PROVE  \A v \in DOMAIN name : name[v] = name[t] /\ v # t => v # u /\ step'[v] = "ended"
    BY <2>2, <2>3, <2>4 DEF OwnedInv, SoleOwner
  <2>5. SoleOwner'
    BY <1>1, <2>2, <2>4 DEF SoleOwner, Owns
  <2>6. ASSUME NEW t \in alone, Owns(t)
        PROVE  Shown(t)'
    <3>1. t \in DOMAIN name /\ t \in Tasks /\ name[t] \in Names /\ Shown(t)
      BY <1>1, <2>3, <2>6 DEF OwnedInv
    <3>2. CASE t = u
      BY <1>0, <1>2, <3>1, <3>2, OwnStepShown
    <3>3. CASE t # u
      <4>1. name[u] # name[t]
        BY <2>4, <2>6, <3>3
      <4>. QED  BY <2>2, <3>1, <3>3, <4>1, ShownKept
    <3>. QED  BY <3>2, <3>3
  <2>7. \A t \in alone' : Owns(t)' => Shown(t)'
    BY <2>2, <2>6 DEF Owns
  <2>. QED  BY <1>0, <2>5, <2>7 DEF OwnedInv
<1>3. ASSUME NEW u \in DOMAIN name, ProcessExits(u)
      PROVE  OwnedInv'
  BY <1>0, <1>3 DEF ProcessExits, control, OwnedInv, SoleOwner, Owns, Shown, Started
<1>4. ASSUME NEW n \in Names, Remove(n)
      PROVE  OwnedInv'
  <2>1. /\ name' = name /\ alone' = alone /\ step' = step /\ failures' = failures
        /\ shutdowns' = [shutdowns EXCEPT ![n] = 0]
        /\ children' = [children EXCEPT ![n] = NoEntry]
    BY <1>4 DEF Remove
  <2>2. \A t \in DOMAIN name : t \in Tasks /\ t # 0 /\ name[t] \in Names
    BY <1>0, EntriesBuilt
  <2>3. ASSUME NEW t \in alone, Owns(t)'
        PROVE  Owns(t) /\ name[t] # n /\ children'[name[t]] = children[name[t]]
    BY <1>0, <1>1, <2>1, <2>2, <2>3 DEF Owns, TypeOK
  <2>4. SoleOwner'
    <3>1. \A t \in alone : Owns(t)' => Owns(t)
      BY <2>3
    <3>. QED  BY <2>1, <3>1 DEF OwnedInv, SoleOwner
  <2>5. ASSUME NEW t \in alone, Owns(t)'
        PROVE  Shown(t)'
    BY <2>1, <2>3, <2>5, ShownKept DEF OwnedInv
  <2>. QED  BY <1>0, <2>1, <2>4, <2>5 DEF OwnedInv
<1>5. ASSUME NEW n \in Names, NEW ok \in BOOLEAN, Add(n, ok)
      PROVE  OwnedInv'
  <2>. DEFINE s == Len(name) + 1
  <2>1. /\ children[n] = NoEntry /\ shutdowns[n] = 0
        /\ children' = [children EXCEPT ![n] = InitialState] /\ failures' = failures
        /\ children'[n] = InitialState /\ \A m \in Names : m # n => children'[m] = children[m]
    BY <1>0, <1>5 DEF Add, TypeOK
  <2>2. \A t \in DOMAIN name : t \in Tasks /\ t # 0 /\ name[t] \in Names
    BY <1>0, EntriesBuilt
  <2>3. ASSUME NEW t \in alone, Owns(t)
        PROVE  name[t] # n /\ children'[name[t]] = children[name[t]]
    BY <1>1, <2>1, <2>2, <2>3 DEF Owns
  <2>4. CASE ~ok
    <3>1. name' = name /\ shutdowns' = shutdowns /\ step' = step /\ alone' = alone
      BY <1>5, <2>4 DEF Add
    <3>2. SoleOwner'
      BY <3>1 DEF OwnedInv, SoleOwner, Owns
    <3>3. \A t \in alone' : Owns(t)' => Owns(t)
      BY <3>1 DEF Owns
    <3>4. \A t \in alone' : Owns(t)' => Shown(t)'
      BY <2>1, <2>3, <3>1, <3>3, ShownKept DEF OwnedInv
    <3>. QED  BY <1>0, <3>2, <3>4 DEF OwnedInv
  <2>5. CASE ok
    <3>1. /\ s \in Tasks /\ s \notin DOMAIN name
          /\ DOMAIN name' = DOMAIN name \cup {s} /\ name'[s] = n
          /\ \A t \in DOMAIN name : name'[t] = name[t]
      BY <1>0, <1>5, <2>5, AddTyped
    <3>2. /\ shutdowns' = [shutdowns EXCEPT ![n] = s] /\ step' = [step EXCEPT ![s] = "top"]
          /\ alone' = IF Ended(n) THEN alone \cup {s} ELSE alone
      BY <1>5, <2>5 DEF Add, Goto
    <3>3. step'[s] = "top" /\ \A t \in DOMAIN name : step'[t] = step[t]
      BY <1>0, <2>2, <3>1, <3>2 DEF TypeOK
    <3>4. shutdowns'[n] = s /\ \A m \in Names : m # n => shutdowns'[m] = shutdowns[m]
      BY <1>0, <3>2 DEF TypeOK
    <3>5. ASSUME NEW t \in alone, Owns(t)'
          PROVE  t \in DOMAIN name /\ t # s /\ name[t] # n /\ name'[t] = name[t] /\ Owns(t)
      BY <1>1, <2>2, <3>1, <3>4, <3>5 DEF Owns
    <3>6. ASSUME NEW t \in alone', t \notin alone
          PROVE  t = s /\ \A u \in DOMAIN name : name[u] = n => step[u] = "ended"
      BY <3>2, <3>6 DEF Ended
    <3>7. ASSUME NEW t \in alone', Owns(t)', NEW u \in DOMAIN name', name'[u] = name'[t], u # t
          PROVE  step'[u] = "ended"
      <4>1. CASE t \in alone
        <5>1. u \in DOMAIN name /\ name[u] = name[t]
          BY <3>1, <3>5, <3>7, <4>1
        <5>. QED  BY <3>3, <3>5, <3>7, <4>1, <5>1 DEF OwnedInv, SoleOwner
      <4>2. CASE t \notin alone
        BY <3>1, <3>3, <3>6, <3>7, <4>2
      <4>. QED  BY <4>1, <4>2
    <3>8. alone' \subseteq DOMAIN name'
      BY <1>1, <3>1, <3>2
    <3>9. SoleOwner'
      BY <3>7, <3>8 DEF SoleOwner
    <3>10. ASSUME NEW t \in alone', Owns(t)'
           PROVE  Shown(t)'
      <4>1. CASE t \in alone
        <5>1. /\ Shown(t) /\ name'[t] = name[t] /\ children'[name[t]] = children[name[t]]
              /\ step'[t] = step[t] /\ failures'[t] = failures[t]
          BY <2>1, <2>3, <3>3, <3>5, <3>10, <4>1 DEF OwnedInv
        <5>. QED  BY <5>1, ShownKept
      <4>2. CASE t \notin alone
        <5>1. t = s
          BY <3>6, <4>2
        <5>2. children'[name'[t]] = InitialState /\ step'[t] = "top"
          BY <2>1, <3>1, <3>3, <5>1
        <5>3. InitialState # NoEntry
          <6>1. InitialState \in Entries
            BY SupervisorAssumption DEF InitialState, Entries
          <6>. QED  BY <6>1, SupervisorAssumption
        <5>. QED  BY <5>2, <5>3 DEF Shown
      <4>. QED  BY <4>1, <4>2
    <3>. QED  BY <1>0, <3>9, <3>10 DEF OwnedInv
  <2>. QED  BY <2>4, <2>5
<1>6. CASE Shutdown
  BY <1>0, <1>6 DEF Shutdown, OwnedInv, SoleOwner, Owns, Shown, Started
<1>7. CASE Exit
  BY <1>0, <1>7 DEF Exit, OwnedInv, SoleOwner, Owns, Shown, Started
<1>8. CASE UNCHANGED vars
  BY <1>0, <1>8 DEF vars, OwnedInv, SoleOwner, Owns, Shown, Started
<1>. QED  BY <1>2, <1>3, <1>4, <1>5, <1>6, <1>7, <1>8 DEF Next

\* Status is true (StatusTruthful): what the table of children says of a child is what its
\* task does, for any number of children, tasks and failed writes of the state file
\* (mark_child_started, mark_child_failed, mark_child_stopped and supervise_child).
THEOREM StatusIsTrue == Spec => []StatusTruthful
<1>1. Init => OwnedInv
  BY InitOwned
<1>2. OwnedInv /\ [Next]_vars => OwnedInv'
  BY OwnedKept
<1>3. OwnedInv => StatusTruthful
  BY DEF OwnedInv, Owns, Shown, StatusTruthful
<1>. QED  BY <1>1, <1>2, <1>3, PTL DEF Spec
=============================================================================
