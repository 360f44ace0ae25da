----------------------------- MODULE Supervisor -----------------------------
(***************************************************************************)
(* The node supervisor (crates/mayhemd/src/main.rs): one supervision task  *)
(* per child, each with its process, and a main loop that adds and removes *)
(* children on request and shuts everything down.  Tasks share one table   *)
(* of child states, keyed by the child's name only, and every change of it *)
(* is followed by a write of the state file that may fail.                 *)
(*                                                                         *)
(* Task t is the t-th task started, for the child name[t]: a removed child *)
(* may still be stopping when its name is added again.  An entry's pid is  *)
(* the task whose process it shows, 0 for none; `running` is set and     *)
(* cleared together with it.  Times, exit texts, arguments and the HTTP    *)
(* side are left out, and so is the size of the back-off.  A request that  *)
(* is refused changes nothing and is not a step.                           *)
(*                                                                         *)
(* Definitions marked "Mutant" are faulty variants that the properties     *)
(* are tested against; no specification uses them.                         *)
(***************************************************************************)
EXTENDS Integers, Sequences

CONSTANTS
    Names,       \* child names
    Configured,  \* the children of the configuration file, a sequence of names
    Restarts,    \* the children with restart = true
    Threshold,   \* crash_loop_threshold
    MaxTasks,    \* supervision tasks started (bound)
    MaxFaults,   \* failing writes of the state file (bound)
    NoEntry      \* the absent entry

Tasks   == 1..MaxTasks
Entries == [pid: 0..MaxTasks, restart_pending: BOOLEAN, crash_loop: BOOLEAN]

ASSUME SupervisorAssumption ==
    /\ Restarts \subseteq Names
    /\ Threshold \in Nat \ {0} /\ MaxTasks \in Nat \ {0} /\ MaxFaults \in Nat
    /\ Configured \in Seq(Names) /\ Len(Configured) <= MaxTasks
    /\ \A i, j \in 1..Len(Configured) : Configured[i] = Configured[j] => i = j
    /\ NoEntry \notin Entries

VARIABLES
    main,       \* run_supervisor: "run", "stopping", "exited"
    shutdowns,  \* shutdowns[n]: the task whose sender child_shutdowns holds, 0 for none
    name,       \* name[t]: the child of task t, for the tasks started so far
    children,   \* children[n]: the entry of SupervisorState.children
    step,       \* step[t]: where the task is
    told,       \* the tasks whose shutdown channel carries true
    failures,   \* failures[t]: consecutive_failures, counted up to Threshold
    alive,      \* the tasks whose process runs
    alone,      \* tasks whose predecessors had all ended when they were added (history)
    faults      \* failed writes so far

vars == <<main, shutdowns, name, children, step, told, failures, alive, alone, faults>>
control == <<main, shutdowns, name, told, alone>>

Steps == {"unused", "top", "launch", "mark_started", "watch", "steady", "mark_failed",
          "mark_unspawned", "mark_stopped", "backoff", "returned", "fault", "cooldown", "ended"}

TypeOK ==
    /\ main \in {"run", "stopping", "exited"}
    /\ shutdowns \in [Names -> 0..MaxTasks]
    /\ name \in Seq(Names) /\ Len(name) <= MaxTasks
    /\ children \in [Names -> Entries \cup {NoEntry}]
    /\ step \in [Tasks -> Steps]
    /\ failures \in [Tasks -> 0..Threshold]
    /\ told \subseteq Tasks /\ alive \subseteq Tasks /\ alone \subseteq Tasks
    /\ faults \in 0..MaxFaults

Range(s) == {s[i] : i \in DOMAIN s}

\* ChildConfig::initial_state
InitialState == [pid |-> 0, restart_pending |-> FALSE, crash_loop |-> FALSE]

Init ==
    /\ main = "run"
    /\ name = Configured
    /\ shutdowns = [n \in Names |->
                      IF n \in Range(name) THEN CHOOSE t \in DOMAIN name : name[t] = n ELSE 0]
    /\ children = [n \in Names |-> IF n \in Range(name) THEN InitialState ELSE NoEntry]
    /\ step = [t \in Tasks |-> IF t \in DOMAIN name THEN "top" ELSE "unused"]
    /\ told = {} /\ alive = {}
    /\ failures = [t \in Tasks |-> 0]
    /\ alone = DOMAIN name
    /\ faults = 0

\* persist_state: the snapshot is written, or the write fails.
Persist(ok) ==
    /\ ~ok => faults < MaxFaults
    /\ faults' = IF ok THEN faults ELSE faults + 1

Goto(t, s) == step' = [step EXCEPT ![t] = s]

\* Most marks change an entry only if the name has one.
Mark(n, e) == children' = IF children[n] = NoEntry THEN children ELSE [children EXCEPT ![n] = e]

----------------------------------------------------------------------------
(* supervise_child.                                                        *)

\* The head of the loop: a shutdown seen here stops the task before a start.
LoopTop(t) ==
    /\ step[t] = "top"
    /\ Goto(t, IF t \in told THEN "mark_stopped" ELSE "launch")
    /\ UNCHANGED <<control, children, failures, alive, faults>>

\* wait_for_startup_probes gives up on a shutdown.
ProbeStopped(t) ==
    /\ step[t] = "launch" /\ t \in told
    /\ Goto(t, "mark_stopped")
    /\ UNCHANGED <<control, children, failures, alive, faults>>

\* The dependencies answer and the process is spawned, without a second look at shutdown.
Spawn(t) ==
    /\ step[t] = "launch"
    /\ alive' = alive \cup {t}
    /\ Goto(t, "mark_started")
    /\ UNCHANGED <<control, children, failures, faults>>

CountFailure(f) == IF f < Threshold THEN f + 1 ELSE f

SpawnFails(t) ==
    /\ step[t] = "launch"
    /\ failures' = [failures EXCEPT ![t] = CountFailure(@)]
    /\ Goto(t, "mark_unspawned")
    /\ UNCHANGED <<control, children, alive, faults>>

Started(t) == [pid |-> t, restart_pending |-> FALSE, crash_loop |-> failures[t] >= Threshold]

\* mark_child_started inserts the entry if it is missing.  When the write fails the handle
\* of the process is dropped, which kills it (kill_on_drop).
MarkStarted(t, ok) ==
    /\ step[t] = "mark_started"
    /\ children' = [children EXCEPT ![name[t]] = Started(t)]
    /\ Persist(ok)
    /\ Goto(t, IF ok THEN "watch" ELSE "fault")
    /\ alive' = IF ok THEN alive ELSE alive \ {t}
    /\ UNCHANGED <<control, failures>>

\* The stable timer fires once per process; a failed write is only logged.
MarkStable(t, ok) ==
    /\ step[t] = "watch"
    /\ failures' = [failures EXCEPT ![t] = 0]
    /\ Mark(name[t], [children[name[t]] EXCEPT !.crash_loop = FALSE])
    /\ Persist(ok)
    /\ Goto(t, "steady")
    /\ UNCHANGED <<control, alive>>

\* process.wait returns.  A process that was up long enough starts a new count, whether or
\* not the timer was served first.
Reap(t, long) ==
    /\ step[t] \in {"watch", "steady"} /\ t \notin alive
    /\ step[t] = "steady" => long
    /\ failures' = [failures EXCEPT ![t] = CountFailure(IF long THEN 0 ELSE @)]
    /\ Goto(t, "mark_failed")
    /\ UNCHANGED <<control, children, alive, faults>>

Failed(t) == [pid |-> 0, restart_pending |-> name[t] \in Restarts /\ t \notin told,
              crash_loop |-> failures[t] >= Threshold]

\* The task ends with a child without restart, and with a shutdown seen after an exit;
\* after a failed start the back-off sees the shutdown.
Returns(t) == name[t] \notin Restarts \/ (step[t] = "mark_failed" /\ t \in told)

\* Mutant: the failure is noted without taking back the pid.
MarkFailedKeepsPid(t, ok) ==
    /\ step[t] \in {"mark_failed", "mark_unspawned"}
    /\ Mark(name[t], [Failed(t) EXCEPT !.pid = children[name[t]].pid])
    /\ Persist(ok)
    /\ Goto(t, CASE ~ok -> "fault"
                 [] ok /\ Returns(t) -> "returned"
                 [] OTHER -> "backoff")
    /\ UNCHANGED <<control, failures, alive>>

\* mark_child_failed with what was counted, and the decision to return or to try again.
MarkFailed(t, ok) ==
    /\ step[t] \in {"mark_failed", "mark_unspawned"}
    /\ Mark(name[t], Failed(t))
    /\ Persist(ok)
    /\ Goto(t, CASE ~ok -> "fault"
                 [] ok /\ Returns(t) -> "returned"
                 [] OTHER -> "backoff")
    /\ UNCHANGED <<control, failures, alive>>

\* A shutdown while the process runs: kill and wait.
Kill(t) ==
    /\ step[t] \in {"watch", "steady"} /\ t \in told
    /\ alive' = alive \ {t}
    /\ Goto(t, "mark_stopped")
    /\ UNCHANGED <<control, children, failures, faults>>

MarkStopped(t, ok) ==
    /\ step[t] = "mark_stopped"
    /\ Mark(name[t], InitialState)
    /\ Persist(ok)
    /\ Goto(t, IF ok THEN "returned" ELSE "fault")
    /\ UNCHANGED <<control, failures, alive>>

\* Sleeping before the next start, or told to stop; the entry is left as it is.
Backoff(t) ==
    /\ step[t] = "backoff"
    /\ Goto(t, "top") \/ (t \in told /\ Goto(t, "returned"))
    /\ UNCHANGED <<control, children, failures, alive, faults>>

----------------------------------------------------------------------------
(* supervise_child_component.                                              *)

\* supervise_child returned Ok: the task is over when it was told to stop, which a child
\* without restart waits for.
Returned(t) ==
    /\ step[t] = "returned"
    /\ t \in told \/ name[t] \in Restarts
    /\ Goto(t, IF t \in told THEN "ended" ELSE "fault")
    /\ UNCHANGED <<control, children, failures, alive, faults>>

\* Mutant: a task that failed is given up.
ComponentFailureIsFinal(t, ok) ==
    /\ step[t] = "fault"
    /\ Mark(name[t], [pid |-> 0, restart_pending |-> TRUE, crash_loop |-> TRUE])
    /\ Persist(ok)
    /\ Goto(t, "ended")
    /\ UNCHANGED <<control, failures, alive>>

\* mark_child_component_failure; a failed write is only logged.
MarkComponentFailure(t, ok) ==
    /\ step[t] = "fault"
    /\ Mark(name[t], [pid |-> 0, restart_pending |-> TRUE, crash_loop |-> TRUE])
    /\ Persist(ok)
    /\ Goto(t, "cooldown")
    /\ UNCHANGED <<control, failures, alive>>

\* A fresh supervise_child starts with its counters at zero, unless the task is told to stop.
Cooldown(t) ==
    /\ step[t] = "cooldown"
    /\ \/ Goto(t, "top") /\ failures' = [failures EXCEPT ![t] = 0]
       \/ t \in told /\ Goto(t, "ended") /\ UNCHANGED failures
    /\ UNCHANGED <<control, children, alive, faults>>

----------------------------------------------------------------------------
(* The main loop.                                                          *)

Ended(n) == \A t \in DOMAIN name : name[t] = n => step[t] = "ended"

\* handle_supervisor_command, Add: refused when the name has a sender or an entry.  When
\* the write fails the entry stays and no task is started.
Add(n, ok) ==
    /\ main = "run" /\ Len(name) < MaxTasks
    /\ shutdowns[n] = 0 /\ children[n] = NoEntry
    /\ children' = [children EXCEPT ![n] = InitialState]
    /\ Persist(ok)
    /\ IF ok
       THEN LET t == Len(name) + 1 IN
            /\ name' = Append(name, n)
            /\ shutdowns' = [shutdowns EXCEPT ![n] = t]
            /\ Goto(t, "top")
            /\ alone' = IF Ended(n) THEN alone \cup {t} ELSE alone
       ELSE UNCHANGED <<name, shutdowns, step, alone>>
    /\ UNCHANGED <<main, told, failures, alive>>

\* Remove: the sender is taken out and told, and the entry goes.  No other request is
\* handled in between, and what a task writes there in between goes with the entry.
Remove(n) ==
    /\ main = "run"
    /\ shutdowns[n] # 0 \/ children[n] # NoEntry
    /\ told' = IF shutdowns[n] = 0 THEN told ELSE told \cup {shutdowns[n]}
    /\ shutdowns' = [shutdowns EXCEPT ![n] = 0]
    /\ children' = [children EXCEPT ![n] = NoEntry]
    /\ UNCHANGED <<main, name, step, failures, alive, alone, faults>>

\* The main loop takes a signal and ends: every task that still has a sender is told.  (A
\* signal that arrives while a request is being handled is not taken: the next turn of the
\* loop listens anew.)
Shutdown ==
    /\ main = "run"
    /\ main' = "stopping"
    /\ told' = told \cup {t \in DOMAIN name : shutdowns[name[t]] = t}
    /\ UNCHANGED <<shutdowns, name, children, step, failures, alive, alone, faults>>

\* run_supervisor returns when every task has been joined.
Exit ==
    /\ main = "stopping" /\ \A n \in Names : Ended(n)
    /\ main' = "exited"
    /\ UNCHANGED <<shutdowns, name, children, step, told, failures, alive, alone, faults>>

----------------------------------------------------------------------------
\* The process ends by itself: environment.
ProcessExits(t) ==
    /\ t \in alive
    /\ alive' = alive \ {t}
    /\ UNCHANGED <<control, children, step, failures, faults>>

TaskStep(t) ==
    \/ LoopTop(t) \/ ProbeStopped(t) \/ Spawn(t) \/ SpawnFails(t) \/ Kill(t)
    \/ Backoff(t) \/ Returned(t) \/ Cooldown(t)
    \/ \E long \in BOOLEAN : Reap(t, long)
    \/ \E ok \in BOOLEAN :
          \/ MarkStarted(t, ok) \/ MarkStable(t, ok) \/ MarkFailed(t, ok)
          \/ MarkStopped(t, ok) \/ MarkComponentFailure(t, ok)

Next ==
    \/ \E t \in DOMAIN name : TaskStep(t) \/ ProcessExits(t)
    \/ \E n \in Names : Remove(n) \/ \E ok \in BOOLEAN : Add(n, ok)
    \/ Shutdown \/ Exit

Spec == Init /\ [][Next]_vars

\* The runtime schedules every task, a kill and a wait return, the main loop joins; a start
\* that is tried again and again succeeds in the end.  Nothing is assumed of requests,
\* signals or the processes.
Fairness ==
    /\ \A t \in Tasks : WF_vars(TaskStep(t)) /\ SF_vars(Spawn(t))
    /\ WF_vars(Exit)

FairSpec == Spec /\ Fairness

----------------------------------------------------------------------------
(* Properties.                                                             *)

\* What status reports of a child is what its task does, through failed writes and faults of
\* the task: a process that is watched is shown, none is shown during a back-off, and a
\* crash loop is reported as long as the task counts one (mark_child_* and
\* supervise_child).  It is stated of a task no other task of that name can still write for.
StatusTruthful ==
    \A t \in alone : shutdowns[name[t]] = t =>
        /\ children[name[t]] # NoEntry
        /\ step[t] \in {"watch", "steady"} => children[name[t]] = Started(t)
        /\ step[t] \in {"backoff", "cooldown", "returned"} => children[name[t]].pid = 0
        /\ step[t] = "backoff" => children[name[t]].crash_loop = (failures[t] >= Threshold)

Wanted(t) ==
    /\ main = "run" /\ t \in DOMAIN name
    /\ name[t] \in Restarts /\ shutdowns[name[t]] = t

\* A task does what it was last told, whatever it is doing at that moment: a child that is
\* removed, or a supervisor that is shut down, comes to its end and leaves no process; a
\* child with restart is started again after every exit, failed start, failed write and
\* fault of its task, until then (supervise_child and supervise_child_component).
TasksObey ==
    /\ \A t \in Tasks : t \in told ~> (step[t] = "ended" /\ t \notin alive)
    /\ main = "stopping" ~> (main = "exited" /\ alive = {})
    /\ \A t \in Tasks : (t \notin alive /\ Wanted(t)) ~> (t \in alive \/ ~Wanted(t))

\* "Remove" takes the child out of the state (supervisor_control_add_remove_child_updates_state):
\* without failed writes, an entry has a task that owns it.
RemovedStaysGone == \A n \in Names : children[n] # NoEntry => shutdowns[n] # 0
=============================================================================
