--------------------------- MODULE JobLifecycle ----------------------------
(***************************************************************************)
(* What the gateway promises of the jobs in its vault                      *)
(* (crates/mayhem-gateway/DURABLE_STREAMING.md): an idempotency key runs   *)
(* once, an execution that may owe money is pending until it is settled    *)
(* and is neither forgotten nor run again before that, and a terminal      *)
(* status is final until the record is forgotten.  GatewayJobs implements  *)
(* this specification.                                                     *)
(***************************************************************************)
CONSTANT Jobs

VARIABLE life    \* life[j]: "free", "accepted", "running", "pending" or a terminal status

Ended == {"completed", "cancelled", "failed"}

LifeInit == life = [j \in Jobs |-> "free"]

\* The moves of one job.  Nothing is owed for an accepted request that was not dispatched:
\* it may end or be forgotten.  Once it runs it can only become pending, and once pending it
\* can only end.  Several jobs may move at once: a crash ends every execution, and the
\* admission of one job forgets another.
Moves ==
    [free |-> {"free", "accepted"},
     accepted |-> {"accepted", "running", "free"} \cup Ended,
     running |-> {"running", "pending"},
     pending |-> {"pending"} \cup Ended,
     completed |-> {"completed", "free"},
     cancelled |-> {"cancelled", "free"},
     failed |-> {"failed", "free"}]

LifeNext ==
    /\ DOMAIN life' = Jobs
    /\ \A j \in Jobs : life'[j] \in Moves[life[j]]

LifeSpec == LifeInit /\ [][LifeNext]_life
=============================================================================
