------------------------------ MODULE TaskLease ------------------------------
(***************************************************************************)
(* What a leased work queue promises, without tokens, rows, clocks or SQL. *)
(*                                                                         *)
(* A task is submitted, granted to one worker at a time, and ends either   *)
(* done or dead.  It ends done only at the hands of the worker it is       *)
(* granted to at that moment, it is granted at most Budget times, and it   *)
(* is handed back for another try only while budget is left.  A worker may *)
(* lose its grant at any time (it crashed, or the task was granted to      *)
(* somebody else because the grant had gone stale).                        *)
(*                                                                         *)
(* IngestionQueue and CleanupQueue are shown to implement this module.     *)
(***************************************************************************)
EXTENDS Naturals

CONSTANTS
    Task,       \* the tasks
    Worker,     \* the workers a task may be granted to
    Budget      \* how often a task may be granted

VARIABLES
    phase,      \* phase[t]: where task t is in its life
    holders,    \* holders[t]: the worker t is granted to, as a set
    grants      \* grants[t]: how often t has been granted

absVars == <<phase, holders, grants>>

AbsInit ==
    /\ phase = [t \in Task |-> "none"]
    /\ holders = [t \in Task |-> {}]
    /\ grants = [t \in Task |-> 0]

Submit(t) ==
    /\ phase[t] = "none"
    /\ phase'[t] = "ready"
    /\ holders'[t] = {}
    /\ grants'[t] = grants[t]

\* A grant may take the task away from a worker that still holds it.
Grant(t) ==
    /\ phase[t] \in {"ready", "held"}
    /\ grants[t] < Budget
    /\ phase'[t] = "held"
    /\ \E w \in Worker : holders'[t] = {w}
    /\ grants'[t] = grants[t] + 1

Lapse(t) ==
    /\ phase[t] = "held"
    /\ phase'[t] = "held"
    /\ holders'[t] = {}
    /\ grants'[t] = grants[t]

Return(t) ==
    /\ phase[t] = "held"
    /\ holders[t] # {}
    /\ grants[t] < Budget
    /\ phase'[t] = "ready"
    /\ holders'[t] = {}
    /\ grants'[t] = grants[t]

Finish(t) ==
    /\ phase[t] = "held"
    /\ holders[t] # {}
    /\ phase'[t] = "done"
    /\ holders'[t] = {}
    /\ grants'[t] = grants[t]

Bury(t) ==
    /\ phase[t] \in {"ready", "held"}
    /\ phase'[t] = "dead"
    /\ holders'[t] = {}
    /\ grants'[t] = grants[t]

Stay(t) ==
    /\ phase'[t] = phase[t]
    /\ holders'[t] = holders[t]
    /\ grants'[t] = grants[t]

TaskStep(t) ==
    \/ Submit(t) \/ Grant(t) \/ Lapse(t) \/ Return(t)
    \/ Finish(t) \/ Bury(t) \/ Stay(t)

\* One step of the queue may bury several tasks, and grant one, at once.
AbsNext ==
    /\ phase' \in [Task -> {"none", "ready", "held", "done", "dead"}]
    /\ holders' \in [Task -> SUBSET Worker]
    /\ grants' \in [Task -> 0..Budget]
    /\ \A t \in Task : TaskStep(t)

AbsSpec == AbsInit /\ [][AbsNext]_absVars
==============================================================================
