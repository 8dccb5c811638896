------------------------------- MODULE PoolLife -------------------------------
(***************************************************************************)
(* What the worker relies on of its process pool: what becomes of a call   *)
(* of launch_job, and what aclose has ended when it returns.  ProcPool     *)
(* implements it with its processes and tasks, Worker supposes it.         *)
(***************************************************************************)
CONSTANT Launches   \* the calls of launch_job

VARIABLES pool,     \* "open", "closing", or "closed" when aclose has returned
          broken,   \* whether the start of a process raised, which aclose does not survive
          launch    \* what became of each call

vars == <<pool, broken, launch>>

Init ==
  /\ pool = "open" /\ broken = FALSE
  /\ launch = [l \in Launches |-> "new"]

Moves(l, from, to) ==
  /\ launch[l] \in from
  /\ launch' = [launch EXCEPT ![l] = to]
  /\ UNCHANGED <<pool, broken>>

\* launch_job waits for a process, which it may do for ever once the pool closes,
Waits(l) == Moves(l, {"new"}, "waiting")

\* finds one that is alive, never of a pool that is closed,
Runs(l) == /\ pool # "closed" \/ broken
           /\ Moves(l, {"new", "waiting"}, "running")

\* or finds a dead one.
IsLost(l) == Moves(l, {"new", "waiting"}, "over")

Ends(l) == Moves(l, {"running"}, "over")

Breaks ==
  /\ broken' = TRUE
  /\ UNCHANGED <<pool, launch>>

Closes ==
  /\ pool = "open" /\ pool' = "closing"
  /\ UNCHANGED <<broken, launch>>

\* aclose waits for the processes, hence for the jobs that run.
IsClosed ==
  /\ pool = "closing" /\ pool' = "closed"
  /\ broken \/ \A l \in Launches : launch[l] # "running"
  /\ UNCHANGED <<broken, launch>>

Next ==
  \/ \E l \in Launches : Waits(l) \/ Runs(l) \/ IsLost(l) \/ Ends(l)
  \/ Breaks \/ Closes \/ IsClosed

Spec == Init /\ [][Next]_vars
===============================================================================
