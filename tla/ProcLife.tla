------------------------------- MODULE ProcLife -------------------------------
(***************************************************************************)
(* What the pool relies on of a process and of the executor that           *)
(* supervises it: initialize comes to one end at most, a process that is   *)
(* gone stays gone, and the one job it is given ends with it.  JobProc     *)
(* implements it for a single process, ProcPool lives with many of them.   *)
(***************************************************************************)
CONSTANT Processes

VARIABLES up,    \* the processes that were started and are not gone
          init,  \* what came of the initialization of each; "unsent" when it was gone before
          work   \* the job of each

vars == <<up, init, work>>

Init ==
  /\ up \in SUBSET Processes
  /\ init = [p \in Processes |-> IF p \in up THEN "pending" ELSE "none"]
  /\ work = [p \in Processes |-> "none"]

Starts(p) ==
  /\ init[p] = "none"
  /\ init' = [init EXCEPT ![p] = "pending"]
  /\ up' = up \cup {p}
  /\ UNCHANGED work

\* Nobody can be asked: nothing will come of the initialization, and nobody joins it.
IsUnsent(p) ==
  /\ init[p] \in {"none", "pending"} /\ p \notin up
  /\ init' = [init EXCEPT ![p] = "unsent"]
  /\ UNCHANGED <<up, work>>

IsReady(p) ==
  /\ init[p] = "pending"
  /\ init' = [init EXCEPT ![p] = "ready"]
  /\ UNCHANGED <<up, work>>

\* The process is killed for it, unless it is gone.
IsFailed(p) ==
  /\ init[p] = "pending"
  /\ init' = [init EXCEPT ![p] = "failed"]
  /\ up' \in {up, up \ {p}}
  /\ UNCHANGED work

\* A job is given once, to a process that is ready; it is lost if that one is leaving.
IsGiven(p) ==
  /\ init[p] = "ready" /\ work[p] = "none"
  /\ \/ p \in up /\ work' = [work EXCEPT ![p] = "running"]
     \/ work' = [work EXCEPT ![p] = "over"]
  /\ UNCHANGED <<up, init>>

IsGone(p) ==
  /\ p \in up
  /\ up' = up \ {p}
  /\ work' = [work EXCEPT ![p] = IF @ = "running" THEN "over" ELSE @]
  /\ UNCHANGED init

Next ==
  \E p \in Processes :
    Starts(p) \/ IsUnsent(p) \/ IsReady(p) \/ IsFailed(p) \/ IsGiven(p) \/ IsGone(p)

Spec == Init /\ [][Next]_vars
===============================================================================
