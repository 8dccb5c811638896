----------------------------- MODULE ActivityLife -----------------------------
(***************************************************************************)
(* What every AgentActivity promises to the session that owns it: work     *)
(* goes on while it is open, drain starts its on_exit and then only lets   *)
(* the work finish, and once it is drained nothing of it runs ever again.  *)
(* One that is closed without being drained promises nothing.              *)
(***************************************************************************)
CONSTANT Activities

VARIABLES busy,   \* the activities of which a speech, a hook or a user turn runs
          phase   \* how far the life of each activity has come

Init == busy \in SUBSET Activities /\ phase = [a \in Activities |-> "open"]

\* Work begins or ends.  A draining activity that has become idle stays idle.
Work(a) ==
  /\ phase[a] # "drained"
  /\ phase[a] = "draining" => a \in busy
  /\ busy' \in {busy \cup {a}, busy \ {a}}
  /\ UNCHANGED phase

StartDrain(a) ==
  /\ phase[a] = "open"
  /\ phase' = [phase EXCEPT ![a] = "draining"]
  /\ busy' = busy \cup {a}

Drained(a) ==
  /\ phase[a] = "draining" /\ a \notin busy
  /\ phase' = [phase EXCEPT ![a] = "drained"]
  /\ UNCHANGED busy

Cancel(a) ==
  /\ phase[a] = "open"
  /\ phase' = [phase EXCEPT ![a] = "cancelled"]
  /\ UNCHANGED busy

Next == \E a \in Activities : Work(a) \/ StartDrain(a) \/ Drained(a) \/ Cancel(a)

Spec == Init /\ [][Next]_<<busy, phase>>
===============================================================================
