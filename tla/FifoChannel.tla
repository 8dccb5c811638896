----------------------------- MODULE FifoChannel -----------------------------
(***************************************************************************)
(* What utils/aio/channel.py promises its callers, with no waiters and no  *)
(* futures: a first-in first-out buffer of at most MaxSize items (0 for no *)
(* bound) which accepts nothing once it is closed but still hands out what *)
(* it had accepted.                                                        *)
(***************************************************************************)
EXTENDS Naturals, Sequences

CONSTANTS Values,   \* what is sent
          MaxSize   \* capacity of the buffer; 0 means unbounded

VARIABLES accepted,   \* every item ever accepted, oldest first
          received,   \* every item ever handed out, oldest first
          closed

vars == <<accepted, received, closed>>

Init ==
  /\ accepted = <<>>
  /\ received = <<>>
  /\ closed = FALSE

Accept ==
  /\ ~closed
  /\ MaxSize = 0 \/ Len(accepted) < Len(received) + MaxSize
  /\ \E v \in Values : accepted' = Append(accepted, v)
  /\ UNCHANGED <<received, closed>>

HandOut ==
  /\ Len(received) < Len(accepted)
  /\ received' = Append(received, accepted[Len(received) + 1])
  /\ UNCHANGED <<accepted, closed>>

Close ==
  /\ closed' = TRUE
  /\ UNCHANGED <<accepted, received>>

Next == Accept \/ HandOut \/ Close

Spec == Init /\ [][Next]_vars
==============================================================================
