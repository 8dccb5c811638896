\* Two slots, so that the order matters, for two senders and two receivers.  One sender
\* may be cancelled before and after it was woken, one receiver before it is woken.
CONSTANTS
  Senders = {s1, s2}
  Receivers = {r1, r2}
  Cancellable = {s1, r1}
  LateCancellable = {s1}
  Closer = closer
  Dead = dead
  Values = {v1, v2}
  MaxSize = 2
  MaxSends = 4
  MaxDead = 1
SPECIFICATION FairSpec
INVARIANTS NothingLost NoLostPutWakeup NoLostGetWakeup ClosedWakesAll
PROPERTIES ImplementsBuffer ClosedCallsReturn
