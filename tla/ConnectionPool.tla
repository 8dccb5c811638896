---------------------------- MODULE ConnectionPool ----------------------------
(***************************************************************************)
(* ConnectionPool of utils/connection_pool.py, which the TTS and STT       *)
(* plugins share their websockets with: callers use the context manager    *)
(* connection, the application prewarms, invalidates and closes the pool,  *)
(* and every await of a callback is a point where the others go on.        *)
(*                                                                         *)
(* The n-th connection made is n.  connect_cb and close_cb are external:   *)
(* they return or raise, and the caller may be cancelled in them.          *)
(***************************************************************************)
EXTENDS Naturals

CONSTANTS Callers,         \* the tasks that use connections
          Closer,          \* the caller of aclose
          MaxConns,        \* bound on the connections made
          MaxInvalidates,  \* bound on the calls of invalidate
          MayExpire        \* whether a max_session_duration is set

ASSUME PoolAssumption ==
  /\ MaxConns \in Nat /\ MaxInvalidates \in Nat /\ MayExpire \in BOOLEAN
  /\ Closer \notin Callers

Conns == 1 .. MaxConns
Tasks == Callers \cup {Closer}

VARIABLES
  known,      \* the keys of _connections
  available,  \* _available
  toClose,    \* _to_close
  opened,     \* how many connections were made
  pc,         \* where each task is
  using,      \* the connection each caller has, or 0
  left,       \* what remains of the list that the _drain_to_close of each task walks
  prewarming, \* _prewarm_task
  invalidates, \* how often invalidate was called
  shut,       \* history: the connections close_cb has closed
  late,       \* history: the connections given up while a _drain_to_close was under way
  owed        \* history: the connections the pool had when aclose invalidated them

poolVars == <<known, available, toClose>>
taskVars == <<pc, using, left>>
vars == <<poolVars, opened, taskVars, prewarming, invalidates, shut, late, owed>>

TypeOK ==
  /\ known \subseteq Conns /\ available \subseteq Conns /\ toClose \subseteq Conns
  /\ opened \in 0 .. MaxConns
  /\ pc \in [Tasks -> {"idle", "draining", "connecting", "using", "done"}]
  /\ using \in [Callers -> 0 .. MaxConns]
  /\ left \in [Tasks -> SUBSET Conns]
  /\ prewarming \in {"none", "created", "connecting", "done"}
  /\ invalidates \in 0 .. MaxInvalidates
  /\ shut \subseteq Conns /\ late \subseteq Conns /\ owed \subseteq Conns

Init ==
  /\ known = {} /\ available = {} /\ toClose = {}
  /\ opened = 0
  /\ pc = [p \in Tasks |-> "idle"]
  /\ using = [p \in Callers |-> 0]
  /\ left = [p \in Tasks |-> {}]
  /\ prewarming = "none"
  /\ invalidates = 0
  /\ shut = {} /\ late = {} /\ owed = {}

-------------------------------------------------------------------------------
\* The connections given up by remove or invalidate, while other tasks may be draining.
Draining(tasks) == \E p \in tasks : pc[p] = "draining"

GivesUp(conns, tasks) ==
  late' = IF Draining(tasks) THEN late \cup conns ELSE late

\* Mutant of Takes: the connection stays in _available.
TakesKept(p, pending) ==
  \E expired \in SUBSET (IF MayExpire THEN available ELSE {}) :
    /\ known' = known \ expired
    /\ toClose' = pending \cup expired
    /\ GivesUp(expired, Tasks \ {p})
    /\ \/ \E c \in available \ expired :
            /\ available' = available \ expired
            /\ pc' = [pc EXCEPT ![p] = "using"]
            /\ using' = [using EXCEPT ![p] = c]
       \/ /\ expired = available
          /\ available' = {}
          /\ pc' = [pc EXCEPT ![p] = "connecting"]
          /\ UNCHANGED using

\* The rest of get after its _drain_to_close: it gives up the connections it finds
\* expired until it finds one to reuse, or connects.
Takes(p, pending) ==
  \E expired \in SUBSET (IF MayExpire THEN available ELSE {}) :
    /\ known' = known \ expired
    /\ toClose' = pending \cup expired
    /\ GivesUp(expired, Tasks \ {p})
    /\ \/ \E c \in available \ expired :
            /\ available' = available \ (expired \cup {c})
            /\ pc' = [pc EXCEPT ![p] = "using"]
            /\ using' = [using EXCEPT ![p] = c]
       \/ /\ expired = available
          /\ available' = {}
          /\ pc' = [pc EXCEPT ![p] = "connecting"]
          /\ UNCHANGED using

\* get with nothing to close first ...
GetAtOnce(p) ==
  /\ pc[p] = "idle" /\ toClose = {}
  /\ Takes(p, {})
  /\ UNCHANGED <<opened, left, prewarming, invalidates, shut, owed>>

\* ... or with connections to close: _drain_to_close walks a copy of _to_close,
GetDrains(p) ==
  /\ pc[p] = "idle" /\ toClose # {}
  /\ pc' = [pc EXCEPT ![p] = "draining"]
  /\ left' = [left EXCEPT ![p] = toClose]
  /\ UNCHANGED <<poolVars, opened, using, prewarming, invalidates, shut, late, owed>>

\* closes one connection after the other,
Closes(p, c) ==
  /\ pc[p] = "draining" /\ c \in left[p]
  /\ left' = [left EXCEPT ![p] = @ \ {c}]
  /\ shut' = shut \cup {c}

ClosesOne(p, c) ==
  /\ Closes(p, c) /\ left[p] # {c}
  /\ UNCHANGED <<poolVars, opened, pc, using, prewarming, invalidates, late, owed>>

\* and at last clears _to_close, with whatever was added meanwhile; get goes on.
ClosesLast(p, c) ==
  /\ p \in Callers
  /\ Closes(p, c) /\ left[p] = {c}
  /\ Takes(p, {})
  /\ UNCHANGED <<opened, prewarming, invalidates, owed>>

Connected(p) ==
  /\ pc[p] = "connecting" /\ opened < MaxConns
  /\ opened' = opened + 1
  /\ known' = known \cup {opened'}
  /\ using' = [using EXCEPT ![p] = opened']
  /\ pc' = [pc EXCEPT ![p] = "using"]
  /\ UNCHANGED <<available, toClose, left, prewarming, invalidates, shut, late, owed>>

\* connect_cb or close_cb raises, or the caller is cancelled there; _to_close keeps all.
Raises(p) ==
  /\ pc[p] \in {"draining", "connecting"}
  /\ pc' = [pc EXCEPT ![p] = "idle"]
  /\ left' = [left EXCEPT ![p] = {}]
  /\ UNCHANGED <<poolVars, opened, using, prewarming, invalidates, shut, late, owed>>

\* The context manager's exit, by put
Leaves(p) ==
  /\ pc[p] = "using"
  /\ pc' = [pc EXCEPT ![p] = "idle"]
  /\ using' = [using EXCEPT ![p] = 0]
  /\ UNCHANGED <<opened, left, prewarming, invalidates, shut, owed>>

\* Mutant of Put: the connection may have been invalidated.
PutAlways(p) ==
  /\ Leaves(p)
  /\ available' = available \cup {using[p]}
  /\ UNCHANGED <<known, toClose, late>>

Put(p) ==
  /\ Leaves(p)
  /\ available' = IF using[p] \in known THEN available \cup {using[p]} ELSE available
  /\ UNCHANGED <<known, toClose, late>>

\* or, after an exception in the body, by remove.
Remove(p) ==
  /\ Leaves(p)
  /\ available' = available \ {using[p]}
  /\ LET given == known \cap {using[p]} IN
       /\ toClose' = toClose \cup given
       /\ known' = known \ given
       /\ GivesUp(given, Tasks)

-------------------------------------------------------------------------------
\* Mutant of Invalidated: _to_close is assigned instead of extended.
InvalidatedOnly == toClose' = known /\ known' = {} /\ available' = {}

Invalidated ==
  /\ toClose' = toClose \cup known
  /\ known' = {} /\ available' = {}

Invalidate ==
  /\ invalidates < MaxInvalidates
  /\ invalidates' = invalidates + 1
  /\ Invalidated
  /\ GivesUp(known, Tasks)
  /\ UNCHANGED <<opened, taskVars, prewarming, shut, owed>>

\* prewarm never makes a second task.
Prewarm ==
  /\ prewarming = "none" /\ known = {}
  /\ prewarming' = "created"
  /\ UNCHANGED <<poolVars, opened, taskVars, invalidates, shut, late, owed>>

PrewarmStarts ==
  /\ prewarming = "created"
  /\ prewarming' = IF known = {} THEN "connecting" ELSE "done"
  /\ UNCHANGED <<poolVars, opened, taskVars, invalidates, shut, late, owed>>

PrewarmConnected ==
  /\ prewarming = "connecting" /\ opened < MaxConns
  /\ opened' = opened + 1
  /\ known' = known \cup {opened'}
  /\ available' = available \cup {opened'}
  /\ prewarming' = "done"
  /\ UNCHANGED <<toClose, taskVars, invalidates, shut, late, owed>>

PrewarmRaises ==
  /\ prewarming = "connecting"
  /\ prewarming' = "done"
  /\ UNCHANGED <<poolVars, opened, taskVars, invalidates, shut, late, owed>>

\* Mutant of Aclose: it does not drain while a caller does.
AcloseLeavesIt ==
  /\ pc[Closer] = "idle"
  /\ prewarming' = IF prewarming = "none" THEN "none" ELSE "done"
  /\ Invalidated
  /\ GivesUp(known, Tasks)
  /\ owed' = toClose'
  /\ left' = [left EXCEPT ![Closer] = toClose']
  /\ pc' = [pc EXCEPT ![Closer] =
              IF toClose' = {} \/ Draining(Callers) THEN "done" ELSE "draining"]
  /\ UNCHANGED <<opened, using, invalidates, shut>>

\* aclose cancels a prewarm task, invalidates and drains.
Aclose ==
  /\ pc[Closer] = "idle"
  /\ prewarming' = IF prewarming = "none" THEN "none" ELSE "done"
  /\ Invalidated
  /\ GivesUp(known, Tasks)
  /\ owed' = toClose'
  /\ left' = [left EXCEPT ![Closer] = toClose']
  /\ pc' = [pc EXCEPT ![Closer] = IF toClose' = {} THEN "done" ELSE "draining"]
  /\ UNCHANGED <<opened, using, invalidates, shut>>

AcloseReturns(c) ==
  /\ Closes(Closer, c) /\ left[Closer] = {c}
  /\ toClose' = {}
  /\ pc' = [pc EXCEPT ![Closer] = "done"]
  /\ UNCHANGED <<known, available, opened, using, prewarming, invalidates, late, owed>>

-------------------------------------------------------------------------------
CallerStep(p) ==
  \/ GetAtOnce(p) \/ GetDrains(p) \/ Connected(p) \/ Raises(p)
  \/ Put(p) \/ Remove(p)

Next ==
  \/ \E p \in Callers : CallerStep(p)
  \/ \E p \in Tasks, c \in Conns : ClosesOne(p, c) \/ ClosesLast(p, c)
  \/ Invalidate
  \/ Prewarm \/ PrewarmStarts \/ PrewarmConnected \/ PrewarmRaises
  \/ Aclose \/ Raises(Closer)
  \/ \E c \in Conns : AcloseReturns(c)

Spec == Init /\ [][Next]_vars

-------------------------------------------------------------------------------
\* A connection has one user at a time, and the pool offers none that is in use,
\* whatever was invalidated, given back or failed in the meantime.
OneUser ==
  \A p \in Callers : using[p] # 0 =>
    /\ using[p] \notin available
    /\ \A q \in Callers : using[q] = using[p] => q = p

\* What the pool may hand out is open: no drain of another task, however long it
\* has been waiting, has closed it or is about to.
KeptAreOpen ==
  /\ available \subseteq known
  /\ \A c \in known : /\ c \notin shut \cup toClose
                      /\ \A p \in Tasks : c \notin left[p]

\* Every connection ever made is kept, waits to be closed or was closed, except one
\* given up while some _drain_to_close awaited a close_cb: its clear() forgets those.
NoQuietLeak ==
  \A c \in 1 .. opened :
    c \in known \cup toClose \cup shut \cup late

\* aclose closes what the pool had, its own drain doing so whoever else drains.
AcloseClosesAll == pc[Closer] = "done" => owed \subseteq shut
===============================================================================
