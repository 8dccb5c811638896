------------------------- MODULE ConnectionPoolProofs -------------------------
(***************************************************************************)
(* Proofs about ConnectionPool, for any callers and any bounds.  MadeOnly  *)
(* bounds the connections in use or kept by those made so far; DrainCovers *)
(* says what the clear() at the end of a drain may forget, and CloserOwes  *)
(* what aclose still has to close.  Each part is kept by a lemma.          *)
(***************************************************************************)
EXTENDS ConnectionPool, TLAPS

USE DEF poolVars, taskVars, vars, Conns, Tasks

LEMMA TypeInit == Init => TypeOK
BY PoolAssumption DEF Init, TypeOK

LEMMA TakesType ==
  ASSUME TypeOK, NEW p \in Callers, NEW pending \in SUBSET Conns, Takes(p, pending)
  PROVE  /\ known' \subseteq Conns /\ available' \subseteq Conns /\ toClose' \subseteq Conns
         /\ pc' \in [Tasks -> {"idle", "draining", "connecting", "using", "done"}]
         /\ using' \in [Callers -> 0 .. MaxConns]
         /\ late' \subseteq Conns
<1> PICK expired \in SUBSET (IF MayExpire THEN available ELSE {}) :
      /\ known' = known \ expired
      /\ toClose' = pending \cup expired
      /\ GivesUp(expired, Tasks \ {p})
      /\ \/ \E c \in available \ expired :
              /\ available' = available \ (expired \cup {c})
              /\ pc' = [pc EXCEPT ![p] = "using"]
              /\ using' = [using EXCEPT ![p] = c]
         \/ /\ expired = available
            /\ available' = {}
            /\ pc' = [pc EXCEPT ![p] = "connecting"]
            /\ UNCHANGED using
  BY DEF Takes
<1>1. expired \subseteq Conns
  BY DEF TypeOK
<1>2. late' \subseteq Conns
  BY <1>1 DEF GivesUp, TypeOK
<1>3. /\ pc' \in [Tasks -> {"idle", "draining", "connecting", "using", "done"}]
      /\ using' \in [Callers -> 0 .. MaxConns]
  <2>1. CASE \E c \in available \ expired :
               /\ available' = available \ (expired \cup {c})
               /\ pc' = [pc EXCEPT ![p] = "using"]
               /\ using' = [using EXCEPT ![p] = c]
    <3> PICK c \in available \ expired : /\ pc' = [pc EXCEPT ![p] = "using"]
                                        /\ using' = [using EXCEPT ![p] = c]
      BY <2>1
    <3>1. c \in 0 .. MaxConns
      BY PoolAssumption DEF TypeOK
    <3> QED BY <3>1 DEF TypeOK
  <2>2. CASE pc' = [pc EXCEPT ![p] = "connecting"] /\ UNCHANGED using
    BY <2>2 DEF TypeOK
  <2> QED BY <2>1, <2>2
<1>4. known' \subseteq Conns /\ available' \subseteq Conns /\ toClose' \subseteq Conns
  BY <1>1 DEF TypeOK
<1> QED BY <1>2, <1>3, <1>4

LEMMA LeavesType ==
  ASSUME TypeOK, NEW p \in Callers, Leaves(p)
  PROVE  /\ pc' \in [Tasks -> {"idle", "draining", "connecting", "using", "done"}]
         /\ using' \in [Callers -> 0 .. MaxConns]
         /\ opened' \in 0 .. MaxConns /\ left' \in [Tasks -> SUBSET Conns]
         /\ prewarming' \in {"none", "created", "connecting", "done"}
         /\ invalidates' \in 0 .. MaxInvalidates
         /\ shut' \subseteq Conns /\ owed' \subseteq Conns
<1>1. 0 \in 0 .. MaxConns
  BY PoolAssumption
<1> QED BY <1>1 DEF Leaves, TypeOK

LEMMA TypeNext == TypeOK /\ [Next]_vars => TypeOK'
<1> SUFFICES ASSUME TypeOK, [Next]_vars PROVE TypeOK'
  OBVIOUS
<1> USE PoolAssumption
<1>1. ASSUME NEW p \in Callers, GetAtOnce(p) PROVE TypeOK'
  <2>1. Takes(p, {})
    BY <1>1 DEF GetAtOnce
  <2> HIDE DEF Conns, Tasks
  <2> QED BY <1>1, <2>1, TakesType DEF GetAtOnce, TypeOK
<1>2. ASSUME NEW p \in Callers, GetDrains(p) PROVE TypeOK'
  BY <1>2 DEF GetDrains, TypeOK
<1>3. ASSUME NEW p \in Callers, Connected(p) PROVE TypeOK'
  <2>1. opened' \in 1 .. MaxConns
    BY <1>3 DEF Connected, TypeOK
  <2> QED BY <1>3, <2>1 DEF Connected, TypeOK
<1>4. ASSUME NEW p \in Tasks, Raises(p) PROVE TypeOK'
  BY <1>4 DEF Raises, TypeOK
<1>5. ASSUME NEW p \in Callers, Put(p) PROVE TypeOK'
  <2>1. using[p] \in known => using[p] \in Conns
    BY DEF TypeOK
  <2>2. available' \subseteq Conns /\ known' \subseteq Conns /\ toClose' \subseteq Conns
        /\ late' \subseteq Conns
    BY <1>5, <2>1 DEF Put, TypeOK
  <2>3. Leaves(p)
    BY <1>5 DEF Put
  <2> HIDE DEF Conns, Tasks
  <2> QED BY <2>2, <2>3, LeavesType DEF TypeOK
<1>6. ASSUME NEW p \in Callers, Remove(p) PROVE TypeOK'
  <2>1. late' \subseteq Conns
    BY <1>6 DEF Remove, GivesUp, TypeOK
  <2>2. available' \subseteq Conns /\ known' \subseteq Conns /\ toClose' \subseteq Conns
    BY <1>6 DEF Remove, TypeOK
  <2>3. Leaves(p)
    BY <1>6 DEF Remove
  <2> HIDE DEF Conns, Tasks
  <2> QED BY <2>1, <2>2, <2>3, LeavesType DEF TypeOK
<1>7. ASSUME NEW p \in Tasks, NEW c \in Conns, ClosesOne(p, c) PROVE TypeOK'
  BY <1>7 DEF ClosesOne, Closes, TypeOK
<1>8. ASSUME NEW p \in Tasks, NEW c \in Conns, ClosesLast(p, c) PROVE TypeOK'
  <2>1. p \in Callers /\ Takes(p, {})
    BY <1>8 DEF ClosesLast
  <2>2. left' \in [Tasks -> SUBSET Conns] /\ shut' \subseteq Conns
    BY <1>8 DEF ClosesLast, Closes, TypeOK
  <2> HIDE DEF Conns, Tasks
  <2> QED BY <1>8, <2>1, <2>2, TakesType DEF ClosesLast, TypeOK
<1>9. CASE Invalidate
  <2>1. late' \subseteq Conns /\ invalidates' \in 0 .. MaxInvalidates
    BY <1>9 DEF Invalidate, GivesUp, TypeOK
  <2> QED BY <1>9, <2>1 DEF Invalidate, Invalidated, TypeOK
<1>10. CASE Prewarm \/ PrewarmStarts \/ PrewarmRaises
  BY <1>10 DEF Prewarm, PrewarmStarts, PrewarmRaises, TypeOK
<1>11. CASE PrewarmConnected
  <2>1. opened' \in 1 .. MaxConns
    BY <1>11 DEF PrewarmConnected, TypeOK
  <2> QED BY <1>11, <2>1 DEF PrewarmConnected, TypeOK
<1>12. CASE Aclose
  <2>1. late' \subseteq Conns
    BY <1>12 DEF Aclose, GivesUp, TypeOK
  <2>2. toClose' \subseteq Conns
    BY <1>12 DEF Aclose, Invalidated, TypeOK
  <2> QED BY <1>12, <2>1, <2>2 DEF Aclose, Invalidated, TypeOK
<1>13. ASSUME NEW c \in Conns, AcloseReturns(c) PROVE TypeOK'
  BY <1>13 DEF AcloseReturns, Closes, TypeOK
<1>14. CASE UNCHANGED vars
  BY <1>14 DEF TypeOK
<1> QED BY <1>1, <1>2, <1>3, <1>4, <1>5, <1>6, <1>7, <1>8, <1>9, <1>10, <1>11, <1>12, <1>13,
           <1>14 DEF Next, CallerStep

-------------------------------------------------------------------------------
\* Only connections that were made are kept, in use, given up or closed.
MadeOnly ==
  /\ known \cup toClose \cup shut \subseteq 1 .. opened
  /\ \A p \in Tasks : left[p] \subseteq 1 .. opened
  /\ \A p \in Callers : using[p] \in 0 .. opened

\* What a drain does not walk was given up after it had begun, or is closed.
DrainCovers ==
  \A p \in Tasks : pc[p] = "draining" => toClose \subseteq left[p] \cup shut \cup late

\* What aclose invalidated is closed or still in its list.
CloserOwes == pc[Closer] \in {"draining", "done"} => owed \subseteq left[Closer] \cup shut

CloserDone == pc[Closer] = "done" => left[Closer] = {}

\* What Takes does, without the two ways in which it ends.
Taken(p, pending, expired) ==
  /\ expired \subseteq available
  /\ known' = known \ expired
  /\ toClose' = pending \cup expired
  /\ available' \subseteq available \ expired
  /\ GivesUp(expired, Tasks \ {p})
  /\ \E at \in {"using", "connecting"} : pc' = [pc EXCEPT ![p] = at]
  /\ \/ using' = using
     \/ \E c \in available \ available' : using' = [using EXCEPT ![p] = c]

LEMMA TakesTaken ==
  ASSUME NEW p \in Callers, NEW pending, Takes(p, pending)
  PROVE  \E expired : Taken(p, pending, expired)
<1> PICK expired \in SUBSET (IF MayExpire THEN available ELSE {}) :
      /\ known' = known \ expired
      /\ toClose' = pending \cup expired
      /\ GivesUp(expired, Tasks \ {p})
      /\ \/ \E c \in available \ expired :
              /\ available' = available \ (expired \cup {c})
              /\ pc' = [pc EXCEPT ![p] = "using"]
              /\ using' = [using EXCEPT ![p] = c]
         \/ /\ expired = available
            /\ available' = {}
            /\ pc' = [pc EXCEPT ![p] = "connecting"]
            /\ UNCHANGED using
  BY DEF Takes
<1>1. Taken(p, pending, expired)
  <2>1. expired \subseteq available
    OBVIOUS
  <2>2. CASE \E c \in available \ expired :
               /\ available' = available \ (expired \cup {c})
               /\ pc' = [pc EXCEPT ![p] = "using"]
               /\ using' = [using EXCEPT ![p] = c]
    BY <2>1, <2>2 DEF Taken
  <2>3. CASE /\ available' = {}
             /\ pc' = [pc EXCEPT ![p] = "connecting"]
             /\ UNCHANGED using
    BY <2>1, <2>3 DEF Taken
  <2> QED BY <2>2, <2>3
<1> QED BY <1>1

LEMMA MadeInit == Init => MadeOnly
BY DEF Init, MadeOnly

LEMMA TakenMade ==
  ASSUME TypeOK, MadeOnly, available \subseteq known, NEW p \in Callers,
         NEW pending \in SUBSET (1 .. opened), NEW expired, Taken(p, pending, expired)
  PROVE  /\ known' \subseteq 1 .. opened /\ toClose' \subseteq 1 .. opened
         /\ \A q \in Callers : using'[q] \in 0 .. opened
<1>1. known' \subseteq 1 .. opened /\ toClose' \subseteq 1 .. opened
  BY DEF Taken, MadeOnly
<1>2. ASSUME NEW c \in available, using' = [using EXCEPT ![p] = c], NEW q \in Callers
      PROVE  using'[q] \in 0 .. opened
  <2>1. c \in 1 .. opened
    BY <1>2 DEF MadeOnly
  <2> QED BY <1>2, <2>1 DEF MadeOnly, TypeOK
<1> QED BY <1>1, <1>2 DEF Taken, MadeOnly

LEMMA MadeNext ==
  ASSUME TypeOK, MadeOnly, available \subseteq known, [Next]_vars
  PROVE  MadeOnly'
<1> USE PoolAssumption
<1>1. ASSUME NEW p \in Callers, GetAtOnce(p) PROVE MadeOnly'
  <2> PICK expired : Taken(p, {}, expired)
    BY <1>1, TakesTaken DEF GetAtOnce
  <2>1. UNCHANGED <<opened, left, shut>>
    BY <1>1 DEF GetAtOnce
  <2> QED BY <2>1, TakenMade DEF MadeOnly
<1>2. ASSUME NEW p \in Callers, GetDrains(p) PROVE MadeOnly'
  BY <1>2 DEF GetDrains, MadeOnly, TypeOK
<1>3. ASSUME NEW p \in Callers, Connected(p) PROVE MadeOnly'
  <2>1. opened' = opened + 1 /\ opened \in Nat
    BY <1>3 DEF Connected, TypeOK
  <2>2. 1 .. opened \subseteq 1 .. opened' /\ opened' \in 1 .. opened' /\ 0 .. opened \subseteq 0 .. opened'
    BY <2>1
  <2>3. \A q \in Callers : using'[q] \in 0 .. opened'
    BY <1>3, <2>2 DEF Connected, MadeOnly, TypeOK
  <2> QED BY <1>3, <2>2, <2>3 DEF Connected, MadeOnly
<1>4. ASSUME NEW p \in Tasks, Raises(p) PROVE MadeOnly'
  BY <1>4 DEF Raises, MadeOnly, TypeOK
<1>5. ASSUME NEW p \in Callers, Put(p) PROVE MadeOnly'
  <2>1. \A q \in Callers : using'[q] \in 0 .. opened
    BY <1>5 DEF Put, Leaves, MadeOnly, TypeOK
  <2> QED BY <1>5, <2>1 DEF Put, Leaves, MadeOnly
<1>6. ASSUME NEW p \in Callers, Remove(p) PROVE MadeOnly'
  <2>1. \A q \in Callers : using'[q] \in 0 .. opened
    BY <1>6 DEF Remove, Leaves, MadeOnly, TypeOK
  <2> QED BY <1>6, <2>1 DEF Remove, Leaves, MadeOnly
<1>7. ASSUME NEW p \in Tasks, NEW c \in Conns, ClosesOne(p, c) PROVE MadeOnly'
  BY <1>7 DEF ClosesOne, Closes, MadeOnly, TypeOK
<1>8. ASSUME NEW p \in Tasks, NEW c \in Conns, ClosesLast(p, c) PROVE MadeOnly'
  <2>1. p \in Callers
    BY <1>8 DEF ClosesLast
  <2> PICK expired : Taken(p, {}, expired)
    BY <1>8, <2>1, TakesTaken DEF ClosesLast
  <2>2. opened' = opened /\ shut' \subseteq 1 .. opened
    BY <1>8 DEF ClosesLast, Closes, MadeOnly
  <2>3. \A q \in Tasks : left'[q] \subseteq 1 .. opened
    BY <1>8 DEF ClosesLast, Closes, MadeOnly, TypeOK
  <2> QED BY <2>1, <2>2, <2>3, TakenMade DEF MadeOnly
<1>9. CASE Invalidate
  BY <1>9 DEF Invalidate, Invalidated, MadeOnly
<1>10. CASE Prewarm \/ PrewarmStarts \/ PrewarmRaises
  BY <1>10 DEF Prewarm, PrewarmStarts, PrewarmRaises, MadeOnly
<1>11. CASE PrewarmConnected
  <2>1. opened' = opened + 1 /\ opened \in Nat
    BY <1>11 DEF PrewarmConnected, TypeOK
  <2>2. 1 .. opened \subseteq 1 .. opened' /\ opened' \in 1 .. opened' /\ 0 .. opened \subseteq 0 .. opened'
    BY <2>1
  <2> QED BY <1>11, <2>2 DEF PrewarmConnected, MadeOnly
<1>12. CASE Aclose
  <2>1. toClose' \subseteq 1 .. opened /\ opened' = opened
    BY <1>12 DEF Aclose, Invalidated, MadeOnly
  <2> QED BY <1>12, <2>1 DEF Aclose, Invalidated, MadeOnly, TypeOK
<1>13. ASSUME NEW c \in Conns, AcloseReturns(c) PROVE MadeOnly'
  BY <1>13 DEF AcloseReturns, Closes, MadeOnly, TypeOK
<1>14. CASE UNCHANGED vars
  BY <1>14 DEF MadeOnly
<1> QED BY <1>1, <1>2, <1>3, <1>4, <1>5, <1>6, <1>7, <1>8, <1>9, <1>10, <1>11, <1>12, <1>13,
           <1>14 DEF Next, CallerStep

-------------------------------------------------------------------------------
LEMMA UserNext ==
  ASSUME TypeOK, MadeOnly, OneUser, available \subseteq known, [Next]_vars
  PROVE  OneUser'
<1> USE PoolAssumption
<1>1. ASSUME NEW p \in Callers, NEW pending, NEW expired, Taken(p, pending, expired)
      PROVE  OneUser'
  <2>1. CASE using' = using
    BY <1>1, <2>1 DEF Taken, OneUser
  <2>2. ASSUME NEW c \in available \ available', using' = [using EXCEPT ![p] = c]
        PROVE  OneUser'
    <3>1. \A q \in Callers : using[q] # c
      BY <2>2 DEF OneUser, MadeOnly
    <3>2. \A q \in Callers : using'[q] = IF q = p THEN c ELSE using[q]
      BY <2>2 DEF TypeOK
    <3> QED BY <1>1, <2>2, <3>1, <3>2 DEF Taken, OneUser
  <2> QED BY <1>1, <2>1, <2>2 DEF Taken
<1>2. ASSUME NEW p \in Callers, GetAtOnce(p) PROVE OneUser'
  BY <1>1, <1>2, TakesTaken DEF GetAtOnce
<1>3. ASSUME NEW p \in Tasks, NEW c \in Conns, ClosesLast(p, c) PROVE OneUser'
  BY <1>1, <1>3, TakesTaken DEF ClosesLast
<1>4. ASSUME NEW p \in Callers, Connected(p) PROVE OneUser'
  <2>1. /\ opened' \notin 0 .. opened
        /\ \A q \in Callers : using'[q] = IF q = p THEN opened' ELSE using[q]
    BY <1>4 DEF Connected, TypeOK
  <2>2. \A q \in Callers : using[q] # opened'
    BY <2>1 DEF MadeOnly
  <2>3. opened' \notin available
    BY <2>1 DEF MadeOnly
  <2> QED BY <1>4, <2>1, <2>2, <2>3 DEF Connected, OneUser
<1>5. ASSUME NEW p \in Callers, Leaves(p), available' \subseteq available \cup {using[p]}
      PROVE  OneUser'
  <2>1. \A q \in Callers : using'[q] = IF q = p THEN 0 ELSE using[q]
    BY <1>5 DEF Leaves, TypeOK
  <2>2. ASSUME NEW q \in Callers, using'[q] # 0 PROVE using'[q] \notin available'
    BY <1>5, <2>1, <2>2 DEF OneUser
  <2>3. ASSUME NEW q \in Callers, NEW r \in Callers, using'[q] # 0, using'[r] = using'[q]
        PROVE  r = q
    BY <2>1, <2>3 DEF OneUser
  <2> QED BY <2>2, <2>3 DEF OneUser
<1>6. ASSUME NEW p \in Callers, Put(p) PROVE OneUser'
  BY <1>5, <1>6 DEF Put
<1>7. ASSUME NEW p \in Callers, Remove(p) PROVE OneUser'
  BY <1>5, <1>7 DEF Remove
<1>8. CASE PrewarmConnected
  <2>1. opened' \notin 0 .. opened /\ UNCHANGED using /\ available' = available \cup {opened'}
    BY <1>8 DEF PrewarmConnected, TypeOK
  <2> QED BY <2>1 DEF OneUser, MadeOnly
<1>9. ASSUME UNCHANGED using, available' \subseteq available PROVE OneUser'
  BY <1>9 DEF OneUser
<1>10. ASSUME NEW p \in Callers, GetDrains(p) \/ Raises(p) PROVE OneUser'
  BY <1>9, <1>10 DEF GetDrains, Raises
<1>11. ASSUME NEW p \in Tasks, NEW c \in Conns, ClosesOne(p, c) PROVE OneUser'
  BY <1>9, <1>11 DEF ClosesOne
<1>12. CASE Invalidate \/ Aclose \/ Prewarm \/ PrewarmStarts \/ PrewarmRaises \/ Raises(Closer)
  BY <1>9, <1>12 DEF Invalidate, Aclose, Invalidated, Prewarm, PrewarmStarts, PrewarmRaises,
                     Raises
<1>13. ASSUME NEW c \in Conns, AcloseReturns(c) PROVE OneUser'
  BY <1>9, <1>13 DEF AcloseReturns
<1>14. CASE UNCHANGED vars
  BY <1>9, <1>14
<1> QED BY <1>2, <1>3, <1>4, <1>6, <1>7, <1>8, <1>10, <1>11, <1>12, <1>13, <1>14
        DEF Next, CallerStep

LEMMA KeptNext ==
  ASSUME TypeOK, MadeOnly, KeptAreOpen, [Next]_vars
  PROVE  KeptAreOpen'
<1> USE PoolAssumption
<1>1. ASSUME NEW p \in Callers, NEW expired, Taken(p, {}, expired),
             shut' \cup left'[p] \subseteq shut \cup left[p],
             \A q \in Tasks : left'[q] \subseteq left[q]
      PROVE  KeptAreOpen'
  <2>1. available' \subseteq known' /\ known' \subseteq known \ toClose'
    BY <1>1 DEF Taken, KeptAreOpen
  <2> QED BY <1>1, <2>1 DEF KeptAreOpen
<1>2. ASSUME NEW p \in Callers, GetAtOnce(p) PROVE KeptAreOpen'
  BY <1>1, <1>2, TakesTaken DEF GetAtOnce
<1>3. ASSUME NEW p \in Tasks, NEW c \in Conns, ClosesLast(p, c) PROVE KeptAreOpen'
  <2>1. p \in Callers
    BY <1>3 DEF ClosesLast
  <2> PICK expired : Taken(p, {}, expired)
    BY <1>3, <2>1, TakesTaken DEF ClosesLast
  <2>2. /\ shut' \cup left'[p] \subseteq shut \cup left[p]
        /\ \A q \in Tasks : left'[q] \subseteq left[q]
    BY <1>3 DEF ClosesLast, Closes, TypeOK
  <2> QED BY <1>1, <2>1, <2>2
<1>4. ASSUME NEW p \in Callers, GetDrains(p) PROVE KeptAreOpen'
  BY <1>4 DEF GetDrains, KeptAreOpen, TypeOK
<1>5. ASSUME opened' = opened + 1, known' = known \cup {opened'},
             available' \subseteq known', UNCHANGED <<toClose, left, shut>>
      PROVE  KeptAreOpen'
  <2>1. opened' \notin 1 .. opened
    BY <1>5 DEF TypeOK
  <2>2. opened' \notin shut \cup toClose /\ \A p \in Tasks : opened' \notin left[p]
    BY <2>1 DEF MadeOnly
  <2> QED BY <1>5, <2>2 DEF KeptAreOpen
<1>6. ASSUME NEW p \in Callers, Connected(p) PROVE KeptAreOpen'
  BY <1>5, <1>6 DEF Connected, KeptAreOpen
<1>7. CASE PrewarmConnected
  BY <1>5, <1>7 DEF PrewarmConnected, KeptAreOpen
<1>8. ASSUME NEW p \in Tasks, Raises(p) PROVE KeptAreOpen'
  BY <1>8 DEF Raises, KeptAreOpen, TypeOK
<1>9. ASSUME NEW p \in Callers, Put(p) PROVE KeptAreOpen'
  BY <1>9 DEF Put, Leaves, KeptAreOpen
<1>10. ASSUME NEW p \in Callers, Remove(p) PROVE KeptAreOpen'
  BY <1>10 DEF Remove, Leaves, KeptAreOpen
<1>11. ASSUME NEW p \in Tasks, NEW c \in Conns, ClosesOne(p, c) PROVE KeptAreOpen'
  BY <1>11 DEF ClosesOne, Closes, KeptAreOpen, TypeOK
<1>12. CASE Invalidate \/ Aclose
  BY <1>12 DEF Invalidate, Aclose, Invalidated, KeptAreOpen
<1>13. CASE Prewarm \/ PrewarmStarts \/ PrewarmRaises
  BY <1>13 DEF Prewarm, PrewarmStarts, PrewarmRaises, KeptAreOpen
<1>14. ASSUME NEW c \in Conns, AcloseReturns(c) PROVE KeptAreOpen'
  BY <1>14 DEF AcloseReturns, Closes, KeptAreOpen, TypeOK
<1>15. CASE UNCHANGED vars
  BY <1>15 DEF KeptAreOpen
<1> QED BY <1>2, <1>3, <1>4, <1>6, <1>7, <1>8, <1>9, <1>10, <1>11, <1>12, <1>13, <1>14, <1>15
        DEF Next, CallerStep

-------------------------------------------------------------------------------
\* GivesUp for a task that drains before and after the step of another.
LEMMA GivenUpIsLate ==
  ASSUME NEW conns, NEW tasks, GivesUp(conns, tasks), NEW q \in tasks, pc[q] = "draining"
  PROVE  late' = late \cup conns
BY DEF GivesUp, Draining

LEMMA LateGrows ==
  ASSUME NEW conns, NEW tasks, GivesUp(conns, tasks)
  PROVE  late \subseteq late'
BY DEF GivesUp

LEMMA CoversNext ==
  ASSUME TypeOK, DrainCovers, [Next]_vars
  PROVE  DrainCovers'
<1> USE PoolAssumption
<1>1. ASSUME NEW p \in Callers, NEW expired, Taken(p, {}, expired),
             \A q \in Tasks \ {p} : left'[q] = left[q], shut \subseteq shut'
      PROVE  DrainCovers'
  <2> SUFFICES ASSUME NEW q \in Tasks, pc'[q] = "draining"
               PROVE  toClose' \subseteq left'[q] \cup shut' \cup late'
    BY DEF DrainCovers
  <2>1. q # p /\ pc[q] = "draining"
    BY <1>1 DEF Taken, TypeOK
  <2>2. late' = late \cup expired
    BY <1>1, <2>1, GivenUpIsLate DEF Taken
  <2> QED BY <1>1, <2>2 DEF Taken
<1>2. ASSUME NEW p \in Callers, GetAtOnce(p) PROVE DrainCovers'
  BY <1>1, <1>2, TakesTaken DEF GetAtOnce
<1>3. ASSUME NEW p \in Tasks, NEW c \in Conns, ClosesLast(p, c) PROVE DrainCovers'
  <2>1. /\ p \in Callers
        /\ shut \subseteq shut'
        /\ \A q \in Tasks \ {p} : left'[q] = left[q]
    BY <1>3 DEF ClosesLast, Closes, TypeOK
  <2> QED BY <1>1, <1>3, <2>1, TakesTaken DEF ClosesLast
<1>4. ASSUME NEW conns, GivesUp(conns, Tasks), toClose' \subseteq toClose \cup conns,
             UNCHANGED <<left, shut>>,
             \A q \in Tasks : pc'[q] = "draining" => pc[q] = "draining"
      PROVE  DrainCovers'
  <2> SUFFICES ASSUME NEW q \in Tasks, pc'[q] = "draining"
               PROVE  toClose' \subseteq left'[q] \cup shut' \cup late'
    BY DEF DrainCovers
  <2>1. late' = late \cup conns
    BY <1>4, GivenUpIsLate
  <2> QED BY <1>4, <2>1 DEF DrainCovers
<1>5. ASSUME NEW p \in Callers, Remove(p) PROVE DrainCovers'
  <2>1. /\ GivesUp(known \cap {using[p]}, Tasks)
        /\ toClose' = toClose \cup (known \cap {using[p]})
    BY <1>5 DEF Remove
  <2>2. /\ UNCHANGED <<left, shut>>
        /\ \A q \in Tasks : pc'[q] = "draining" => pc[q] = "draining"
    BY <1>5 DEF Remove, Leaves, TypeOK
  <2> QED BY <1>4, <2>1, <2>2
<1>6. CASE Invalidate
  BY <1>4, <1>6 DEF Invalidate, Invalidated
<1>7. CASE Aclose
  <2> SUFFICES ASSUME NEW q \in Tasks, pc'[q] = "draining"
               PROVE  toClose' \subseteq left'[q] \cup shut' \cup late'
    BY DEF DrainCovers
  <2>1. CASE q = Closer
    BY <1>7, <2>1 DEF Aclose, TypeOK
  <2>2. CASE q # Closer
    <3>1. pc[q] = "draining" /\ left'[q] = left[q] /\ shut' = shut
      BY <1>7, <2>2 DEF Aclose, TypeOK
    <3>2. late' = late \cup known /\ toClose' = toClose \cup known
      BY <1>7, <3>1, GivenUpIsLate DEF Aclose, Invalidated
    <3> QED BY <3>1, <3>2 DEF DrainCovers
  <2> QED BY <2>1, <2>2
<1>8. ASSUME NEW p \in Callers, GetDrains(p) PROVE DrainCovers'
  BY <1>8 DEF GetDrains, DrainCovers, TypeOK
<1>9. ASSUME NEW p \in Tasks, NEW c \in Conns, ClosesOne(p, c) PROVE DrainCovers'
  BY <1>9 DEF ClosesOne, Closes, DrainCovers, TypeOK
<1>10. ASSUME NEW c \in Conns, AcloseReturns(c) PROVE DrainCovers'
  BY <1>10 DEF AcloseReturns, DrainCovers
<1>11. ASSUME NEW p \in Tasks, Raises(p) PROVE DrainCovers'
  BY <1>11 DEF Raises, DrainCovers, TypeOK
<1>12. ASSUME NEW p \in Callers, Connected(p) \/ Put(p) PROVE DrainCovers'
  BY <1>12 DEF Connected, Put, Leaves, DrainCovers, TypeOK
<1>13. CASE Prewarm \/ PrewarmStarts \/ PrewarmRaises \/ PrewarmConnected
  BY <1>13 DEF Prewarm, PrewarmStarts, PrewarmRaises, PrewarmConnected, DrainCovers
<1>14. CASE UNCHANGED vars
  BY <1>14 DEF DrainCovers
<1> QED BY <1>2, <1>3, <1>5, <1>6, <1>7, <1>8, <1>9, <1>10, <1>11, <1>12, <1>13, <1>14
        DEF Next, CallerStep

LEMMA LeakNext ==
  ASSUME TypeOK, available \subseteq known, DrainCovers, NoQuietLeak, [Next]_vars
  PROVE  NoQuietLeak'
<1> USE PoolAssumption
<1>1. ASSUME NEW p \in Callers, GetAtOnce(p) PROVE NoQuietLeak'
  <2> PICK expired : Taken(p, {}, expired)
    BY <1>1, TakesTaken DEF GetAtOnce
  <2>1. late \subseteq late'
    BY LateGrows DEF Taken
  <2> QED BY <1>1, <2>1 DEF GetAtOnce, Taken, NoQuietLeak
<1>2. ASSUME NEW p \in Tasks, NEW c \in Conns, ClosesLast(p, c) PROVE NoQuietLeak'
  <2> PICK expired : Taken(p, {}, expired)
    BY <1>2, TakesTaken DEF ClosesLast
  <2>1. late \subseteq late'
    BY LateGrows DEF Taken
  <2>2. toClose \subseteq shut' \cup late
    BY <1>2 DEF ClosesLast, Closes, DrainCovers
  <2> QED BY <1>2, <2>1, <2>2 DEF ClosesLast, Closes, Taken, NoQuietLeak
<1>3. ASSUME NEW c \in Conns, AcloseReturns(c) PROVE NoQuietLeak'
  <2>1. toClose \subseteq shut' \cup late
    BY <1>3 DEF AcloseReturns, Closes, DrainCovers
  <2> QED BY <1>3, <2>1 DEF AcloseReturns, Closes, NoQuietLeak
<1>4. ASSUME opened' = opened + 1, known' = known \cup {opened'},
             UNCHANGED <<toClose, shut, late>>
      PROVE  NoQuietLeak'
  <2>1. \A c \in 1 .. opened' : c \in 1 .. opened \/ c = opened'
    BY <1>4 DEF TypeOK
  <2> QED BY <1>4, <2>1 DEF NoQuietLeak
<1>5. ASSUME NEW p \in Callers, Connected(p) PROVE NoQuietLeak'
  BY <1>4, <1>5 DEF Connected
<1>6. CASE PrewarmConnected
  BY <1>4, <1>6 DEF PrewarmConnected
<1>7. ASSUME NEW p \in Callers, Remove(p) PROVE NoQuietLeak'
  <2>1. late \subseteq late'
    BY <1>7, LateGrows DEF Remove
  <2> QED BY <1>7, <2>1 DEF Remove, Leaves, NoQuietLeak
<1>8. CASE Invalidate
  <2>1. late \subseteq late'
    BY <1>8, LateGrows DEF Invalidate
  <2> QED BY <1>8, <2>1 DEF Invalidate, Invalidated, NoQuietLeak
<1>9. CASE Aclose
  <2>1. late \subseteq late'
    BY <1>9, LateGrows DEF Aclose
  <2> QED BY <1>9, <2>1 DEF Aclose, Invalidated, NoQuietLeak
<1>10. ASSUME NEW p \in Tasks, NEW c \in Conns, ClosesOne(p, c) PROVE NoQuietLeak'
  BY <1>10 DEF ClosesOne, Closes, NoQuietLeak
<1>11. ASSUME NEW p \in Tasks, Raises(p) PROVE NoQuietLeak'
  BY <1>11 DEF Raises, NoQuietLeak
<1>12. ASSUME NEW p \in Callers, GetDrains(p) \/ Put(p) PROVE NoQuietLeak'
  BY <1>12 DEF GetDrains, Put, Leaves, NoQuietLeak
<1>13. CASE Prewarm \/ PrewarmStarts \/ PrewarmRaises
  BY <1>13 DEF Prewarm, PrewarmStarts, PrewarmRaises, NoQuietLeak
<1>14. CASE UNCHANGED vars
  BY <1>14 DEF NoQuietLeak
<1> QED BY <1>1, <1>2, <1>3, <1>5, <1>6, <1>7, <1>8, <1>9, <1>10, <1>11, <1>12, <1>13, <1>14
        DEF Next, CallerStep

-------------------------------------------------------------------------------
LEMMA OwesNext ==
  ASSUME TypeOK, CloserOwes, CloserDone, [Next]_vars
  PROVE  CloserOwes' /\ CloserDone'
<1> USE PoolAssumption
<1>1. ASSUME UNCHANGED <<owed, left>>, pc'[Closer] = pc[Closer], shut \subseteq shut'
      PROVE  CloserOwes' /\ CloserDone'
  BY <1>1 DEF CloserOwes, CloserDone
<1>2. ASSUME NEW p \in Callers, CallerStep(p) PROVE CloserOwes' /\ CloserDone'
  <2>1. CASE GetAtOnce(p)
    <3>1. pc'[Closer] = pc[Closer]
      <4> PICK expired : Taken(p, {}, expired)
        BY <2>1, TakesTaken DEF GetAtOnce
      <4> QED BY DEF Taken, TypeOK
    <3> QED BY <1>1, <2>1, <3>1 DEF GetAtOnce
  <2>2. CASE GetDrains(p) \/ Raises(p)
    <3>1. pc'[Closer] = pc[Closer] /\ left'[Closer] = left[Closer] /\ UNCHANGED <<owed, shut>>
      BY <2>2 DEF GetDrains, Raises, TypeOK
    <3> QED BY <3>1 DEF CloserOwes, CloserDone
  <2>3. CASE Connected(p) \/ Put(p) \/ Remove(p)
    <3>1. pc'[Closer] = pc[Closer]
      BY <2>3 DEF Connected, Put, Remove, Leaves, TypeOK
    <3> QED BY <1>1, <2>3, <3>1 DEF Connected, Put, Remove, Leaves
  <2> QED BY <1>2, <2>1, <2>2, <2>3 DEF CallerStep
<1>3. ASSUME NEW p \in Tasks, NEW c \in Conns, ClosesOne(p, c)
      PROVE  CloserOwes' /\ CloserDone'
  BY <1>3 DEF ClosesOne, Closes, CloserOwes, CloserDone, TypeOK
<1>4. ASSUME NEW p \in Tasks, NEW c \in Conns, ClosesLast(p, c)
      PROVE  CloserOwes' /\ CloserDone'
  <2>1. pc'[Closer] = pc[Closer]
    <3>1. p \in Callers
      BY <1>4 DEF ClosesLast
    <3> PICK expired : Taken(p, {}, expired)
      BY <1>4, <3>1, TakesTaken DEF ClosesLast
    <3> QED BY <3>1 DEF Taken, TypeOK
  <2>2. left'[Closer] = left[Closer] /\ shut \subseteq shut' /\ owed' = owed
    BY <1>4 DEF ClosesLast, Closes, TypeOK
  <2> QED BY <2>1, <2>2 DEF CloserOwes, CloserDone
<1>5. CASE Invalidate \/ Prewarm \/ PrewarmStarts \/ PrewarmRaises \/ PrewarmConnected
  BY <1>1, <1>5 DEF Invalidate, Prewarm, PrewarmStarts, PrewarmRaises, PrewarmConnected
<1>6. CASE Aclose
  <2>1. /\ owed' = toClose' /\ left'[Closer] = toClose'
        /\ pc'[Closer] = IF toClose' = {} THEN "done" ELSE "draining"
    BY <1>6 DEF Aclose, TypeOK
  <2> QED BY <2>1 DEF CloserOwes, CloserDone
<1>7. CASE Raises(Closer)
  BY <1>7 DEF Raises, CloserOwes, CloserDone, TypeOK
<1>8. ASSUME NEW c \in Conns, AcloseReturns(c) PROVE CloserOwes' /\ CloserDone'
  BY <1>8 DEF AcloseReturns, Closes, CloserOwes, CloserDone, TypeOK
<1>9. CASE UNCHANGED vars
  BY <1>1, <1>9
<1> QED BY <1>2, <1>3, <1>4, <1>5, <1>6, <1>7, <1>8, <1>9 DEF Next

-------------------------------------------------------------------------------
IInv ==
  /\ TypeOK /\ MadeOnly /\ OneUser /\ KeptAreOpen
  /\ DrainCovers /\ NoQuietLeak
  /\ CloserOwes /\ CloserDone

LEMMA IInit == Init => IInv
<1> SUFFICES ASSUME Init PROVE IInv
  OBVIOUS
<1>1. TypeOK /\ MadeOnly
  BY TypeInit, MadeInit
<1>2. OneUser /\ KeptAreOpen /\ NoQuietLeak
  BY DEF Init, OneUser, KeptAreOpen, NoQuietLeak
<1>3. DrainCovers /\ CloserOwes /\ CloserDone
  BY DEF Init, DrainCovers, CloserOwes, CloserDone
<1> QED BY <1>1, <1>2, <1>3 DEF IInv

LEMMA INext == IInv /\ [Next]_vars => IInv'
<1> SUFFICES ASSUME IInv, [Next]_vars PROVE IInv'
  OBVIOUS
<1>1. available \subseteq known
  BY DEF IInv, KeptAreOpen
<1> QED BY <1>1, TypeNext, MadeNext, UserNext, KeptNext, CoversNext, LeakNext, OwesNext DEF IInv

LEMMA Invariant == Spec => []IInv
<1>1. Init => IInv
  BY IInit
<1>2. IInv /\ [Next]_vars => IInv'
  BY INext
<1> QED BY <1>1, <1>2, PTL DEF Spec

\* Every variable keeps its type, for any callers and bounds: no action of the pool leaves
\* the states that __init__ and the handlers describe.
THEOREM TypeCorrect == Spec => []TypeOK
<1>1. Init => TypeOK
  BY TypeInit
<1>2. TypeOK /\ [Next]_vars => TypeOK'
  BY TypeNext
<1> QED BY <1>1, <1>2, PTL DEF Spec

\* A connection has one user and is not offered while it is in use, for any callers and
\* any interleaving of get, put, remove, invalidate, prewarm and aclose.
THEOREM ConnectionsHaveOneUser == Spec => []OneUser
<1>1. IInv => OneUser
  BY DEF IInv
<1> QED BY <1>1, Invariant, PTL

\* No drain closes a connection that the pool still hands out.
THEOREM KeptConnectionsAreOpen == Spec => []KeptAreOpen
<1>1. IInv => KeptAreOpen
  BY DEF IInv
<1> QED BY <1>1, Invariant, PTL

\* A connection is forgotten without being closed only if it was given up while another
\* task drained: the clear() of _drain_to_close is the one place where it happens.
THEOREM OnlyLateOnesLeak == Spec => []NoQuietLeak
<1>1. IInv => NoQuietLeak
  BY DEF IInv
<1> QED BY <1>1, Invariant, PTL

\* When aclose returns, what it invalidated is closed.
THEOREM AcloseCloses == Spec => []AcloseClosesAll
<1>1. IInv => AcloseClosesAll
  BY DEF IInv, CloserOwes, CloserDone, AcloseClosesAll
<1> QED BY <1>1, Invariant, PTL
===============================================================================
