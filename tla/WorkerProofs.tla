----------------------------- MODULE WorkerProofs -----------------------------
(***************************************************************************)
(* The accounts of the worker, for any bounds: availability requests,      *)
(* acceptances, assignments and launches, and the messages owed to the     *)
(* server across lost connections.  Each account is a count of what is     *)
(* where, and a step moves at most one entry from one place to the next.   *)
(***************************************************************************)
EXTENDS Worker, FiniteSetTheorems, TLAPS

Positions(s, S) == {i \in 1 .. Len(s) : s[i] \in S}
CountIn(s, S) == Cardinality(Positions(s, S))

Offers        == [kind : {"availability"}, job : Jobs]
Assignment(j) == {[kind |-> "assignment", job |-> j]}
Acceptance(r) == {Answer("accept", r)}
OwedMessages  == {m \in Messages : Owed(m)}

One(b) == IF b THEN 1 ELSE 0

\* Every request that was received, or is on its way, is one the server made.
Offered ==
  /\ requests + CountIn(down, Offers) <= offers
  /\ \A r \in Requests : r > requests => req[r] = "none"

\* A job reports that it runs and that it ended.
Ran  == {r \in Requests : req[r] \in {"running", "ended"}}
Over == {r \in Requests : req[r] = "ended"}
Reported == reports <= Cardinality(Ran) + Cardinality(Over)

\* An acceptance is queued, in hand, or with the server, and nowhere before it is given.
Unaccepted(r) == req[r] \in {"none", "asked", "accepting", "rejecting", "rejected"}
Flight(r) ==
  CountIn(msgs, Acceptance(r)) + One(hand = Answer("accept", r)) + One(r \in accepted)
Flying == \A r \in Requests : Flight(r) <= One(~Unaccepted(r))

\* An assignment uses up an acceptance.
Used(j) == {r \in Requests : job[r] = j /\ ~Unaccepted(r) /\ Flight(r) = 0}
Earned == \A j \in Jobs : assigned[j] <= Cardinality(Used(j))

\* The future in _pending_assignments belongs to a request for the job.
Awaited ==
  \A j \in Jobs : pending[j] # 0 => job[pending[j]] = j /\ req[pending[j]] # "none"

\* What LaunchNeedsAssignment counts, and the assignments still on their way.
Granted(j) ==
  {r \in Requests :
     job[r] = j /\ req[r] \in {"assigned", "launching", "running", "ended"}}
Answered == \A j \in Jobs : Cardinality(Granted(j)) + CountIn(down, Assignment(j)) <= assigned[j]

IInv ==
  /\ TypeOK /\ Offered /\ Reported /\ Flying /\ Earned /\ Awaited /\ Answered
  /\ OnlyInHandIsLost

-------------------------------------------------------------------------------
\* Counting along a sequence.
LEMMA PositionsFinite ==
  ASSUME NEW T, NEW s \in Seq(T), NEW S
  PROVE  IsFiniteSet(Positions(s, S)) /\ CountIn(s, S) \in Nat
<1>1. IsFiniteSet(1 .. Len(s))  BY FS_Interval
<1>2. Positions(s, S) \in SUBSET (1 .. Len(s))  BY DEF Positions
<1>3. IsFiniteSet(Positions(s, S))  BY <1>1, <1>2, FS_Subset
<1>. QED  BY <1>3, FS_CardinalityType DEF CountIn

LEMMA CountEmpty ==
  ASSUME NEW S
  PROVE  CountIn(<<>>, S) = 0
<1>1. Positions(<<>>, S) = {}  BY DEF Positions
<1>. QED  BY <1>1, FS_EmptySet DEF CountIn

LEMMA CountAppend ==
  ASSUME NEW T, NEW s \in Seq(T), NEW x \in T, NEW S
  PROVE  CountIn(Append(s, x), S) = CountIn(s, S) + One(x \in S)
<1>1. IsFiniteSet(Positions(s, S)) /\ CountIn(s, S) \in Nat  BY PositionsFinite
<1>2. Len(s) \in Nat /\ Len(s) + 1 \notin Positions(s, S)  BY DEF Positions
<1>3. CASE x \in S
  <2>1. Positions(Append(s, x), S) = Positions(s, S) \cup {Len(s) + 1}
    BY <1>3 DEF Positions
  <2>2. Cardinality(Positions(s, S) \cup {Len(s) + 1}) = Cardinality(Positions(s, S)) + 1
    BY <1>1, <1>2, FS_AddElement
  <2>. QED  BY <1>3, <2>1, <2>2 DEF CountIn, One
<1>4. CASE x \notin S
  <2>1. Positions(Append(s, x), S) = Positions(s, S)
    BY <1>4 DEF Positions
  <2>. QED  BY <1>1, <1>4, <2>1 DEF CountIn, One
<1>. QED  BY <1>3, <1>4

LEMMA CountTail ==
  ASSUME NEW T, NEW s \in Seq(T), s # <<>>, NEW S
  PROVE  CountIn(s, S) = CountIn(Tail(s), S) + One(Head(s) \in S)
<1>. DEFINE P == Positions(s, S) \ {1}
            Q == Positions(Tail(s), S)
            shift == [i \in P |-> i - 1]
<1>1. Tail(s) \in Seq(T) /\ Len(s) \in Nat \ {0} /\ Len(Tail(s)) = Len(s) - 1 /\ Head(s) = s[1]
  OBVIOUS
<1>2. \A i \in 1 .. Len(Tail(s)) : Tail(s)[i] = s[i + 1]  OBVIOUS
<1>3. \A i \in P : i \in 1 .. Len(s) /\ i # 1 /\ s[i] \in S  BY DEF Positions
<1>4. \A i \in P : i - 1 \in Q
  BY <1>1, <1>2, <1>3 DEF Positions
<1>5. \A k \in Q : k + 1 \in P /\ k \in Nat /\ (k + 1) - 1 = k
  BY <1>1, <1>2 DEF Positions
<1>6. ExistsBijection(P, Q)
  <2>1. shift \in [P -> Q]  BY <1>4
  <2>2. \A a, b \in P : shift[a] = shift[b] => a = b  BY <1>3
  <2>3. \A k \in Q : \E a \in P : shift[a] = k  BY <1>5
  <2>4. shift \in Bijection(P, Q)
    BY <2>1, <2>2, <2>3 DEF Bijection, Injection, Surjection, IsInjective
  <2>. QED  BY <2>4 DEF ExistsBijection
<1>7. IsFiniteSet(Positions(s, S)) /\ CountIn(s, S) \in Nat  BY PositionsFinite
<1>8. /\ IsFiniteSet(P)
      /\ Cardinality(P) = IF 1 \in Positions(s, S) THEN CountIn(s, S) - 1 ELSE CountIn(s, S)
  BY <1>7, FS_RemoveElement DEF CountIn
<1>9. Cardinality(Q) = Cardinality(P)  BY <1>6, <1>8, FS_Bijection
<1>10. 1 \in Positions(s, S) <=> Head(s) \in S  BY <1>1 DEF Positions
<1>. QED  BY <1>7, <1>8, <1>9, <1>10 DEF CountIn, One

LEMMA RequestSets ==
  ASSUME NEW S \in SUBSET Requests
  PROVE  IsFiniteSet(S) /\ Cardinality(S) \in 0 .. MaxRequests
<1>1. MaxRequests \in Nat  BY WorkerAssumption
<1>2. IsFiniteSet(1 .. MaxRequests) /\ Cardinality(1 .. MaxRequests) = MaxRequests
  BY <1>1, FS_Interval
<1>3. S \in SUBSET (1 .. MaxRequests)  BY DEF Requests
<1>4. IsFiniteSet(S) /\ Cardinality(S) <= MaxRequests  BY <1>2, <1>3, FS_Subset
<1>. QED  BY <1>1, <1>4, FS_CardinalityType

-------------------------------------------------------------------------------
Places == {"none", "asked", "accepting", "rejecting", "waiting", "assigned", "launching",
           "running", "ended", "timeout", "rejected"}

\* The steps, told apart by what they do to the accounts.
Quiet ==
  /\ UNCHANGED <<msgs, hand, down, reqVars, reports, offers, accepted, assigned, owing>>
  /\ breaks' \in {breaks, breaks + 1}
  /\ closing' = "no" <=> closing = "no"

Updates ==
  /\ \E b \in BOOLEAN : Queue(Status(b))
  /\ UNCHANGED <<hand, down, reqVars, reports, offers, accepted, assigned, breaks, closing>>

Loses ==
  /\ Hangs
  /\ \/ breaks' = breaks + 1 /\ closing' = closing
     \/ breaks' = breaks /\ closing = "no" /\ closing' = "pool"
  /\ UNCHANGED <<msgs, reqVars, reports, offers, assigned, owing>>

Moves(r) ==
  /\ \/ RequestMoves(r, "asked", "accepting") \/ RequestMoves(r, "asked", "rejecting")
     \/ RequestMoves(r, "waiting", "timeout") \/ RequestMoves(r, "assigned", "timeout")
     \/ RequestMoves(r, "assigned", "launching")
  /\ UNCHANGED <<msgs, hand, down, pending, reports, offers, accepted, assigned, owing,
                 breaks, closing>>

Receives ==
  /\ down # <<>> /\ down' = Tail(down)
  /\ \/ ReceiveOffer(Head(down)) \/ ReceiveAssignment(Head(down))
     \/ ReceiveTermination(Head(down))
  /\ UNCHANGED <<msgs, hand, offers, accepted, assigned, owing, breaks, closing>>

Step ==
  \/ Quiet \/ Updates \/ Loses \/ SendTakes \/ SendArrives \/ Receives \/ PutReport
  \/ \E r \in Requests : \/ Moves(r) \/ Accept(r) \/ Reject(r) \/ ServerAssigns(r)
                         \/ Launched(r) \/ LaunchLost(r) \/ JobEnds(r) \/ ServerTerminates(r)
  \/ \E j \in Jobs : ServerOffers(j)

LEMMA Steps ==
  ASSUME TypeOK, [Next]_vars
  PROVE  Step
<1>. USE DEF Step, connVars, reqVars, serverVars
<1>1. CASE Registers \/ RetryDelayEnds \/ ConnectFails \/ RegistrationFails
  <2>1. Quiet  BY <1>1 DEF Quiet, Registers, RetryDelayEnds, ConnectFails, RegistrationFails
  <2>. QED  BY <2>1
<1>2. CASE PoolClosed \/ AcloseEnds \/ UNCHANGED vars
  <2>1. Quiet  BY <1>2 DEF Quiet, PoolClosed, AcloseEnds, vars
  <2>. QED  BY <2>1
<1>3. CASE Updating
  <2>1. CASE StatusTick
    <3>1. PICK b \in BOOLEAN : Tells(Status(b))
      BY <2>1, WorkerAssumption DEF StatusTick
    <3>2. UNCHANGED <<hand, down, reqVars, reports, offers, accepted, assigned, breaks, closing>>
      BY <2>1 DEF StatusTick
    <3>3. Quiet \/ Updates  BY <3>1, <3>2 DEF Tells, Quiet, Updates
    <3>. QED  BY <3>3
  <2>2. CASE StatusQueued
    <3>1. built \in {Status(TRUE), Status(FALSE)} /\ Queue(built)
      BY <2>2 DEF StatusQueued, TypeOK
    <3>2. Updates  BY <2>2, <3>1 DEF StatusQueued, Updates
    <3>. QED  BY <3>2
  <2>. QED  BY <1>3, <2>1, <2>2 DEF Updating
<1>4. CASE DrainBegins \/ DrainTells
  <2>1. Quiet \/ Updates
    BY <1>4 DEF DrainBegins, DrainTells, Quiet, Updates
  <2>. QED  BY <2>1
<1>5. CASE ConnectionBreaks \/ AcloseBegins
  <2>1. Loses  BY <1>5 DEF Loses, ConnectionBreaks, AcloseBegins
  <2>. QED  BY <2>1
<1>6. CASE Receive
  <2>1. Receives  BY <1>6 DEF Receive, Receives
  <2>. QED  BY <2>1
<1>7. ASSUME NEW r \in Requests, RequestAnswers(r) \/ AssignmentTimeout(r) \/ LaunchStarts(r)
      PROVE  Step
  <2>1. Moves(r)  BY <1>7 DEF Moves, RequestAnswers, AssignmentTimeout, LaunchStarts
  <2>. QED  BY <2>1
<1>8. ASSUME NEW r \in Requests, RequestRuns(r)
      PROVE  Step
  BY <1>7, <1>8 DEF RequestRuns
<1>9. CASE Sending \/ PutReport
  BY <1>9 DEF Sending
<1>10. CASE Runs
  BY <1>1, <1>2, <1>4, <1>6, <1>8, <1>9, <1>10 DEF Runs
<1>11. CASE Environment
  BY <1>1, <1>4, <1>5, <1>11 DEF Environment
<1>. QED  BY <1>2, <1>3, <1>9, <1>10, <1>11 DEF Next

LEMMA MessageParts ==
  ASSUME NEW m \in Messages \cup {None}, NEW r \in Requests
  PROVE  /\ m = Answer("accept", r) <=> m.kind = "accept" /\ m.request = r
         /\ m.kind = "accept" => m.request \in Requests
         /\ m \in Acceptance(r) <=> m = Answer("accept", r)
BY DEF Messages, None, Answer, Acceptance, JobUpdate

LEMMA WhatIsQueued ==
  /\ \A b \in BOOLEAN : Status(b) \in Messages /\ ~Owed(Status(b))
  /\ JobUpdate \in Messages /\ Owed(JobUpdate)
  /\ \A r \in Requests : \A k \in {"accept", "reject"} :
       Answer(k, r) \in Messages /\ Owed(Answer(k, r))
  /\ \A q \in Requests : \A b \in BOOLEAN : Status(b) \notin Acceptance(q)
  /\ \A q \in Requests : JobUpdate \notin Acceptance(q)
  /\ \A q, r \in Requests : Answer("reject", r) \notin Acceptance(q)
  /\ \A q, r \in Requests : Answer("accept", r) \in Acceptance(q) <=> q = r
<1>1. \A b \in BOOLEAN : Status(b) \in Messages /\ Status(b).kind = "update_worker"
  BY DEF Messages, Status
<1>2. JobUpdate \in Messages /\ JobUpdate.kind = "update_job"
  BY DEF Messages, JobUpdate
<1>3. \A r \in Requests : \A k \in {"accept", "reject"} :
        Answer(k, r) \in Messages /\ Answer(k, r).kind = k /\ Answer(k, r).request = r
  BY DEF Messages, Answer
<1>4. \A q \in Requests : \A m \in Messages :
        m \in Acceptance(q) <=> m.kind = "accept" /\ m.request = q
  BY MessageParts
<1>. QED  BY <1>1, <1>2, <1>3, <1>4 DEF Owed

-------------------------------------------------------------------------------
LEMMA OfferedNext ==
  ASSUME TypeOK, Offered, Step
  PROVE  Offered'
<1>. MaxRequests \in Nat  BY WorkerAssumption
<1>. down \in Seq(ServerMessages) /\ requests \in 0 .. MaxRequests /\ offers \in 0 .. MaxRequests
     /\ req \in [Requests -> Places]
  BY DEF TypeOK, Places
<1>. CountIn(down, Offers) \in Nat  BY PositionsFinite
<1>1. CASE UNCHANGED <<down, requests, offers, req>>
  BY <1>1 DEF Offered
<1>2. ASSUME UNCHANGED <<down, requests, offers>>, NEW r \in Requests, NEW s, req[r] # "none",
             req' = [req EXCEPT ![r] = s]
      PROVE  Offered'
  BY <1>2 DEF Offered
<1>3. CASE Quiet \/ Updates \/ SendTakes \/ SendArrives \/ PutReport
  <2>1. UNCHANGED <<down, requests, offers, req>>
    BY <1>3 DEF Quiet, Updates, SendTakes, SendArrives, PutReport, reqVars, serverVars
  <2>. QED  BY <1>1, <2>1
<1>4. CASE Loses
  <2>1. down' = <<>> /\ UNCHANGED <<requests, offers, req>>  BY <1>4 DEF Loses, Hangs, reqVars
  <2>2. CountIn(down', Offers) = 0  BY <2>1, CountEmpty
  <2>. QED  BY <2>1, <2>2 DEF Offered
<1>5. CASE Receives
  <2>. down # <<>> /\ down' = Tail(down) /\ UNCHANGED offers  BY <1>5 DEF Receives
  <2>. Head(down) \in ServerMessages /\ Tail(down) \in Seq(ServerMessages)  OBVIOUS
  <2>1. CountIn(down, Offers) = CountIn(down', Offers) + One(Head(down) \in Offers)
    BY CountTail
  <2>2. CountIn(down', Offers) \in Nat  BY PositionsFinite
  <2>3. CASE ReceiveOffer(Head(down))
    <3>1. Head(down) \in Offers  BY <2>3 DEF ReceiveOffer, Offers, ServerMessages
    <3>2. requests' = requests + 1 /\ req' = [req EXCEPT ![requests + 1] = "asked"]
      BY <2>3 DEF ReceiveOffer
    <3>3. \A r \in Requests : r > requests + 1 => req'[r] = "none"
      BY <3>2 DEF Offered, Requests
    <3>. QED  BY <2>1, <2>2, <3>1, <3>2, <3>3 DEF Offered, One
  <2>4. CASE ReceiveAssignment(Head(down)) \/ ReceiveTermination(Head(down))
    <3>1. requests' = requests
      BY <2>4 DEF ReceiveAssignment, ReceiveTermination
    <3>2. \A r \in Requests : req[r] = "none" => req'[r] = "none"
      BY <2>4 DEF ReceiveAssignment, ReceiveTermination
    <3>. QED  BY <2>1, <2>2, <3>1, <3>2 DEF Offered, One
  <2>. QED  BY <1>5, <2>3, <2>4 DEF Receives
<1>6. ASSUME NEW r \in Requests,
             Moves(r) \/ Accept(r) \/ Reject(r) \/ Launched(r) \/ LaunchLost(r) \/ JobEnds(r)
      PROVE  Offered'
  <2>1. UNCHANGED <<down, requests, offers>> /\ req[r] # "none"
        /\ \E s : req' = [req EXCEPT ![r] = s]
    BY <1>6 DEF Moves, Accept, Reject, Launched, LaunchLost, JobEnds, RequestMoves, serverVars
  <2>. QED  BY <1>2, <2>1
<1>7. ASSUME NEW r \in Requests, ServerAssigns(r) \/ ServerTerminates(r)
      PROVE  Offered'
  <2>1. PICK k \in {"assignment", "termination"} :
          /\ down' = Append(down, [kind |-> k, job |-> job[r]])
          /\ UNCHANGED <<requests, offers, req>>
    BY <1>7 DEF ServerAssigns, ServerTerminates, Sends, reqVars, serverVars
  <2>2. [kind |-> k, job |-> job[r]] \in ServerMessages \ Offers
    BY DEF ServerMessages, Offers, TypeOK
  <2>3. CountIn(down', Offers) = CountIn(down, Offers)
    BY <2>1, <2>2, CountAppend DEF One
  <2>. QED  BY <2>1, <2>3 DEF Offered
<1>8. ASSUME NEW j \in Jobs, ServerOffers(j)
      PROVE  Offered'
  <2>1. /\ down' = Append(down, [kind |-> "availability", job |-> j])
        /\ offers' = offers + 1
        /\ UNCHANGED <<requests, req>>
    BY <1>8 DEF ServerOffers, Sends, reqVars
  <2>2. [kind |-> "availability", job |-> j] \in ServerMessages \cap Offers
    BY DEF ServerMessages, Offers
  <2>3. CountIn(down', Offers) = CountIn(down, Offers) + 1
    BY <2>1, <2>2, CountAppend DEF One
  <2>. QED  BY <2>1, <2>3 DEF Offered
<1>. QED  BY <1>3, <1>4, <1>5, <1>6, <1>7, <1>8 DEF Step

LEMMA ReportedNext ==
  ASSUME TypeOK, Offered, Reported, Step
  PROVE  Reported'
<1>. MaxRequests \in Nat  BY WorkerAssumption
<1>. reports \in Nat /\ requests \in Nat /\ req \in [Requests -> Places]  BY DEF TypeOK, Places
<1>. /\ IsFiniteSet(Ran) /\ Cardinality(Ran) \in Nat
     /\ IsFiniteSet(Over) /\ Cardinality(Over) \in Nat
  <2>1. Ran \in SUBSET Requests /\ Over \in SUBSET Requests  BY DEF Ran, Over
  <2>. QED  BY <2>1, RequestSets
<1>1. ASSUME UNCHANGED <<Ran, Over>>, reports' <= reports, reports' \in Nat
      PROVE  Reported'
  BY <1>1 DEF Reported
<1>2. ASSUME NEW r \in Requests, req[r] = "running", req' = [req EXCEPT ![r] = "ended"],
             reports' = reports + 1
      PROVE  Reported'
  <2>1. Ran' = Ran  BY <1>2 DEF Ran
  <2>2. Over' = Over \cup {r} /\ r \notin Over  BY <1>2 DEF Over
  <2>3. Cardinality(Over') = Cardinality(Over) + 1  BY <2>2, FS_AddElement
  <2>. QED  BY <1>2, <2>1, <2>3 DEF Reported
<1>3. CASE Quiet \/ Updates \/ SendTakes \/ SendArrives \/ Loses
  <2>1. UNCHANGED <<reports, req>>
    BY <1>3 DEF Quiet, Updates, SendTakes, SendArrives, Loses, reqVars
  <2>2. UNCHANGED <<Ran, Over>>  BY <2>1 DEF Ran, Over
  <2>. QED  BY <1>1, <2>1, <2>2
<1>4. CASE PutReport
  <2>1. reports' \in Nat /\ reports' <= reports /\ UNCHANGED req  BY <1>4 DEF PutReport, reqVars
  <2>2. UNCHANGED <<Ran, Over>>  BY <2>1 DEF Ran, Over
  <2>. QED  BY <1>1, <2>1, <2>2
<1>5. CASE Receives
  <2>1. CASE ReceiveOffer(Head(down)) \/ ReceiveAssignment(Head(down))
    <3>1. /\ reports' = reports
          /\ \A r \in Requests : req'[r] # req[r] =>
               req[r] \in {"none", "waiting"} /\ req'[r] \in {"asked", "assigned"}
      BY <2>1 DEF ReceiveOffer, ReceiveAssignment, Offered, Requests
    <3>2. UNCHANGED <<Ran, Over>>  BY <3>1 DEF Ran, Over
    <3>. QED  BY <1>1, <3>1, <3>2
  <2>2. CASE ReceiveTermination(Head(down))
    <3>1. CASE UNCHANGED <<req, reports>>
      <4>1. UNCHANGED <<Ran, Over>>  BY <3>1 DEF Ran, Over
      <4>. QED  BY <1>1, <3>1, <4>1
    <3>. QED  BY <1>2, <2>2, <3>1 DEF ReceiveTermination
  <2>. QED  BY <1>5, <2>1, <2>2 DEF Receives
<1>6. ASSUME NEW r \in Requests, Moves(r) \/ Accept(r) \/ Reject(r)
      PROVE  Reported'
  <2>1. /\ reports' = reports
        /\ \A q \in Requests : req'[q] # req[q] =>
             /\ req[q] \notin {"running", "ended"}
             /\ req'[q] \notin {"running", "ended"}
    BY <1>6 DEF Moves, Accept, Reject, RequestMoves
  <2>2. UNCHANGED <<Ran, Over>>  BY <2>1 DEF Ran, Over
  <2>. QED  BY <1>1, <2>1, <2>2
<1>7. ASSUME NEW r \in Requests, Launched(r)
      PROVE  Reported'
  <2>1. req[r] = "launching" /\ req' = [req EXCEPT ![r] = "running"] /\ reports' = reports + 1
    BY <1>7 DEF Launched, RequestMoves
  <2>2. Over' = Over  BY <2>1 DEF Over
  <2>3. Ran' = Ran \cup {r} /\ r \notin Ran  BY <2>1 DEF Ran
  <2>4. Cardinality(Ran') = Cardinality(Ran) + 1  BY <2>3, FS_AddElement
  <2>. QED  BY <2>1, <2>2, <2>4 DEF Reported
<1>8. ASSUME NEW r \in Requests, JobEnds(r)
      PROVE  Reported'
  BY <1>2, <1>8 DEF JobEnds, RequestMoves
<1>9. ASSUME \/ \E r \in Requests : ServerAssigns(r) \/ ServerTerminates(r)
             \/ \E j \in Jobs : ServerOffers(j)
      PROVE  Reported'
  <2>1. UNCHANGED <<reports, req>>
    BY <1>9 DEF ServerAssigns, ServerTerminates, ServerOffers, reqVars
  <2>2. UNCHANGED <<Ran, Over>>  BY <2>1 DEF Ran, Over
  <2>. QED  BY <1>1, <2>1, <2>2
<1>10. ASSUME NEW r \in Requests, LaunchLost(r)
       PROVE  Reported'
  <2>1. /\ req[r] = "launching" /\ req' = [req EXCEPT ![r] = "ended"]
        /\ reports' \in {reports, reports + 1}
    BY <1>10 DEF LaunchLost, RequestMoves
  <2>2. Over' = Over \cup {r} /\ r \notin Over  BY <2>1 DEF Over
  <2>3. Ran' = Ran \cup {r} /\ r \notin Ran  BY <2>1 DEF Ran
  <2>4. Cardinality(Ran') = Cardinality(Ran) + 1  BY <2>3, FS_AddElement
  <2>5. Cardinality(Over') = Cardinality(Over) + 1  BY <2>2, FS_AddElement
  <2>. QED  BY <2>1, <2>4, <2>5 DEF Reported
<1>. QED  BY <1>3, <1>4, <1>5, <1>6, <1>7, <1>8, <1>9, <1>10 DEF Step

-------------------------------------------------------------------------------
\* What a step may do to an acceptance: it takes off when it is given, and otherwise
\* only moves on or is lost.
Flies(q) ==
  /\ Flight(q) \in Nat /\ Flight(q)' \in Nat
  /\ \/ Flight(q)' <= Flight(q) /\ req'[q] = req[q]
     \/ Flight(q)' <= Flight(q) /\ ~Unaccepted(q)'
     \/ Flight(q)' <= Flight(q) /\ Unaccepted(q) /\ Unaccepted(q)'
     \/ Flight(q)' <= Flight(q) + 1 /\ req[q] = "accepting" /\ req'[q] = "waiting"

LEMMA FlightType ==
  ASSUME TypeOK, NEW q \in Requests
  PROVE  CountIn(msgs, Acceptance(q)) \in Nat /\ Flight(q) \in Nat
<1>1. msgs \in Seq(Messages)  BY DEF TypeOK
<1>2. CountIn(msgs, Acceptance(q)) \in Nat  BY <1>1, PositionsFinite
<1>. QED  BY <1>2 DEF Flight, One

\* Only the parts of Flight matter to it.
LEMMA FlightParts ==
  ASSUME TypeOK, NEW q \in Requests,
         CountIn(msgs, Acceptance(q))' \in Nat,
         CountIn(msgs, Acceptance(q))' + One(hand = Answer("accept", q))' + One(q \in accepted)'
           <= CountIn(msgs, Acceptance(q)) + One(hand = Answer("accept", q)) + One(q \in accepted)
  PROVE  Flight(q)' <= Flight(q) /\ Flight(q)' \in Nat
BY DEF Flight, One

\* A message that is no acceptance of q is queued.
LEMMA QueuesOther ==
  ASSUME TypeOK, NEW q \in Requests, NEW m \in Messages, m \notin Acceptance(q),
         msgs' = Append(msgs, m), UNCHANGED <<hand, accepted>>
  PROVE  Flight(q)' <= Flight(q) /\ Flight(q)' \in Nat
<1>. msgs \in Seq(Messages)  BY DEF TypeOK
<1>. CountIn(msgs, Acceptance(q)) \in Nat  BY FlightType
<1>1. CountIn(msgs', Acceptance(q)) = CountIn(msgs, Acceptance(q)) + One(m \in Acceptance(q))
  BY CountAppend
<1>2. CountIn(msgs, Acceptance(q))' = CountIn(msgs, Acceptance(q))
  BY <1>1 DEF One, Acceptance, Answer
<1>. QED  BY <1>2, FlightParts DEF One

LEMMA FliesNext ==
  ASSUME TypeOK, Offered, Step, NEW q \in Requests
  PROVE  Flies(q)
<1>. MaxRequests \in Nat  BY WorkerAssumption
<1>. msgs \in Seq(Messages) /\ requests \in Nat /\ req \in [Requests -> Places]
     /\ hand \in Messages \cup {None} /\ accepted \subseteq Requests
  BY DEF TypeOK, Places
<1>. CountIn(msgs, Acceptance(q)) \in Nat /\ Flight(q) \in Nat  BY FlightType
<1>. USE DEF Flies
<1>1. CASE UNCHANGED <<msgs, hand, accepted, req>>
  <2>1. Flight(q)' = Flight(q)  BY <1>1 DEF Flight
  <2>. QED  BY <1>1, <2>1
<1>2. CASE Quiet
  BY <1>1, <1>2 DEF Quiet, reqVars
<1>3. CASE Updates \/ PutReport
  <2>1. PICK m \in Messages :
          m \notin Acceptance(q) /\ msgs' = Append(msgs, m) /\ UNCHANGED <<hand, accepted>>
    BY <1>3, WhatIsQueued DEF Updates, PutReport, Queue, serverVars
  <2>2. Flight(q)' <= Flight(q) /\ Flight(q)' \in Nat  BY <2>1, QueuesOther
  <2>3. UNCHANGED req  BY <1>3 DEF Updates, PutReport, reqVars
  <2>. QED  BY <2>2, <2>3
<1>4. CASE Loses
  <2>1. UNCHANGED <<msgs, req>> /\ hand' = None /\ accepted' = {}
    BY <1>4 DEF Loses, Hangs, reqVars
  <2>2. CountIn(msgs, Acceptance(q))' = CountIn(msgs, Acceptance(q))
    BY <2>1 DEF Acceptance, Answer
  <2>3. One(hand = Answer("accept", q))' = 0 /\ One(q \in accepted)' = 0
    BY <2>1 DEF One, None, Answer
  <2>4. Flight(q)' <= Flight(q) /\ Flight(q)' \in Nat
    BY <2>2, <2>3, FlightParts DEF One
  <2>. QED  BY <2>1, <2>4
<1>5. CASE SendTakes
  <2>1. UNCHANGED <<req, accepted>> /\ hand = None /\ hand' = Head(msgs) /\ msgs' = Tail(msgs)
        /\ msgs # <<>>
    BY <1>5 DEF SendTakes, reqVars, serverVars
  <2>2. Head(msgs) \in Messages /\ Tail(msgs) \in Seq(Messages)  BY <2>1
  <2>3. CountIn(msgs, Acceptance(q))
          = CountIn(Tail(msgs), Acceptance(q)) + One(Head(msgs) \in Acceptance(q))
    BY <2>1, CountTail
  <2>4. CountIn(Tail(msgs), Acceptance(q)) \in Nat  BY <2>2, PositionsFinite
  <2>5. CountIn(msgs, Acceptance(q))' = CountIn(Tail(msgs), Acceptance(q))
    BY <2>1 DEF Acceptance, Answer
  <2>6. One(hand = Answer("accept", q))' = One(Head(msgs) \in Acceptance(q))
    BY <2>1 DEF Acceptance, Answer
  <2>7. One(hand = Answer("accept", q)) = 0  BY <2>1 DEF One, None, Answer
  <2>8. One(q \in accepted)' = One(q \in accepted)  BY <2>1
  <2>9. Flight(q)' <= Flight(q) /\ Flight(q)' \in Nat
    BY <2>3, <2>4, <2>5, <2>6, <2>7, <2>8, FlightParts DEF One
  <2>. QED  BY <2>1, <2>9
<1>6. CASE SendArrives
  <2>1. /\ UNCHANGED <<req, msgs>> /\ hand # None /\ hand' = None
        /\ accepted' = IF hand.kind = "accept" THEN accepted \cup {hand.request} ELSE accepted
    BY <1>6 DEF SendArrives, reqVars
  <2>2. CountIn(msgs, Acceptance(q))' = CountIn(msgs, Acceptance(q))
    BY <2>1 DEF Acceptance, Answer
  <2>3. One(hand = Answer("accept", q))' = 0  BY <2>1 DEF One, None, Answer
  <2>4. q \in accepted' <=> q \in accepted \/ hand = Answer("accept", q)
    BY <2>1, MessageParts
  <2>5. Flight(q)' <= Flight(q) /\ Flight(q)' \in Nat
    BY <2>2, <2>3, <2>4, FlightParts DEF One
  <2>. QED  BY <2>1, <2>5
<1>7. CASE Receives
  <2>1. UNCHANGED <<msgs, hand, accepted>>  BY <1>7 DEF Receives
  <2>2. Flight(q)' = Flight(q)  BY <2>1 DEF Flight
  <2>3. CASE ReceiveOffer(Head(down))
    <3>1. req'[q] # req[q] => req[q] = "none" /\ req'[q] = "asked"
      BY <2>3 DEF ReceiveOffer, Offered, Requests
    <3>. QED  BY <2>2, <3>1 DEF Unaccepted
  <2>4. CASE ReceiveAssignment(Head(down)) \/ ReceiveTermination(Head(down))
    <3>1. req'[q] # req[q] => req'[q] \in {"assigned", "ended"}
      BY <2>4 DEF ReceiveAssignment, ReceiveTermination
    <3>. QED  BY <2>2, <3>1 DEF Unaccepted
  <2>. QED  BY <1>7, <2>3, <2>4 DEF Receives
<1>8. ASSUME NEW r \in Requests, Moves(r) \/ Launched(r) \/ LaunchLost(r) \/ JobEnds(r)
      PROVE  Flies(q)
  <2>1. UNCHANGED <<msgs, hand, accepted>>
    BY <1>8 DEF Moves, Launched, LaunchLost, JobEnds, serverVars
  <2>2. Flight(q)' = Flight(q)  BY <2>1 DEF Flight
  <2>3. req'[q] # req[q] =>
          \/ req'[q] \in {"timeout", "launching", "running", "ended"}
          \/ req[q] = "asked" /\ req'[q] \in {"accepting", "rejecting"}
    BY <1>8 DEF Moves, Launched, LaunchLost, JobEnds, RequestMoves
  <2>. QED  BY <2>2, <2>3 DEF Unaccepted
<1>9. ASSUME NEW r \in Requests, Accept(r)
      PROVE  Flies(q)
  <2>1. /\ msgs' = Append(msgs, Answer("accept", r)) /\ UNCHANGED <<hand, accepted>>
        /\ req[r] = "accepting" /\ req' = [req EXCEPT ![r] = "waiting"]
    BY <1>9 DEF Accept, Queue, RequestMoves, serverVars
  <2>2. Answer("accept", r) \in Messages  BY WhatIsQueued
  <2>3. CASE q # r
    <3>1. Answer("accept", r) \notin Acceptance(q)  BY <2>3, WhatIsQueued
    <3>2. Flight(q)' <= Flight(q) /\ Flight(q)' \in Nat  BY <2>1, <2>2, <3>1, QueuesOther
    <3>3. req'[q] = req[q]  BY <2>1, <2>3
    <3>. QED  BY <3>2, <3>3
  <2>4. CASE q = r
    <3>1. Answer("accept", r) \in Acceptance(q)  BY <2>4, WhatIsQueued
    <3>2. CountIn(msgs', Acceptance(q))
            = CountIn(msgs, Acceptance(q)) + One(Answer("accept", r) \in Acceptance(q))
      BY <2>1, <2>2, CountAppend
    <3>3. CountIn(msgs, Acceptance(q))' = CountIn(msgs, Acceptance(q)) + 1
      BY <3>1, <3>2 DEF One, Acceptance, Answer
    <3>4. Flight(q)' = Flight(q) + 1  BY <2>1, <3>3 DEF Flight, One
    <3>5. req[q] = "accepting" /\ req'[q] = "waiting"  BY <2>1, <2>4
    <3>. QED  BY <3>4, <3>5
  <2>. QED  BY <2>3, <2>4
<1>10. ASSUME NEW r \in Requests, Reject(r)
       PROVE  Flies(q)
  <2>1. /\ msgs' = Append(msgs, Answer("reject", r)) /\ UNCHANGED <<hand, accepted>>
        /\ req[r] = "rejecting" /\ req' = [req EXCEPT ![r] = "rejected"]
    BY <1>10 DEF Reject, Queue, RequestMoves, serverVars
  <2>2. Answer("reject", r) \in Messages /\ Answer("reject", r) \notin Acceptance(q)
    BY WhatIsQueued
  <2>3. Flight(q)' <= Flight(q) /\ Flight(q)' \in Nat  BY <2>1, <2>2, QueuesOther
  <2>4. req'[q] = req[q] \/ (Unaccepted(q) /\ Unaccepted(q)')  BY <2>1 DEF Unaccepted
  <2>. QED  BY <2>3, <2>4
<1>11. ASSUME NEW r \in Requests, ServerAssigns(r)
       PROVE  Flies(q)
  <2>1. UNCHANGED <<msgs, hand, req>> /\ accepted' = accepted \ {r}
    BY <1>11 DEF ServerAssigns, reqVars
  <2>2. CountIn(msgs, Acceptance(q))' = CountIn(msgs, Acceptance(q))
    BY <2>1 DEF Acceptance, Answer
  <2>3. Flight(q)' <= Flight(q) /\ Flight(q)' \in Nat
    BY <2>1, <2>2, FlightParts DEF One
  <2>. QED  BY <2>1, <2>3
<1>12. ASSUME \/ \E r \in Requests : ServerTerminates(r)
              \/ \E j \in Jobs : ServerOffers(j)
       PROVE  Flies(q)
  <2>1. UNCHANGED <<msgs, hand, accepted, req>>
    BY <1>12 DEF ServerTerminates, ServerOffers, reqVars, serverVars
  <2>. QED  BY <1>1, <2>1
<1>. QED  BY <1>2, <1>3, <1>4, <1>5, <1>6, <1>7, <1>8, <1>9, <1>10, <1>11, <1>12 DEF Step

LEMMA FlyingNext ==
  ASSUME TypeOK, Offered, Flying, Step
  PROVE  Flying'
<1>. SUFFICES ASSUME NEW q \in Requests
              PROVE  Flight(q)' <= One(~Unaccepted(q))'
  BY DEF Flying
<1>1. Flies(q)  BY FliesNext
<1>2. Flight(q) <= One(~Unaccepted(q))  BY DEF Flying
<1>. QED  BY <1>1, <1>2 DEF Flies, One, Unaccepted

\* What was used up by an assignment remains so.
LEMMA EarnedNext ==
  ASSUME TypeOK, Offered, Flying, Earned, Step
  PROVE  Earned'
<1>. MaxRequests \in Nat  BY WorkerAssumption
<1>. requests \in Nat /\ req \in [Requests -> Places] /\ assigned \in [Jobs -> Nat]
     /\ job \in [Requests -> Jobs] /\ accepted \subseteq Requests
  BY DEF TypeOK, Places
<1>1. \A q \in Requests : ~Unaccepted(q) /\ Flight(q) = 0 =>
        ~Unaccepted(q)' /\ Flight(q)' = 0 /\ job'[q] = job[q]
  <2>. TAKE q \in Requests
  <2>. HAVE ~Unaccepted(q) /\ Flight(q) = 0
  <2>1. Flies(q)  BY FliesNext
  <2>2. Flight(q)' \in Nat /\ Flight(q)' <= 1  BY <2>1, FlyingNext DEF Flying, Flies, One
  <2>3. ~Unaccepted(q)'
    <3>1. CASE Receives
      <4>1. req'[q] # req[q] => req[q] = "none" \/ req'[q] \in {"assigned", "ended"}
        BY <3>1 DEF Receives, ReceiveOffer, ReceiveAssignment, ReceiveTermination,
                    Offered, Requests
      <4>. QED  BY <4>1 DEF Unaccepted
    <3>2. ASSUME NEW r \in Requests,
                 \/ Moves(r) \/ Accept(r) \/ Reject(r) \/ Launched(r) \/ LaunchLost(r) \/ JobEnds(r)
                 \/ ServerAssigns(r) \/ ServerTerminates(r)
          PROVE  ~Unaccepted(q)'
      <4>1. \/ req'[q] = req[q]
            \/ req'[q] \in {"waiting", "timeout", "launching", "running", "ended"}
            \/ req[q] \in {"asked", "rejecting"}
        BY <3>2 DEF Moves, Accept, Reject, Launched, LaunchLost, JobEnds, RequestMoves,
                    ServerAssigns, ServerTerminates, reqVars
      <4>. QED  BY <4>1 DEF Unaccepted
    <3>3. CASE \/ Quiet \/ Updates \/ Loses \/ SendTakes \/ SendArrives \/ PutReport
               \/ \E j \in Jobs : ServerOffers(j)
      <4>1. UNCHANGED req
        BY <3>3 DEF Quiet, Updates, Loses, SendTakes, SendArrives, PutReport, ServerOffers, reqVars
      <4>. QED  BY <4>1 DEF Unaccepted
    <3>. QED  BY <3>1, <3>2, <3>3 DEF Step
  <2>4. job'[q] = job[q]
    <3>1. CASE Receives
      BY <3>1 DEF Receives, ReceiveOffer, ReceiveAssignment, ReceiveTermination,
                  Offered, Requests, Unaccepted
    <3>2. CASE ~Receives
      BY <3>2 DEF Step, Quiet, Updates, Loses, SendTakes, SendArrives, PutReport, ServerOffers,
                  Moves, Accept, Reject, Launched, LaunchLost, JobEnds, RequestMoves, ServerAssigns,
                  ServerTerminates, reqVars
    <3>. QED  BY <3>1, <3>2
  <2>5. Flight(q)' = 0
    BY <2>1, <2>2, <2>3 DEF Flies, Unaccepted
  <2>. QED  BY <2>3, <2>4, <2>5
<1>2. \A j \in Jobs : Used(j) \subseteq Used(j)'  BY <1>1 DEF Used
<1>3. \A j \in Jobs : /\ IsFiniteSet(Used(j)) /\ Cardinality(Used(j)) \in Nat
                      /\ IsFiniteSet(Used(j)') /\ Cardinality(Used(j)') \in Nat
  <2>. TAKE j \in Jobs
  <2>1. Used(j) \in SUBSET Requests /\ Used(j)' \in SUBSET Requests
    BY DEF Used, Requests
  <2>. QED  BY <2>1, RequestSets
<1>4. \A j \in Jobs : Cardinality(Used(j)) <= Cardinality(Used(j)')
  BY <1>2, <1>3, FS_Subset
<1>5. CASE UNCHANGED assigned
  <2>. SUFFICES ASSUME NEW j \in Jobs
                PROVE  assigned'[j] <= Cardinality(Used(j)')
    BY DEF Earned
  <2>. QED  BY <1>3, <1>4, <1>5 DEF Earned
<1>6. ASSUME NEW r \in Requests, ServerAssigns(r)
      PROVE  Earned'
  <2>. PICK k \in Jobs : k = job[r]  OBVIOUS
  <2>1. /\ r \in accepted /\ accepted' = accepted \ {r}
        /\ UNCHANGED <<msgs, hand, req, job>>
        /\ assigned' = [assigned EXCEPT ![k] = @ + 1]
    BY <1>6 DEF ServerAssigns, reqVars
  <2>2. Flight(r) <= One(~Unaccepted(r))  BY DEF Flying
  <2>3. CountIn(msgs, Acceptance(r)) \in Nat /\ Flight(r) \in Nat  BY FlightType
  <2>4. Flight(r) = 1 /\ ~Unaccepted(r)
    BY <2>1, <2>2, <2>3 DEF Flight, One
  <2>5. Flight(r)' = 0
    <3>1. CountIn(msgs, Acceptance(r))' = CountIn(msgs, Acceptance(r))
      BY <2>1 DEF Acceptance, Answer
    <3>. QED  BY <2>1, <2>3, <2>4, <3>1 DEF Flight, One
  <2>6. r \in Used(k)' /\ r \notin Used(k)
    BY <2>1, <2>3, <2>4, <2>5 DEF Used, Unaccepted
  <2>7. Cardinality(Used(k) \cup {r}) = Cardinality(Used(k)) + 1
    BY <1>3, <2>6, FS_AddElement
  <2>8. Used(k) \cup {r} \in SUBSET (Used(k)')  BY <1>2, <2>6
  <2>9. Cardinality(Used(k) \cup {r}) <= Cardinality(Used(k)')
    BY <1>3, <2>8, FS_Subset
  <2>. SUFFICES ASSUME NEW j \in Jobs
                PROVE  assigned'[j] <= Cardinality(Used(j)')
    BY DEF Earned
  <2>11. CASE j = k
    <3>1. assigned'[j] = assigned[j] + 1 /\ assigned[j] <= Cardinality(Used(j))
      BY <2>1, <2>11 DEF Earned
    <3>. QED  BY <1>3, <2>7, <2>9, <2>11, <3>1
  <2>12. CASE j # k
    <3>1. assigned'[j] = assigned[j] /\ assigned[j] <= Cardinality(Used(j))
      BY <2>1, <2>12 DEF Earned
    <3>. QED  BY <1>3, <1>4, <3>1
  <2>. QED  BY <2>11, <2>12
<1>7. CASE ~\E r \in Requests : ServerAssigns(r)
  <2>1. UNCHANGED assigned
    BY <1>7 DEF Step, Quiet, Updates, Loses, SendTakes, SendArrives, Receives, PutReport,
                ServerOffers, Moves, Accept, Reject, Launched, LaunchLost, JobEnds,
                ServerTerminates,
                serverVars
  <2>. QED  BY <1>5, <2>1
<1>. QED  BY <1>6, <1>7

LEMMA AwaitedNext ==
  ASSUME TypeOK, Offered, Awaited, Step
  PROVE  Awaited'
<1>. MaxRequests \in Nat  BY WorkerAssumption
<1>. requests \in Nat /\ req \in [Requests -> Places] /\ pending \in [Jobs -> 0 .. MaxRequests]
     /\ job \in [Requests -> Jobs]
  BY DEF TypeOK, Places
<1>. 0 \notin Requests /\ \A n \in 0 .. MaxRequests : n # 0 => n \in Requests  BY DEF Requests
<1>1. ASSUME NEW r \in Requests, Accept(r)
      PROVE  Awaited'
  <2>1. /\ req[r] = "accepting" /\ req' = [req EXCEPT ![r] = "waiting"] /\ job' = job
        /\ pending' = [pending EXCEPT ![job[r]] = r]
    BY <1>1 DEF Accept, RequestMoves
  <2>. QED  BY <2>1 DEF Awaited
<1>2. CASE Receives
  <2>1. \A j \in Jobs : pending'[j] # 0 => pending'[j] = pending[j]
    BY <1>2 DEF Receives, ReceiveOffer, ReceiveAssignment, ReceiveTermination
  <2>2. \A q \in Requests : req[q] # "none" => req'[q] # "none" /\ job'[q] = job[q]
    <3>1. CASE ReceiveOffer(Head(down))
      BY <3>1 DEF ReceiveOffer, Offered, Requests
    <3>2. CASE ReceiveAssignment(Head(down)) \/ ReceiveTermination(Head(down))
      BY <3>2 DEF ReceiveAssignment, ReceiveTermination
    <3>. QED  BY <1>2, <3>1, <3>2 DEF Receives
  <2>. QED  BY <2>1, <2>2 DEF Awaited
<1>3. ASSUME NEW r \in Requests,
             \/ Moves(r) \/ Reject(r) \/ Launched(r) \/ LaunchLost(r) \/ JobEnds(r)
             \/ ServerAssigns(r) \/ ServerTerminates(r)
      PROVE  Awaited'
  <2>1. UNCHANGED <<pending, job>>
    BY <1>3 DEF Moves, Reject, Launched, LaunchLost, JobEnds, ServerAssigns, ServerTerminates,
                RequestMoves, reqVars
  <2>2. \A q \in Requests : req[q] # "none" => req'[q] # "none"
    BY <1>3 DEF Moves, Reject, Launched, LaunchLost, JobEnds, ServerAssigns, ServerTerminates,
                RequestMoves, reqVars
  <2>. QED  BY <2>1, <2>2 DEF Awaited
<1>4. CASE \/ Quiet \/ Updates \/ Loses \/ SendTakes \/ SendArrives \/ PutReport
           \/ \E j \in Jobs : ServerOffers(j)
  <2>1. UNCHANGED <<pending, job, req>>
    BY <1>4 DEF Quiet, Updates, Loses, SendTakes, SendArrives, PutReport, ServerOffers, reqVars
  <2>. QED  BY <2>1 DEF Awaited
<1>. QED  BY <1>1, <1>2, <1>3, <1>4 DEF Step

-------------------------------------------------------------------------------
LEMMA AnsweredNext ==
  ASSUME TypeOK, Offered, Awaited, Answered, Step
  PROVE  Answered'
<1>. MaxRequests \in Nat  BY WorkerAssumption
<1>. /\ down \in Seq(ServerMessages) /\ requests \in Nat /\ req \in [Requests -> Places]
     /\ pending \in [Jobs -> 0 .. MaxRequests] /\ job \in [Requests -> Jobs]
     /\ assigned \in [Jobs -> Nat]
  BY DEF TypeOK, Places
<1>. 0 \notin Requests /\ \A n \in 0 .. MaxRequests : n # 0 => n \in Requests  BY DEF Requests
<1>. SUFFICES ASSUME NEW j \in Jobs
              PROVE  Cardinality(Granted(j)') + CountIn(down', Assignment(j)) <= assigned'[j]
  BY DEF Answered, Assignment
<1>. CountIn(down, Assignment(j)) \in Nat  BY PositionsFinite
<1>1. /\ IsFiniteSet(Granted(j)) /\ Cardinality(Granted(j)) \in Nat
      /\ IsFiniteSet(Granted(j)') /\ Cardinality(Granted(j)') \in Nat
  <2>1. Granted(j) \in SUBSET Requests /\ Granted(j)' \in SUBSET Requests
    BY DEF Granted, Requests
  <2>. QED  BY <2>1, RequestSets
<1>2. Cardinality(Granted(j)) + CountIn(down, Assignment(j)) <= assigned[j]  BY DEF Answered
<1>3. ASSUME Granted(j)' \subseteq Granted(j), UNCHANGED assigned,
             CountIn(down', Assignment(j)) \in Nat,
             CountIn(down', Assignment(j)) <= CountIn(down, Assignment(j))
      PROVE  Cardinality(Granted(j)') + CountIn(down', Assignment(j)) <= assigned'[j]
  <2>1. Cardinality(Granted(j)') <= Cardinality(Granted(j))  BY <1>1, <1>3, FS_Subset
  <2>2. assigned'[j] \in Nat  BY <1>3
  <2>. QED  BY <1>1, <1>2, <1>3, <2>1, <2>2
<1>4. CASE Quiet \/ Updates \/ SendTakes \/ SendArrives \/ PutReport
  <2>1. UNCHANGED <<down, req, job, assigned>>
    BY <1>4 DEF Quiet, Updates, SendTakes, SendArrives, PutReport, reqVars, serverVars
  <2>2. Granted(j)' = Granted(j)  BY <2>1 DEF Granted
  <2>. QED  BY <1>3, <2>1, <2>2
<1>5. CASE Loses
  <2>1. down' = <<>> /\ UNCHANGED <<req, job, assigned>>
    BY <1>5 DEF Loses, Hangs, reqVars
  <2>2. Granted(j)' = Granted(j)  BY <2>1 DEF Granted
  <2>3. CountIn(down', Assignment(j)) = 0  BY <2>1, CountEmpty
  <2>. QED  BY <1>3, <2>1, <2>2, <2>3
<1>6. CASE Receives
  <2>. down # <<>> /\ down' = Tail(down) /\ UNCHANGED assigned  BY <1>6 DEF Receives
  <2>. Head(down) \in ServerMessages /\ Tail(down) \in Seq(ServerMessages)  OBVIOUS
  <2>1. CountIn(down, Assignment(j))
          = CountIn(down', Assignment(j)) + One(Head(down) \in Assignment(j))
    BY CountTail
  <2>2. CountIn(down', Assignment(j)) \in Nat  BY PositionsFinite
  <2>3. CountIn(down', Assignment(j)) <= CountIn(down, Assignment(j))
    BY <2>1, <2>2 DEF One
  <2>4. CASE ReceiveOffer(Head(down))
    <3>1. \A r \in Requests : (req'[r] = req[r] /\ job'[r] = job[r]) \/ req'[r] = "asked"
      BY <2>4 DEF ReceiveOffer
    <3>2. Granted(j)' \subseteq Granted(j)  BY <3>1 DEF Granted
    <3>. QED  BY <1>3, <2>2, <2>3, <3>2
  <2>5. CASE ReceiveTermination(Head(down))
    <3>1. job' = job /\ \A r \in Requests : req'[r] = req[r] \/ req[r] = "running"
      BY <2>5 DEF ReceiveTermination
    <3>2. Granted(j)' \subseteq Granted(j)  BY <3>1 DEF Granted
    <3>. QED  BY <1>3, <2>2, <2>3, <3>2
  <2>6. CASE ReceiveAssignment(Head(down)) /\ Head(down).job # j
    <3>1. job' = job
          /\ \A r \in Requests : req'[r] = req[r] \/ pending[Head(down).job] = r
      BY <2>6 DEF ReceiveAssignment
    <3>2. Head(down).job \in Jobs  BY DEF ServerMessages
    <3>3. \A r \in Requests : pending[Head(down).job] = r => job[r] = Head(down).job
      BY <3>2 DEF Awaited
    <3>4. Granted(j)' \subseteq Granted(j)  BY <2>6, <3>1, <3>3 DEF Granted
    <3>. QED  BY <1>3, <2>2, <2>3, <3>4
  <2>7. CASE ReceiveAssignment(Head(down)) /\ Head(down).job = j
    <3>1. Head(down) \in Assignment(j)
      BY <2>7 DEF ReceiveAssignment, Assignment, ServerMessages
    <3>2. CountIn(down, Assignment(j)) = CountIn(down', Assignment(j)) + 1
      BY <2>1, <3>1 DEF One
    <3>3. job' = job /\ \A r \in Requests : req'[r] = req[r] \/ r = pending[j]
      BY <2>7 DEF ReceiveAssignment
    <3>4. Granted(j)' \in SUBSET (Granted(j) \cup {pending[j]})  BY <3>3 DEF Granted
    <3>5. /\ IsFiniteSet(Granted(j) \cup {pending[j]})
          /\ Cardinality(Granted(j) \cup {pending[j]})
               = IF pending[j] \in Granted(j) THEN Cardinality(Granted(j))
                 ELSE Cardinality(Granted(j)) + 1
      BY <1>1, FS_AddElement
    <3>6. Cardinality(Granted(j)') <= Cardinality(Granted(j) \cup {pending[j]})
      BY <3>4, <3>5, FS_Subset
    <3>. HIDE DEF Granted
    <3>7. Cardinality(Granted(j)') <= Cardinality(Granted(j)) + 1
      BY <1>1, <3>5, <3>6
    <3>. QED  BY <1>1, <1>2, <2>2, <3>2, <3>7
  <2>. QED  BY <1>6, <2>4, <2>5, <2>6, <2>7 DEF Receives
<1>7. ASSUME NEW r \in Requests,
             Moves(r) \/ Accept(r) \/ Reject(r) \/ Launched(r) \/ LaunchLost(r) \/ JobEnds(r)
      PROVE  Cardinality(Granted(j)') + CountIn(down', Assignment(j)) <= assigned'[j]
  <2>1. UNCHANGED <<down, job, assigned>>
    BY <1>7 DEF Moves, Accept, Reject, Launched, LaunchLost, JobEnds, RequestMoves, serverVars
  <2>2. \A q \in Requests :
          \/ req'[q] = req[q]
          \/ req'[q] \in {"accepting", "rejecting", "waiting", "timeout", "rejected"}
          \/ req[q] \in {"assigned", "launching", "running"}
    BY <1>7 DEF Moves, Accept, Reject, Launched, LaunchLost, JobEnds, RequestMoves
  <2>3. Granted(j)' \subseteq Granted(j)  BY <2>1, <2>2 DEF Granted
  <2>. QED  BY <1>3, <2>1, <2>3
<1>8. ASSUME NEW r \in Requests, ServerAssigns(r)
      PROVE  Cardinality(Granted(j)') + CountIn(down', Assignment(j)) <= assigned'[j]
  <2>. DEFINE m == [kind |-> "assignment", job |-> job[r]]
  <2>1. /\ down' = Append(down, m) /\ UNCHANGED <<req, job>>
        /\ assigned' = [assigned EXCEPT ![job[r]] = @ + 1]
    BY <1>8 DEF ServerAssigns, Sends, reqVars
  <2>2. m \in ServerMessages /\ (m \in Assignment(j) <=> j = job[r])
    BY DEF ServerMessages, Assignment
  <2>3. CountIn(Append(down, m), Assignment(j))
          = CountIn(down, Assignment(j)) + One(m \in Assignment(j))
    BY <2>2, CountAppend
  <2>4. Granted(j)' = Granted(j)  BY <2>1 DEF Granted
  <2>5. assigned[j] \in Nat /\ assigned'[j] = assigned[j] + One(j = job[r])
    BY <2>1 DEF One
  <2>6. One(m \in Assignment(j)) = One(j = job[r])  BY <2>2 DEF One
  <2>7. One(j = job[r]) \in Nat  BY DEF One
  <2>8. CountIn(down', Assignment(j)) = CountIn(down, Assignment(j)) + One(j = job[r])
    BY <2>1, <2>3, <2>6
  <2>. HIDE DEF m
  <2>. QED  BY <1>1, <1>2, <2>4, <2>5, <2>7, <2>8
<1>9. ASSUME NEW m \in ServerMessages, m.kind # "assignment", down' = Append(down, m),
             UNCHANGED <<req, job, assigned>>
      PROVE  Cardinality(Granted(j)') + CountIn(down', Assignment(j)) <= assigned'[j]
  <2>1. m \notin Assignment(j)  BY <1>9 DEF Assignment
  <2>2. CountIn(down', Assignment(j)) = CountIn(down, Assignment(j)) + One(m \in Assignment(j))
    BY <1>9, CountAppend
  <2>3. CountIn(down', Assignment(j)) = CountIn(down, Assignment(j))
    BY <2>1, <2>2 DEF One
  <2>4. Granted(j)' = Granted(j)  BY <1>9 DEF Granted
  <2>. QED  BY <1>3, <1>9, <2>3, <2>4
<1>10. ASSUME NEW r \in Requests, ServerTerminates(r)
       PROVE  Cardinality(Granted(j)') + CountIn(down', Assignment(j)) <= assigned'[j]
  <2>1. [kind |-> "termination", job |-> job[r]] \in ServerMessages  BY DEF ServerMessages
  <2>. QED  BY <1>9, <1>10, <2>1 DEF ServerTerminates, Sends, reqVars, serverVars
<1>11. ASSUME NEW k \in Jobs, ServerOffers(k)
       PROVE  Cardinality(Granted(j)') + CountIn(down', Assignment(j)) <= assigned'[j]
  <2>1. [kind |-> "availability", job |-> k] \in ServerMessages  BY DEF ServerMessages
  <2>. QED  BY <1>9, <1>11, <2>1 DEF ServerOffers, Sends, reqVars
<1>. QED  BY <1>4, <1>5, <1>6, <1>7, <1>8, <1>10, <1>11 DEF Step

-------------------------------------------------------------------------------
LEMMA OwedIsCounted ==
  ASSUME NEW s \in Seq(Messages)
  PROVE  OwedIn(s) = CountIn(s, OwedMessages)
<1>1. Positions(s, OwedMessages) = {i \in 1 .. Len(s) : Owed(s[i])}
  BY DEF Positions, OwedMessages
<1>. QED  BY <1>1 DEF OwedIn, CountIn

LEMMA TypeNext ==
  ASSUME TypeOK, OnlyInHandIsLost, Offered', Reported', Earned', Step, [Next]_vars
  PROVE  TypeOK'
<1>. MaxRequests \in Nat /\ MaxBreaks \in Nat /\ MaxRetry \in Nat /\ ChanSize \in Nat
  BY WorkerAssumption
<1>. /\ msgs \in Seq(Messages) /\ down \in Seq(ServerMessages) /\ requests \in 0 .. MaxRequests
     /\ hand \in Messages \cup {None} /\ accepted \subseteq Requests
     /\ job \in [Requests -> Jobs] /\ req \in [Requests -> Places]
     /\ pending \in [Jobs -> 0 .. MaxRequests] /\ reports \in Nat
     /\ offers \in 0 .. MaxRequests /\ assigned \in [Jobs -> 0 .. MaxRequests]
     /\ owing \in Nat /\ Len(msgs) <= ChanSize /\ full \in BOOLEAN
  BY DEF TypeOK, Places
<1>1. /\ conn' \in {"connecting", "running", "sleeping", "failed", "cancelled"}
      /\ retry' \in 0 .. MaxRetry + 1
      /\ breaks' \in 0 .. MaxBreaks
  <2>. conn \in {"connecting", "running", "sleeping", "failed", "cancelled"}
       /\ retry \in 0 .. MaxRetry + 1 /\ breaks \in 0 .. MaxBreaks
    BY DEF TypeOK
  <2>1. ASSUME NEW n \in 0 .. MaxRetry + 1, Retries(n)
        PROVE  conn' \in {"sleeping", "failed"} /\ retry' \in 0 .. MaxRetry + 1
    BY <2>1 DEF Retries
  <2>2. CASE ConnectFails
    BY <2>1, <2>2 DEF ConnectFails
  <2>3. CASE RegistrationFails
    <3>1. 0 \in 0 .. MaxRetry + 1  OBVIOUS
    <3>. QED  BY <2>1, <2>3, <3>1 DEF RegistrationFails
  <2>4. CASE ConnectionBreaks
    BY <2>1, <2>4 DEF ConnectionBreaks
  <2>5. CASE ~ConnectFails /\ ~RegistrationFails /\ ~ConnectionBreaks
    <3>1. /\ breaks' = breaks
          /\ retry' \in {retry, 0}
          /\ conn' \in {conn, "connecting", "running", "cancelled", "failed"}
      BY <2>5 DEF Next, Runs, Sending, Updating, Environment, RequestRuns, Registers, RetryDelayEnds, SendTakes,
           SendArrives, StatusTick, StatusQueued, Receive, RequestAnswers, Accept, Reject, AssignmentTimeout,
           LaunchStarts, Launched, LaunchLost, JobEnds, PutReport, DrainTells, PoolClosed,
           AcloseEnds,
           ServerOffers, ServerAssigns,
           ServerTerminates, DrainBegins, AcloseBegins, connVars, vars
    <3>. QED  BY <3>1
  <2>. QED  BY <2>2, <2>3, <2>4, <2>5
<1>2. connecting' \in BOOLEAN
  <2>1. connecting' \in {connecting, TRUE, FALSE}
    BY DEF Next, Runs, Sending, Updating, Environment, RequestRuns, Registers, RetryDelayEnds, SendTakes,
         SendArrives, StatusTick, StatusQueued, Receive, RequestAnswers, Accept, Reject, AssignmentTimeout,
         LaunchStarts, Launched, LaunchLost, JobEnds, PutReport, DrainTells, PoolClosed, AcloseEnds,
         ConnectFails, RegistrationFails, ConnectionBreaks, ServerOffers, ServerAssigns,
         ServerTerminates, DrainBegins, AcloseBegins, connVars, vars
  <2>. QED  BY <2>1 DEF TypeOK
<1>3. drain' \in {"no", "telling", "told"} /\ closing' \in {"no", "pool", "tasks", "closed"}
  BY DEF TypeOK, Next, Runs, Sending, Updating, Environment, RequestRuns, Registers, RetryDelayEnds, SendTakes,
         SendArrives, StatusTick, StatusQueued, Receive, RequestAnswers, Accept, Reject, AssignmentTimeout,
         LaunchStarts, Launched, LaunchLost, JobEnds, PutReport, DrainTells, PoolClosed, AcloseEnds,
         ConnectFails, RegistrationFails, ConnectionBreaks, ServerOffers, ServerAssigns,
         ServerTerminates, DrainBegins, AcloseBegins, vars
<1>4. full' \in BOOLEAN
  <2>1. CASE SendArrives
    <3>1. hand # None /\ full' = IF hand.kind = "update_worker" THEN hand.full ELSE full
      BY <2>1 DEF SendArrives
    <3>2. hand.kind = "update_worker" => hand.full \in BOOLEAN
      BY <3>1 DEF Messages, JobUpdate, None
    <3>. QED  BY <3>1, <3>2
  <2>2. CASE ~SendArrives
    <3>1. full' \in {full, FALSE}
      BY <2>2 DEF Next, Runs, Sending, Updating, Environment, RequestRuns, Registers, RetryDelayEnds, SendTakes,
         StatusTick, StatusQueued, Receive, RequestAnswers, Accept, Reject, AssignmentTimeout,
         LaunchStarts, Launched, LaunchLost, JobEnds, PutReport, DrainTells, PoolClosed, AcloseEnds,
         ConnectFails, RegistrationFails, ConnectionBreaks, ServerOffers, ServerAssigns,
         ServerTerminates, DrainBegins, AcloseBegins, serverVars, vars
    <3>. QED  BY <3>1
  <2>. QED  BY <2>1, <2>2
<1>5. msgs' \in Seq(Messages) /\ Len(msgs') <= ChanSize 
  <2>1. ASSUME NEW m \in Messages, Queue(m)
        PROVE  msgs' \in Seq(Messages) /\ Len(msgs') <= ChanSize
    BY <2>1 DEF Queue, Room
  <2>2. CASE SendTakes
    BY <2>2 DEF SendTakes
  <2>3. CASE Updates \/ PutReport \/ \E r \in Requests : Accept(r) \/ Reject(r)
    BY <2>1, <2>3, WhatIsQueued DEF Updates, PutReport, Accept, Reject
  <2>4. CASE UNCHANGED msgs
    BY <2>4
  <2>. QED
    BY <2>2, <2>3, <2>4 DEF Step, Quiet, Loses, SendArrives, Receives, Moves, Launched,
           LaunchLost, JobEnds,
       ServerAssigns, ServerTerminates, ServerOffers
<1>6. hand' \in Messages \cup {None} /\ accepted' \subseteq Requests
  <2>1. CASE SendTakes
    <3>1. Head(msgs) \in Messages  BY <2>1 DEF SendTakes
    <3>. QED  BY <2>1, <3>1 DEF SendTakes, serverVars
  <2>2. CASE SendArrives
    <3>1. hand.kind = "accept" => hand.request \in Requests
      BY DEF Messages, JobUpdate, None
    <3>. QED  BY <2>2, <3>1 DEF SendArrives
  <2>3. CASE Loses \/ \E r \in Requests : ServerAssigns(r)
    BY <2>3 DEF Loses, Hangs, ServerAssigns
  <2>4. CASE UNCHANGED <<hand, accepted>>
    BY <2>4
  <2>. QED
    BY <2>1, <2>2, <2>3, <2>4 DEF Step, Quiet, Updates, Receives, PutReport, Moves, Accept, Reject,
       Launched, LaunchLost, JobEnds, ServerTerminates, ServerOffers, serverVars
<1>7. down' \in Seq(ServerMessages)
  <2>1. CASE Receives
    BY <2>1 DEF Receives
  <2>2. CASE Loses
    BY <2>2 DEF Loses, Hangs
  <2>3. CASE \/ \E r \in Requests : ServerAssigns(r) \/ ServerTerminates(r)
             \/ \E j \in Jobs : ServerOffers(j)
    <3>1. PICK m \in ServerMessages : down' = Append(down, m)
      BY <2>3 DEF ServerAssigns, ServerTerminates, ServerOffers, Sends, ServerMessages
    <3>. QED  BY <3>1
  <2>4. CASE UNCHANGED down
    BY <2>4
  <2>. QED
    BY <2>1, <2>2, <2>3, <2>4 DEF Step, Quiet, Updates, SendTakes, SendArrives, PutReport, Moves,
       Accept, Reject, Launched, LaunchLost, JobEnds
<1>8. /\ job' \in [Requests -> Jobs] /\ req' \in [Requests -> Places]
      /\ pending' \in [Jobs -> 0 .. MaxRequests] /\ requests' \in Nat /\ reports' \in Nat
  <2>. DEFINE Typed ==
         /\ job' \in [Requests -> Jobs] /\ req' \in [Requests -> Places]
         /\ pending' \in [Jobs -> 0 .. MaxRequests] /\ requests' \in Nat /\ reports' \in Nat
  <2>. SUFFICES Typed  OBVIOUS
  <2>1. CASE Receives
    <3>. Head(down) \in ServerMessages  BY <2>1 DEF Receives
    <3>. Head(down).job \in Jobs  BY DEF ServerMessages
    <3>1. CASE ReceiveOffer(Head(down))
      <4>1. job' = [job EXCEPT ![requests'] = Head(down).job]  BY <3>1 DEF ReceiveOffer
      <4>2. req' = [req EXCEPT ![requests'] = "asked"]  BY <3>1 DEF ReceiveOffer
      <4>3. UNCHANGED <<pending, reports>> /\ requests' = requests + 1
        BY <3>1 DEF ReceiveOffer
      <4>4. job' \in [Requests -> Jobs]  BY <4>1
      <4>5. req' \in [Requests -> Places]  BY <4>2 DEF Places
      <4>. QED  BY <4>3, <4>4, <4>5
    <3>2. CASE ReceiveAssignment(Head(down))
      <4>1. pending' = [pending EXCEPT ![Head(down).job] = 0]  BY <3>2 DEF ReceiveAssignment
      <4>2. req' \in [Requests -> Places]  BY <3>2 DEF ReceiveAssignment, Places
      <4>3. UNCHANGED <<requests, job, reports>>  BY <3>2 DEF ReceiveAssignment
      <4>4. pending' \in [Jobs -> 0 .. MaxRequests]  BY <4>1
      <4>. QED  BY <4>2, <4>3, <4>4
    <3>3. CASE ReceiveTermination(Head(down))
      <4>1. UNCHANGED <<requests, job, pending>>  BY <3>3 DEF ReceiveTermination
      <4>2. req' \in [Requests -> Places]  BY <3>3 DEF ReceiveTermination, Places
      <4>3. reports' \in Nat  BY <3>3 DEF ReceiveTermination
      <4>. QED  BY <4>1, <4>2, <4>3
    <3>. QED  BY <2>1, <3>1, <3>2, <3>3 DEF Receives
  <2>2. ASSUME NEW r \in Requests,
               Moves(r) \/ Accept(r) \/ Reject(r) \/ Launched(r) \/ LaunchLost(r) \/ JobEnds(r)
        PROVE  Typed
    <3>1. UNCHANGED <<requests, job>>
      BY <2>2 DEF Moves, Accept, Reject, Launched, LaunchLost, JobEnds, RequestMoves
    <3>2. req' \in [Requests -> Places]
      BY <2>2 DEF Moves, Accept, Reject, Launched, LaunchLost, JobEnds, RequestMoves, Places
    <3>3. reports' \in {reports, reports + 1}
      BY <2>2 DEF Moves, Accept, Reject, Launched, LaunchLost, JobEnds
    <3>4. pending' \in {pending, [pending EXCEPT ![job[r]] = r]}
      BY <2>2 DEF Moves, Accept, Reject, Launched, LaunchLost, JobEnds
    <3>5. r \in 0 .. MaxRequests  BY DEF Requests
    <3>6. [pending EXCEPT ![job[r]] = r] \in [Jobs -> 0 .. MaxRequests]  BY <3>5
    <3>7. pending' \in [Jobs -> 0 .. MaxRequests]  BY <3>4, <3>6
    <3>. QED  BY <3>1, <3>2, <3>3, <3>7
  <2>3. CASE PutReport
    <3>1. UNCHANGED <<requests, job, req, pending>> /\ reports' \in Nat
      BY <2>3 DEF PutReport, reqVars
    <3>. QED  BY <3>1
  <2>4. ASSUME UNCHANGED <<reqVars, reports>>
        PROVE  Typed
    <3>1. UNCHANGED <<requests, job, req, pending, reports>>  BY <2>4 DEF reqVars
    <3>. QED  BY <3>1
  <2>. HIDE DEF Typed
  <2>5. CASE \/ Quiet \/ Updates \/ Loses \/ SendTakes \/ SendArrives
             \/ \E r \in Requests : ServerAssigns(r) \/ ServerTerminates(r)
             \/ \E j \in Jobs : ServerOffers(j)
    <3>1. UNCHANGED <<reqVars, reports>>
      BY <2>5 DEF Quiet, Updates, Loses, SendTakes, SendArrives, ServerAssigns, ServerTerminates,
                  ServerOffers, reqVars
    <3>. QED  BY <2>4, <3>1
  <2>. QED  BY <2>1, <2>2, <2>3, <2>5 DEF Step
<1>9. offers' \in 0 .. MaxRequests
  <2>1. CASE \E j \in Jobs : ServerOffers(j)
    BY <2>1 DEF ServerOffers
  <2>2. CASE UNCHANGED offers
    BY <2>2
  <2>. QED
    BY <2>1, <2>2 DEF Step, Quiet, Updates, Loses, SendTakes, SendArrives, Receives, PutReport,
       Moves, Accept, Reject, Launched, LaunchLost, JobEnds, ServerAssigns, ServerTerminates,
       serverVars
<1>10. requests' \in 0 .. MaxRequests
  <2>1. CountIn(down', Offers) \in Nat  BY <1>7, PositionsFinite
  <2>2. requests' + CountIn(down', Offers) <= offers'  BY DEF Offered, Offers
  <2>. QED  BY <1>8, <1>9, <2>1, <2>2
<1>11. reports' \in 0 .. 2 * MaxRequests
  <2>1. Ran' \in SUBSET Requests /\ Over' \in SUBSET Requests  BY DEF Ran, Over, Requests
  <2>2. Cardinality(Ran') \in 0 .. MaxRequests /\ Cardinality(Over') \in 0 .. MaxRequests
    BY <2>1, RequestSets
  <2>3. reports' <= Cardinality(Ran') + Cardinality(Over')  BY DEF Reported
  <2>. QED  BY <1>8, <2>2, <2>3
<1>12. assigned' \in [Jobs -> 0 .. MaxRequests]
  <2>1. assigned' \in [Jobs -> Nat]
    <3>1. UNCHANGED assigned \/ \E r \in Requests : assigned' = [assigned EXCEPT ![job[r]] = @ + 1]
      BY DEF Step, Quiet, Updates, Loses, SendTakes, SendArrives, Receives, PutReport, Moves, Accept,
         Reject, Launched, LaunchLost, JobEnds, ServerAssigns, ServerTerminates, ServerOffers,
         serverVars
    <3>. QED  BY <3>1
  <2>2. ASSUME NEW j \in Jobs
        PROVE  assigned'[j] <= MaxRequests
    <3>1. Used(j)' \in SUBSET Requests  BY DEF Used, Requests
    <3>2. Cardinality(Used(j)') \in 0 .. MaxRequests  BY <3>1, RequestSets
    <3>3. assigned'[j] <= Cardinality(Used(j)')  BY DEF Earned
    <3>. QED  BY <2>1, <3>2, <3>3
  <2>. QED  BY <2>1, <2>2
<1>13. built' \in {Status(TRUE), Status(FALSE), None}
  <2>. built \in {Status(TRUE), Status(FALSE), None}  BY DEF TypeOK
  <2>1. CASE StatusTick
    BY <2>1, WorkerAssumption DEF StatusTick, Tells
  <2>2. CASE ConnectionBreaks \/ AcloseBegins
    BY <2>2 DEF ConnectionBreaks, AcloseBegins, Hangs
  <2>3. CASE StatusQueued
    BY <2>3 DEF StatusQueued
  <2>4. CASE UNCHANGED built
    BY <2>4
  <2>. QED
    BY <2>1, <2>2, <2>3, <2>4 DEF Next, Runs, Sending, Updating, Environment, RequestRuns,
         Registers, RetryDelayEnds, SendTakes, SendArrives, Receive, RequestAnswers, Accept,
         Reject, AssignmentTimeout, LaunchStarts, Launched, LaunchLost, JobEnds, PutReport,
         DrainTells, PoolClosed, AcloseEnds, ConnectFails, RegistrationFails, ServerOffers,
         ServerAssigns, ServerTerminates, DrainBegins, connVars, vars
<1>14. owing' \in Nat
  <2>1. CASE SendArrives
    <3>1. OwedIn(msgs) \in Nat  BY OwedIsCounted, PositionsFinite
    <3>2. Owed(hand) => owing >= 1
      BY <2>1, <3>1 DEF SendArrives, OnlyInHandIsLost
    <3>. QED  BY <2>1, <3>2 DEF SendArrives
  <2>2. CASE Updates \/ PutReport \/ \E r \in Requests : Accept(r) \/ Reject(r)
    <3>1. owing' \in {owing, owing + 1}
      BY <2>2 DEF Updates, PutReport, Accept, Reject, Queue
    <3>. QED  BY <3>1
  <2>3. CASE UNCHANGED owing
    BY <2>3
  <2>. QED
    BY <2>1, <2>2, <2>3 DEF Step, Quiet, Loses, SendTakes, Receives, Moves, Launched,
       LaunchLost, JobEnds, ServerAssigns, ServerTerminates, ServerOffers
<1>. QED
  BY <1>1, <1>2, <1>3, <1>4, <1>5, <1>6, <1>7, <1>8, <1>9, <1>10, <1>11, <1>12, <1>13, <1>14
  DEF TypeOK, Places

-------------------------------------------------------------------------------
\* What is still on this side of the connection.
InHand == One(hand # None /\ Owed(hand))
Kept   == CountIn(msgs, OwedMessages) + InHand
Ends   == breaks + One(closing # "no")

\* The balance may only change when a connection ends.
LEMMA Balance ==
  ASSUME TypeOK, Step
  PROVE  /\ Kept \in Nat /\ Kept' \in Nat /\ Ends \in Nat /\ Ends' \in Nat
         /\ \/ owing' - Kept' = owing - Kept /\ Ends' >= Ends
            \/ /\ owing' - Kept' \in {owing - Kept, owing - Kept + 1}
               /\ Ends' = Ends + 1
<1>. DEFINE Balanced ==
       /\ Kept' \in Nat /\ Ends' \in Nat
       /\ \/ owing' - Kept' = owing - Kept /\ Ends' >= Ends
          \/ /\ owing' - Kept' \in {owing - Kept, owing - Kept + 1}
             /\ Ends' = Ends + 1
<1>. /\ msgs \in Seq(Messages) /\ hand \in Messages \cup {None} /\ owing \in Nat
     /\ breaks \in Nat
  BY WorkerAssumption DEF TypeOK
<1>. InHand \in 0 .. 1 /\ InHand' \in 0 .. 1  BY DEF InHand, One
<1>. CountIn(msgs, OwedMessages) \in Nat  BY PositionsFinite
<1>. Kept \in Nat  BY DEF Kept
<1>. Ends \in Nat  BY DEF Ends, One
<1>. SUFFICES Balanced  OBVIOUS
<1>1. ASSUME UNCHANGED <<msgs, hand, owing>>, Ends' \in Nat, Ends' >= Ends
      PROVE  Balanced
  <2>1. Kept' = Kept  BY <1>1 DEF Kept, InHand
  <2>. QED  BY <1>1, <2>1
<1>2. CASE Quiet
  <2>1. UNCHANGED <<msgs, hand, owing>>  BY <1>2 DEF Quiet
  <2>2. breaks' \in Nat /\ breaks' >= breaks  BY <1>2 DEF Quiet
  <2>3. (closing # "no")' = (closing # "no")  BY <1>2 DEF Quiet
  <2>4. One(closing # "no")' = One(closing # "no")  BY <2>3 DEF One
  <2>5. One(closing # "no") \in Nat  BY DEF One
  <2>6. Ends' \in Nat /\ Ends' >= Ends  BY <2>2, <2>4, <2>5 DEF Ends
  <2>. QED  BY <1>1, <2>1, <2>6
<1>3. ASSUME NEW m \in Messages, Queue(m), UNCHANGED <<hand, breaks, closing>>
      PROVE  Balanced
  <2>1. msgs' = Append(msgs, m) /\ owing' = owing + One(Owed(m))  BY <1>3 DEF Queue, One
  <2>2. CountIn(msgs', OwedMessages) = CountIn(msgs, OwedMessages) + One(m \in OwedMessages)
    BY <2>1, CountAppend
  <2>3. One(m \in OwedMessages) = One(Owed(m)) /\ One(Owed(m)) \in Nat
    BY DEF OwedMessages, One
  <2>4. CountIn(msgs, OwedMessages)' = CountIn(msgs', OwedMessages)
    BY DEF OwedMessages, Messages, Requests, JobUpdate, Owed
  <2>5. InHand' = InHand /\ Ends' = Ends  BY <1>3 DEF InHand, Ends
  <2>6. Kept' = Kept + One(Owed(m))  BY <2>2, <2>3, <2>4, <2>5 DEF Kept
  <2>. QED  BY <1>3, <2>1, <2>3, <2>5, <2>6
<1>4. CASE Updates \/ PutReport \/ \E r \in Requests : Accept(r) \/ Reject(r)
  <2>1. \E m \in Messages : Queue(m) /\ UNCHANGED <<hand, breaks, closing>>
    BY <1>4, WhatIsQueued DEF Updates, PutReport, Accept, Reject, connVars, serverVars
  <2>. QED  BY <1>3, <2>1
<1>5. CASE Loses
  <2>1. UNCHANGED <<msgs, owing>> /\ hand' = None  BY <1>5 DEF Loses, Hangs
  <2>2. InHand' = 0  BY <2>1 DEF InHand, One
  <2>3. CountIn(msgs, OwedMessages)' = CountIn(msgs, OwedMessages)
    BY <2>1 DEF OwedMessages, Messages, Requests, JobUpdate, Owed
  <2>4. Kept' \in Nat /\ Kept = Kept' + InHand  BY <2>2, <2>3 DEF Kept
  <2>5. Ends' = Ends + 1  BY <1>5 DEF Loses, Ends, One
  <2>. QED  BY <2>1, <2>4, <2>5
<1>6. CASE SendTakes
  <2>1. UNCHANGED <<owing, breaks, closing>> /\ hand = None /\ hand' = Head(msgs)
        /\ msgs' = Tail(msgs) /\ msgs # <<>>
    BY <1>6 DEF SendTakes, connVars, serverVars
  <2>2. Head(msgs) \in Messages /\ Tail(msgs) \in Seq(Messages)  BY <2>1
  <2>3. CountIn(msgs, OwedMessages)
          = CountIn(Tail(msgs), OwedMessages) + One(Head(msgs) \in OwedMessages)
    BY <2>1, CountTail
  <2>4. CountIn(Tail(msgs), OwedMessages) \in Nat  BY <2>2, PositionsFinite
  <2>5. CountIn(msgs, OwedMessages)' = CountIn(Tail(msgs), OwedMessages)
    BY <2>1 DEF OwedMessages, Messages, Requests, JobUpdate, Owed
  <2>6. InHand = 0  BY <2>1 DEF InHand, One
  <2>7. Head(msgs) # None  BY <2>2 DEF Messages, JobUpdate, None
  <2>8. InHand' = One(Head(msgs) \in OwedMessages)
    BY <2>1, <2>2, <2>7 DEF InHand, OwedMessages, One, Owed
  <2>9. One(Head(msgs) \in OwedMessages) \in Nat  BY DEF One
  <2>10. Kept' = Kept  BY <2>3, <2>4, <2>5, <2>6, <2>8, <2>9 DEF Kept
  <2>11. Ends' = Ends  BY <2>1 DEF Ends
  <2>. QED  BY <2>1, <2>10, <2>11
<1>7. CASE SendArrives
  <2>1. UNCHANGED <<msgs, breaks, closing>> /\ hand # None /\ hand' = None
        /\ owing' = IF Owed(hand) THEN owing - 1 ELSE owing
    BY <1>7 DEF SendArrives, connVars
  <2>2. InHand' = 0 /\ owing' = owing - InHand  BY <2>1 DEF InHand, One
  <2>3. CountIn(msgs, OwedMessages)' = CountIn(msgs, OwedMessages)
    BY <2>1 DEF OwedMessages, Messages, Requests, JobUpdate, Owed
  <2>4. Kept' \in Nat /\ Kept = Kept' + InHand  BY <2>2, <2>3 DEF Kept
  <2>5. Ends' = Ends  BY <2>1 DEF Ends
  <2>. QED  BY <2>1, <2>2, <2>4, <2>5
<1>8. CASE \/ Receives
           \/ \E r \in Requests : \/ Moves(r) \/ Launched(r) \/ LaunchLost(r) \/ JobEnds(r)
                                  \/ ServerAssigns(r) \/ ServerTerminates(r)
           \/ \E j \in Jobs : ServerOffers(j)
  <2>1. UNCHANGED <<msgs, hand, owing, breaks, closing>>
    BY <1>8 DEF Receives, Moves, Launched, LaunchLost, JobEnds, ServerAssigns, ServerTerminates,
           ServerOffers,
                connVars, serverVars
  <2>2. Ends' = Ends  BY <2>1 DEF Ends
  <2>. QED  BY <1>1, <2>1, <2>2
<1>. HIDE DEF Balanced
<1>. QED  BY <1>2, <1>4, <1>5, <1>6, <1>7, <1>8 DEF Step

LEMMA InHandIs ==
  ASSUME TypeOK
  PROVE  OnlyInHandIsLost <=> owing - Kept \in 0 .. Ends
<1>1. msgs \in Seq(Messages)  BY DEF TypeOK
<1>2. OwedIn(msgs) = CountIn(msgs, OwedMessages)  BY <1>1, OwedIsCounted
<1>. QED  BY <1>2 DEF OnlyInHandIsLost, Kept, InHand, Ends, One

LEMMA KeptNext ==
  ASSUME TypeOK, TypeOK', OnlyInHandIsLost, Step
  PROVE  OnlyInHandIsLost'
<1>1. owing - Kept \in 0 .. Ends  BY InHandIs
<1>2. owing \in Nat /\ owing' \in Nat  BY DEF TypeOK
<1>3. owing' - Kept' \in 0 .. Ends'  BY <1>1, <1>2, Balance
<1>4. msgs' \in Seq(Messages)  BY DEF TypeOK, Messages, Requests, JobUpdate
<1>5. OwedIn(msgs') = CountIn(msgs', OwedMessages)  BY <1>4, OwedIsCounted
<1>. QED
  BY <1>3, <1>5 DEF OnlyInHandIsLost, Kept, InHand, Ends, One, OwedMessages, Messages, Requests,
     JobUpdate, Owed

-------------------------------------------------------------------------------
LEMMA InitInv ==
  ASSUME Init
  PROVE  IInv
<1>. MaxRequests \in Nat /\ MaxBreaks \in Nat /\ MaxRetry \in Nat /\ ChanSize \in Nat
     /\ (CHOOSE j \in Jobs : TRUE) \in Jobs
  BY WorkerAssumption
<1>1. TypeOK
  <2>1. msgs \in Seq(Messages) /\ Len(msgs) = 0 /\ down \in Seq(ServerMessages)
    BY DEF Init
  <2>2. /\ job \in [Requests -> Jobs] /\ req \in [Requests -> {"none"}]
        /\ pending \in [Jobs -> {0}] /\ assigned \in [Jobs -> {0}]
    BY DEF Init
  <2>3. connecting \in BOOLEAN /\ full \in BOOLEAN  BY DEF Init
  <2>4. pending \in [Jobs -> 0 .. MaxRequests] /\ assigned \in [Jobs -> 0 .. MaxRequests]
    BY <2>2
  <2>5. req \in [Requests -> Places]  BY <2>2 DEF Places
  <2>. QED  BY <2>1, <2>2, <2>3, <2>4, <2>5 DEF TypeOK, Init, Places
<1>2. \A S : CountIn(down, S) = 0 /\ CountIn(msgs, S) = 0  BY CountEmpty DEF Init
<1>3. Offered  BY <1>2 DEF Offered, Init
<1>4. Reported
  <2>1. Ran = {} /\ Over = {}  BY DEF Ran, Over, Init
  <2>. QED  BY <2>1, FS_EmptySet DEF Reported, Init
<1>5. \A r \in Requests : Flight(r) = 0  BY <1>2 DEF Flight, One, Init, None, Answer
<1>6. Flying  BY <1>5 DEF Flying, One
<1>7. Earned
  <2>1. \A j \in Jobs : Used(j) = {}  BY DEF Used, Unaccepted, Init
  <2>2. \A j \in Jobs : Cardinality(Used(j)) = 0  BY <2>1, FS_EmptySet
  <2>3. \A j \in Jobs : assigned[j] = 0  BY DEF Init
  <2>. QED  BY <2>2, <2>3 DEF Earned
<1>8. Awaited  BY DEF Awaited, Init
<1>9. Answered
  <2>1. \A j \in Jobs : Granted(j) = {}  BY DEF Granted, Init
  <2>2. \A j \in Jobs : Cardinality(Granted(j)) = 0  BY <2>1, FS_EmptySet
  <2>3. \A j \in Jobs : assigned[j] = 0  BY DEF Init
  <2>. QED  BY <1>2, <2>2, <2>3 DEF Answered
<1>10. OnlyInHandIsLost
  <2>1. InHand = 0 /\ Ends = 0  BY DEF InHand, Ends, One, Init
  <2>2. owing - Kept = 0  BY <1>2, <2>1 DEF Kept, Init
  <2>. QED  BY <1>1, <2>1, <2>2, InHandIs
<1>. QED  BY <1>1, <1>3, <1>4, <1>6, <1>7, <1>8, <1>9, <1>10 DEF IInv

LEMMA NextInv ==
  ASSUME IInv, [Next]_vars
  PROVE  IInv'
<1>1. Step  BY Steps DEF IInv
<1>2. Offered' /\ Reported' /\ Flying' /\ Earned' /\ Awaited' /\ Answered'
  BY <1>1, OfferedNext, ReportedNext, FlyingNext, EarnedNext, AwaitedNext, AnsweredNext DEF IInv
<1>3. TypeOK'  BY <1>1, <1>2, TypeNext DEF IInv
<1>4. OnlyInHandIsLost'  BY <1>1, <1>3, KeptNext DEF IInv
<1>. QED  BY <1>2, <1>3, <1>4 DEF IInv

LEMMA Invariance == Spec => []IInv
BY InitInv, NextInv, PTL DEF Spec

\* Every variable stays in its type; that includes the capacity of _msg_chan, and that no
\* request reports or is assigned more often than its one job allows.
THEOREM TypeCorrect == Spec => []TypeOK
<1>1. IInv => TypeOK  BY DEF IInv
<1>. QED  BY <1>1, Invariance, PTL

\* _answer_availability: however requests time out, are repeated or come late, a job is
\* launched at most as often as it was assigned.
THEOREM LaunchesAreAssigned == Spec => []LaunchNeedsAssignment
<1>1. IInv => LaunchNeedsAssignment
  <2>. SUFFICES ASSUME IInv, NEW j \in Jobs
                PROVE  Cardinality(Granted(j)) <= assigned[j]
    BY DEF LaunchNeedsAssignment, Granted
  <2>1. down \in Seq(ServerMessages) /\ assigned[j] \in Nat  BY DEF IInv, TypeOK
  <2>2. CountIn(down, Assignment(j)) \in Nat  BY <2>1, PositionsFinite
  <2>3. Granted(j) \in SUBSET Requests  BY DEF Granted
  <2>4. Cardinality(Granted(j)) \in Nat  BY <2>3, RequestSets
  <2>5. Cardinality(Granted(j)) + CountIn(down, Assignment(j)) <= assigned[j]
    BY DEF IInv, Answered
  <2>. QED  BY <2>1, <2>2, <2>4, <2>5
<1>. QED  BY <1>1, Invariance, PTL

\* _connection_task: a message that is owed to the server outlives every reconnection, but
\* for the one that _send_task had in hand.
THEOREM MessagesOutliveConnections == Spec => []OnlyInHandIsLost
<1>1. IInv => OnlyInHandIsLost  BY DEF IInv
<1>. QED  BY <1>1, Invariance, PTL
===============================================================================
