------------------------------ MODULE ChanProofs ------------------------------
(***************************************************************************)
(* Theorems about Chan, for every set of tasks, capacity and bound.  The   *)
(* lemmas describe _wakeup_next and deque.remove; BufferInv is inductive   *)
(* by itself, WaitInv is the inductive invariant of the waiting tasks.     *)
(***************************************************************************)
EXTENDS Chan, SequenceTheorems, FiniteSetTheorems, TLAPS

WakeEffect(E, ws, f, wsN, fN) ==
  /\ wsN \in Seq(E)
  /\ fN \in [Tasks -> FutStates]
  /\ \A t \in Tasks : fN[t] = "pending" => f[t] = "pending"
  /\ \A i \in 1 .. Len(ws) : ws[i] \in Tasks /\ fN[ws[i]] = "pending"
       => \E j \in 1 .. Len(wsN) : wsN[j] = ws[i]
  /\ \/ fN = f /\ \A i \in 1 .. Len(ws) : ~Live(ws[i], f)
     \/ \E i \in 1 .. Len(ws) :
          /\ ws[i] \in Tasks
          /\ f[ws[i]] = "pending"
          /\ fN = [f EXCEPT ![ws[i]] = "result"]

\* What one call of _wakeup_next does: at most one pending future is completed,
\* what stays in the deque was in it, and a future that is still pending is still
\* in the deque if it was.
LEMMA WakeupNextEffect ==
  ASSUME NEW E, NEW ws \in Seq(E), NEW wsN,
         NEW f \in [Tasks -> FutStates], NEW fN,
         WakeupNext(ws, f, wsN, fN)
  PROVE  WakeEffect(E, ws, f, wsN, fN)
<1> USE DEF WakeEffect
<1>1. CASE \E k \in 1 .. Len(ws) :
             /\ Live(ws[k], f)
             /\ \A j \in 1 .. k - 1 : ~Live(ws[j], f)
             /\ wsN = SubSeq(ws, k + 1, Len(ws))
             /\ fN = [f EXCEPT ![ws[k]] = "result"]
  <2>1. PICK k \in 1 .. Len(ws) :
               /\ Live(ws[k], f)
               /\ \A j \in 1 .. k - 1 : ~Live(ws[j], f)
               /\ wsN = SubSeq(ws, k + 1, Len(ws))
               /\ fN = [f EXCEPT ![ws[k]] = "result"]
    BY <1>1
  <2>2. \A i \in k + 1 .. Len(ws) : ws[i] \in E
    BY ElementOfSeq, LenProperties
  <2>3. /\ wsN \in Seq(E)
        /\ Len(wsN) = IF k + 1 <= Len(ws) THEN Len(ws) - (k + 1) + 1 ELSE 0
        /\ \A i \in 1 .. Len(ws) - (k + 1) + 1 : wsN[i] = ws[k + 1 + i - 1]
    BY <2>1, <2>2, SubSeqProperties, LenProperties
  <2>4. fN \in [Tasks -> FutStates]
    BY <2>1 DEF FutStates
  <2>5. ASSUME NEW i \in 1 .. Len(ws), ws[i] \in Tasks, fN[ws[i]] = "pending"
        PROVE  \E j \in 1 .. Len(wsN) : wsN[j] = ws[i]
    <3>1. ws[i] # ws[k] /\ f[ws[i]] = "pending"
      BY <2>1, <2>5
    <3>2. i > k
      BY <2>1, <2>5, <3>1, LenProperties DEF Live
    <3>3. i - k \in 1 .. Len(wsN) /\ wsN[i - k] = ws[i]
      BY <2>3, <3>2, LenProperties
    <3> QED BY <3>3
  <2> QED BY <2>1, <2>3, <2>4, <2>5 DEF Live
<1>2. CASE /\ \A j \in 1 .. Len(ws) : ~Live(ws[j], f)
           /\ wsN = <<>>
           /\ fN = f
  BY <1>2 DEF Live
<1> QED BY <1>1, <1>2 DEF WakeupNext

\* deque.remove keeps every other future, and no more than what was there.
LEMMA WithoutEffect ==
  ASSUME NEW E, NEW ws \in Seq(E), NEW t
  PROVE  /\ Without(ws, t) \in Seq(E)
         /\ \A i \in 1 .. Len(ws) : ws[i] # t =>
              \E j \in 1 .. Len(Without(ws, t)) : Without(ws, t)[j] = ws[i]
<1>1. CASE \A i \in 1 .. Len(ws) : ws[i] # t
  BY <1>1 DEF Without
<1>2. CASE \E i \in 1 .. Len(ws) : ws[i] = t
  <2> DEFINE k == CHOOSE i \in 1 .. Len(ws) : ws[i] = t
             a == SubSeq(ws, 1, k - 1)
             b == SubSeq(ws, k + 1, Len(ws))
  <2>1. k \in 1 .. Len(ws) /\ ws[k] = t
    BY <1>2
  <2>2. Without(ws, t) = a \o b
    BY <1>2 DEF Without
  <2> HIDE DEF k
  <2>3. \A i \in 1 .. Len(ws) : ws[i] \in E
    BY ElementOfSeq
  <2>4. /\ a \in Seq(E) /\ Len(a) = k - 1
        /\ \A i \in 1 .. k - 1 : a[i] = ws[i]
    BY <2>1, <2>3, SubSeqProperties, LenProperties
  <2>5. /\ b \in Seq(E) /\ Len(b) = Len(ws) - k
        /\ \A i \in 1 .. Len(ws) - k : b[i] = ws[k + i]
    BY <2>1, <2>3, SubSeqProperties, LenProperties
  <2> HIDE DEF a, b
  <2> DEFINE c == a \o b
  <2>6. /\ c \in Seq(E)
        /\ Len(c) = Len(ws) - 1
        /\ \A i \in 1 .. k - 1 : c[i] = ws[i]
        /\ \A i \in k .. Len(ws) - 1 : c[i] = ws[i + 1]
    <3>1. /\ c \in Seq(E)
          /\ Len(c) = Len(a) + Len(b)
          /\ \A i \in 1 .. Len(a) + Len(b) :
               c[i] = IF i <= Len(a) THEN a[i] ELSE b[i - Len(a)]
      BY <2>4, <2>5, ConcatProperties
    <3> HIDE DEF c
    <3>2. Len(ws) \in Nat /\ k \in Nat
      BY <2>1, LenProperties
    <3>3. Len(c) = Len(ws) - 1
      BY <2>4, <2>5, <3>1, <3>2
    <3>4. ASSUME NEW i \in 1 .. k - 1
          PROVE  c[i] = ws[i]
      <4>1. i \in 1 .. Len(a) + Len(b) /\ i <= Len(a)
        BY <2>1, <2>4, <2>5, <3>2
      <4> QED BY <2>4, <3>1, <4>1
    <3>5. ASSUME NEW i \in k .. Len(ws) - 1
          PROVE  c[i] = ws[i + 1]
      <4>1. i \in 1 .. Len(a) + Len(b) /\ ~(i <= Len(a))
        BY <2>1, <2>4, <2>5, <3>2
      <4>2. c[i] = b[i - Len(a)]
        BY <3>1, <4>1
      <4>3. i - Len(a) \in 1 .. Len(ws) - k
        BY <2>1, <2>4, <3>2
      <4>4. b[i - Len(a)] = ws[k + (i - Len(a))]
        BY <2>5, <4>3
      <4>5. k + (i - Len(a)) = i + 1
        BY <2>1, <2>4, <3>2
      <4> QED BY <4>2, <4>4, <4>5
    <3> QED BY <3>1, <3>3, <3>4, <3>5
  <2> HIDE DEF c
  <2>7. ASSUME NEW i \in 1 .. Len(ws), ws[i] # t
        PROVE  \E j \in 1 .. Len(c) : c[j] = ws[i]
    <3>1. CASE i < k
      BY <2>1, <2>6, <3>1, LenProperties
    <3>2. CASE i > k
      <4>1. i - 1 \in k .. Len(ws) - 1 /\ i - 1 \in 1 .. Len(c)
        BY <2>1, <2>6, <3>2, LenProperties
      <4>2. c[i - 1] = ws[i]
        BY <2>6, <4>1
      <4> QED BY <4>1, <4>2
    <3> QED BY <2>1, <2>7, <3>1, <3>2, LenProperties
  <2> QED BY <2>2, <2>6, <2>7 DEF c
<1> QED BY <1>1, <1>2

-------------------------------------------------------------------------------
LEMMA TasksFacts ==
  /\ Senders \subseteq Tasks /\ Receivers \subseteq Tasks
  /\ \A f \in [Tasks -> FutStates], t \in Tasks : Awake(f, t) \in [Tasks -> FutStates]
BY DEF Tasks, Awake, FutStates

\* The loops of send and recv leave well-typed variables.
LEMMA SendLoopTyped ==
  ASSUME TypeOK, NEW s \in Senders, NEW v \in Values,
         NEW f \in [Tasks -> FutStates],
         SendLoop(s, v, f) \/ SendNowait(s, v, f),
         mustCancel' \subseteq Tasks, msg' \in [Senders -> Values]
  PROVE  TypeOK'
<1> USE TasksFacts DEF TypeOK, FutStates, Outcomes, Returns
<1>1. CASE SendNowait(s, v, f) /\ ~Full /\ ~closed
  <2>1. gets' \in Seq(Receivers \cup {Dead}) /\ fut' \in [Tasks -> FutStates]
    <3>1. WakeupNext(gets, f, gets', fut')
      BY <1>1 DEF SendNowait
    <3> QED BY <3>1, WakeupNextEffect DEF WakeEffect
  <2>2. queue' \in Seq(Values) /\ accepted' \in Seq(Values)
    <3>1. queue' = Append(queue, v) /\ accepted' = Append(accepted, v)
      BY <1>1 DEF SendNowait
    <3> QED BY <3>1, AppendProperties
  <2> QED BY <1>1, <2>1, <2>2 DEF SendNowait
<1>2. CASE SendNowait(s, v, f) /\ (Full \/ closed)
  BY <1>2 DEF SendNowait
<1>3. CASE SendLoop(s, v, f) /\ Full /\ ~closed
  <2>1. puts' \in Seq(Senders)
    <3>1. puts' = Append(puts, s)
      BY <1>3 DEF SendLoop, SendNowait
    <3> QED BY <3>1, AppendProperties
  <2> QED BY <1>3, <2>1 DEF SendLoop
<1> QED BY <1>1, <1>2, <1>3 DEF SendLoop

LEMMA RecvLoopTyped ==
  ASSUME TypeOK, NEW r \in Receivers, NEW f \in [Tasks -> FutStates],
         RecvLoop(r, f) \/ RecvNowait(r, f),
         mustCancel' \subseteq Tasks, msg' \in [Senders -> Values]
  PROVE  TypeOK'
<1> USE TasksFacts DEF TypeOK, FutStates, Outcomes, Returns
<1>1. CASE RecvNowait(r, f) /\ ~Empty
  <2>1. puts' \in Seq(Senders) /\ fut' \in [Tasks -> FutStates]
    <3>1. WakeupNext(puts, f, puts', fut')
      BY <1>1 DEF RecvNowait
    <3> QED BY <3>1, WakeupNextEffect DEF WakeEffect
  <2>2. queue' \in Seq(Values) /\ received' \in Seq(Values)
    <3>1. queue # <<>> /\ queue' = Tail(queue) /\ received' = Append(received, Head(queue))
      BY <1>1 DEF RecvNowait, Empty
    <3>2. Head(queue) \in Values /\ Tail(queue) \in Seq(Values)
      BY <3>1, HeadTailProperties
    <3> QED BY <3>1, <3>2, AppendProperties
  <2> QED BY <1>1, <2>1, <2>2 DEF RecvNowait
<1>2. CASE RecvNowait(r, f) /\ Empty
  BY <1>2 DEF RecvNowait
<1>3. CASE RecvLoop(r, f) /\ Empty /\ ~closed
  <2>1. gets' \in Seq(Receivers \cup {Dead})
    <3>1. gets' = Append(gets, r)
      BY <1>3 DEF RecvLoop
    <3>2. r \in Receivers \cup {Dead}
      OBVIOUS
    <3> QED BY <3>1, <3>2, AppendProperties
  <2> QED BY <1>3, <2>1 DEF RecvLoop
<1> QED BY <1>1, <1>2, <1>3 DEF RecvLoop

LEMMA TypeInit == Init => TypeOK
<1> SUFFICES ASSUME Init PROVE TypeOK
  OBVIOUS
<1>1. (CHOOSE v \in Values : TRUE) \in Values
  BY ChanAssumption
<1>2. msg \in [Senders -> Values]
  BY <1>1 DEF Init
<1>3. /\ queue \in Seq(Values) /\ puts \in Seq(Senders)
      /\ gets \in Seq(Receivers \cup {Dead})
      /\ accepted \in Seq(Values) /\ received \in Seq(Values)
  BY EmptySeq DEF Init
<1> QED BY <1>2, <1>3 DEF Init, TypeOK, FutStates, Outcomes

LEMMA TypeNext == TypeOK /\ [Next]_vars => TypeOK'
<1> SUFFICES ASSUME TypeOK, [Next]_vars PROVE TypeOK'
  OBVIOUS
<1> USE TasksFacts
<1>1. ASSUME NEW s \in Senders, NEW v \in Values, Send(s, v) \/ TrySend(s, v)
      PROVE  TypeOK'
  <2>1. /\ SendLoop(s, v, fut) \/ SendNowait(s, v, fut)
        /\ mustCancel' \subseteq Tasks /\ msg' \in [Senders -> Values]
    BY <1>1 DEF Send, TrySend, TypeOK
  <2> QED BY <2>1, SendLoopTyped DEF TypeOK
<1>2. ASSUME NEW s \in Senders, SendResumeCancelled(s)
      PROVE  TypeOK'
  <2>1. Awake(fut, s) \in [Tasks -> FutStates] /\ Without(puts, s) \in Seq(Senders)
    BY WithoutEffect DEF TypeOK
  <2>2. fut' \in [Tasks -> FutStates] /\ puts' \in Seq(Senders)
    BY <1>2, <2>1, WakeupNextEffect DEF WakeEffect, SendResumeCancelled
  <2> QED BY <1>2, <2>2 DEF SendResumeCancelled, TypeOK, Returns, Outcomes
<1>3. ASSUME NEW s \in Senders, SendResumeClosed(s)
      PROVE  TypeOK'
  BY <1>3 DEF SendResumeClosed, TypeOK, Returns, Outcomes
<1>4. ASSUME NEW s \in Senders, SendResumeWoken(s)
      PROVE  TypeOK'
  <2>1. /\ SendLoop(s, msg[s], Awake(fut, s))
        /\ msg[s] \in Values /\ Awake(fut, s) \in [Tasks -> FutStates]
        /\ mustCancel' \subseteq Tasks /\ msg' \in [Senders -> Values]
    BY <1>4 DEF SendResumeWoken, TypeOK
  <2> QED BY <2>1, SendLoopTyped
<1>5. ASSUME NEW r \in Receivers, Recv(r) \/ TryRecv(r)
      PROVE  TypeOK'
  <2>1. /\ RecvLoop(r, fut) \/ RecvNowait(r, fut)
        /\ mustCancel' \subseteq Tasks /\ msg' \in [Senders -> Values]
    BY <1>5 DEF Recv, TryRecv, TypeOK
  <2> QED BY <2>1, RecvLoopTyped DEF TypeOK
<1>6. ASSUME NEW r \in Receivers, RecvResumeCancelled(r) \/ RecvResumeClosed(r)
      PROVE  TypeOK'
  <2>1. /\ fut' = Awake(fut, r)
        /\ outcome' = [task |-> r, kind |-> "Cancelled"]
             \/ outcome' = [task |-> r, kind |-> "ChanClosed"]
        /\ mustCancel' \subseteq Tasks
        /\ UNCHANGED <<queue, puts, gets, closed, msg, accepted, received>>
    BY <1>6 DEF RecvResumeCancelled, RecvResumeClosed, TypeOK, Returns
  <2>2. Awake(fut, r) \in [Tasks -> FutStates]
    BY DEF TypeOK
  <2>3. outcome' \in [task : Tasks \cup {Closer}, kind : Outcomes]
    BY <2>1 DEF Outcomes
  <2> QED BY <2>1, <2>2, <2>3 DEF TypeOK
<1>7. ASSUME NEW r \in Receivers, RecvResumeWoken(r)
      PROVE  TypeOK'
  <2>1. /\ RecvLoop(r, Awake(fut, r)) /\ Awake(fut, r) \in [Tasks -> FutStates]
        /\ mustCancel' \subseteq Tasks /\ msg' \in [Senders -> Values]
    BY <1>7 DEF RecvResumeWoken, TypeOK
  <2> QED BY <2>1, RecvLoopTyped
<1>8. ASSUME NEW t \in Tasks, Cancel(t)
      PROVE  TypeOK'
  <2>1. CASE fut[t] = "pending"
    <3>1. fut' \in [Tasks -> FutStates] /\ mustCancel' = mustCancel
      BY <1>8, <2>1 DEF Cancel, TypeOK, FutStates
    <3>2. gets' = [i \in 1 .. Len(gets) |-> IF gets[i] = t THEN Dead ELSE gets[i]]
      BY <1>8, <2>1 DEF Cancel
    <3>3. \A i \in 1 .. Len(gets) : gets[i] \in Receivers \cup {Dead}
      BY ElementOfSeq DEF TypeOK
    <3>4. gets' \in Seq(Receivers \cup {Dead})
      BY <3>2, <3>3, IsASeq, LenProperties DEF TypeOK
    <3> QED BY <1>8, <3>1, <3>4 DEF Cancel, TypeOK
  <2>2. CASE fut[t] # "pending"
    BY <1>8, <2>2 DEF Cancel, TypeOK
  <2> QED BY <2>1, <2>2
<1>9. CASE Close
  <2>1. CASE \E i \in 1 .. Len(puts) : fut[puts[i]] \notin {"pending", "cancelled"}
    BY <1>9, <2>1 DEF Close, TypeOK, Returns, Outcomes
  <2>2. CASE ~\E i \in 1 .. Len(puts) : fut[puts[i]] \notin {"pending", "cancelled"}
    <3>1. fut' \in [Tasks -> FutStates]
      BY <1>9, <2>2 DEF Close, TypeOK, FutStates
    <3> QED BY <1>9, <2>2, <3>1, EmptySeq DEF Close, TypeOK, Returns, Outcomes
  <2> QED BY <2>1, <2>2
<1>10. CASE UNCHANGED vars
  BY <1>10 DEF vars, TypeOK
<1> QED BY <1>1, <1>2, <1>3, <1>4, <1>5, <1>6, <1>7, <1>8, <1>9, <1>10
        DEF Next, SendResume, RecvResume

\* Every variable of the channel keeps its type: in particular the deques only
\* hold futures of tasks that wait, or the cancelled ones recv leaves behind.
THEOREM TypeCorrect == Spec => []TypeOK
BY TypeInit, TypeNext, PTL DEF Spec

-------------------------------------------------------------------------------
\* The three things a step can do to the buffer.
Keeps == UNCHANGED <<queue, accepted, received>> /\ closed' \in {closed, TRUE}
Takes(v) ==
  /\ ~Full /\ ~closed /\ closed' = closed
  /\ queue' = Append(queue, v) /\ accepted' = Append(accepted, v)
  /\ received' = received
Gives ==
  /\ queue # <<>> /\ closed' = closed
  /\ queue' = Tail(queue) /\ received' = Append(received, Head(queue))
  /\ accepted' = accepted

LEMMA BufferStep ==
  ASSUME TypeOK, [Next]_vars
  PROVE  Keeps \/ Gives \/ \E v \in Values : Takes(v)
<1> USE DEF Keeps, Gives, Takes
<1>1. ASSUME NEW s \in Senders, NEW v \in Values, NEW f,
             SendLoop(s, v, f) \/ SendNowait(s, v, f)
      PROVE  Keeps \/ Takes(v)
  BY <1>1 DEF SendLoop, SendNowait, TypeOK
<1>2. ASSUME NEW r \in Receivers, NEW f, RecvLoop(r, f) \/ RecvNowait(r, f)
      PROVE  Keeps \/ Gives
  BY <1>2 DEF RecvLoop, RecvNowait, Empty, TypeOK
<1>3. ASSUME NEW s \in Senders, NEW v \in Values, Send(s, v) \/ TrySend(s, v)
      PROVE  Keeps \/ Takes(v)
  BY <1>1, <1>3 DEF Send, TrySend
<1>4. ASSUME NEW s \in Senders, SendResume(s)
      PROVE  Keeps \/ Takes(msg[s])
  BY <1>1, <1>4 DEF SendResume, SendResumeCancelled, SendResumeClosed,
                    SendResumeWoken, TypeOK
<1>5. ASSUME NEW r \in Receivers, Recv(r) \/ TryRecv(r) \/ RecvResume(r)
      PROVE  Keeps \/ Gives
  BY <1>2, <1>5 DEF Recv, TryRecv, RecvResume, RecvResumeCancelled,
                    RecvResumeClosed, RecvResumeWoken
<1>6. ASSUME NEW t \in Tasks, Cancel(t)
      PROVE  Keeps
  BY <1>6 DEF Cancel
<1>7. CASE Close
  BY <1>7 DEF Close
<1>8. CASE UNCHANGED vars
  BY <1>8 DEF vars
<1>9. \A s \in Senders : msg[s] \in Values
  BY DEF TypeOK
<1> QED BY <1>3, <1>4, <1>5, <1>6, <1>7, <1>8, <1>9 DEF Next

QueueBounded == MaxSize > 0 => Len(queue) <= MaxSize
BufferInv == TypeOK /\ NothingLost /\ QueueBounded

LEMMA BufferInit == Init => BufferInv
<1> SUFFICES ASSUME Init PROVE BufferInv
  OBVIOUS
<1>1. <<>> \o <<>> = queue /\ queue = <<>>
  BY ConcatEmptySeq, EmptySeq DEF Init
<1> QED BY <1>1, TypeInit, EmptySeq, ChanAssumption
        DEF Init, BufferInv, NothingLost, QueueBounded

LEMMA BufferNext == BufferInv /\ [Next]_vars => BufferInv'
<1> SUFFICES ASSUME BufferInv, [Next]_vars PROVE BufferInv'
  OBVIOUS
<1>1. TypeOK /\ TypeOK'
  BY TypeNext DEF BufferInv
<1>2. CASE Keeps
  BY <1>1, <1>2 DEF Keeps, BufferInv, NothingLost, QueueBounded
<1>3. ASSUME NEW v \in Values, Takes(v)
      PROVE  BufferInv'
  <2>1. queue \in Seq(Values) /\ received \in Seq(Values) /\ <<v>> \in Seq(Values)
    BY <1>1 DEF TypeOK
  <2>2. Append(received \o queue, v) = (received \o queue) \o <<v>>
    BY <2>1, ConcatProperties, AppendIsConcat
  <2>3. received \o Append(queue, v) = received \o (queue \o <<v>>)
    BY <2>1, AppendIsConcat
  <2>4. (received \o queue) \o <<v>> = received \o (queue \o <<v>>)
    BY <2>1, ConcatAssociative
  <2>5. NothingLost'
    BY <1>3, <2>2, <2>3, <2>4 DEF Takes, BufferInv, NothingLost
  <2>6. Len(queue') = Len(queue) + 1 /\ Len(queue) \in Nat
    BY <1>3, <2>1, AppendProperties, LenProperties DEF Takes
  <2>7. QueueBounded'
    BY <1>3, <2>6, ChanAssumption DEF Takes, Full, QueueBounded
  <2> QED BY <1>1, <2>5, <2>7 DEF BufferInv
<1>4. CASE Gives
  <2> DEFINE h == Head(queue)
             q == Tail(queue)
  <2>1. /\ queue \in Seq(Values) /\ received \in Seq(Values)
        /\ h \in Values /\ q \in Seq(Values)
        /\ Len(q) = Len(queue) - 1 /\ Len(queue) \in Nat
    BY <1>1, <1>4, HeadTailProperties, LenProperties DEF TypeOK, Gives
  <2>2. <<h>> \in Seq(Values) /\ <<h>> \o q = queue
    BY <1>4, <2>1 DEF Gives
  <2>3. Append(received, h) \o q = (received \o <<h>>) \o q
    BY <2>1, AppendIsConcat
  <2>4. (received \o <<h>>) \o q = received \o (<<h>> \o q)
    BY <2>1, <2>2, ConcatAssociative
  <2>5. NothingLost'
    BY <1>4, <2>2, <2>3, <2>4 DEF Gives, BufferInv, NothingLost
  <2>6. QueueBounded'
    BY <1>4, <2>1, ChanAssumption DEF Gives, BufferInv, QueueBounded
  <2> QED BY <1>1, <2>5, <2>6 DEF BufferInv
<1> QED BY <1>1, <1>2, <1>3, <1>4, BufferStep

\* No value is lost, duplicated or reordered, whichever tasks are cancelled and
\* whenever the channel is closed.
THEOREM NothingIsLost == Spec => []NothingLost
<1>1. BufferInv => NothingLost
  BY DEF BufferInv
<1> QED BY <1>1, BufferInit, BufferNext, PTL DEF Spec

\* The channel with its futures and waiters implements the plain buffer: what it
\* accepts fits, is accepted while it is open, and is handed out in order.
THEOREM ImplementsFifoChannel == Spec => ImplementsBuffer
<1>1. Init => Buffer!Init
  BY DEF Init, Buffer!Init
<1>2. BufferInv /\ [Next]_vars => [Buffer!Next]_(Buffer!vars)
  <2> SUFFICES ASSUME BufferInv, [Next]_vars PROVE [Buffer!Next]_(Buffer!vars)
    OBVIOUS
  <2>1. /\ queue \in Seq(Values) /\ received \in Seq(Values)
        /\ accepted = received \o queue
    BY DEF BufferInv, NothingLost, TypeOK
  <2>2. /\ Len(queue) \in Nat /\ Len(received) \in Nat
        /\ Len(accepted) = Len(received) + Len(queue)
        /\ queue # <<>> => Len(queue) > 0 /\ accepted[Len(received) + 1] = queue[1]
    <3>1. /\ Len(accepted) = Len(received) + Len(queue)
          /\ \A i \in 1 .. Len(received) + Len(queue) : accepted[i] =
                IF i <= Len(received) THEN received[i] ELSE queue[i - Len(received)]
      BY <2>1, ConcatProperties
    <3>2. Len(queue) \in Nat /\ Len(received) \in Nat /\ (queue # <<>> => Len(queue) > 0)
      BY <2>1, EmptySeq, LenProperties
    <3>3. (Len(received) + 1) - Len(received) = 1
      BY <3>2
    <3>4. queue # <<>> => accepted[Len(received) + 1] = queue[1]
      BY <3>1, <3>2, <3>3
    <3> QED BY <3>1, <3>2, <3>4
  <2>3. CASE Keeps
    BY <2>3 DEF Keeps, Buffer!Next, Buffer!Close, Buffer!vars
  <2>4. ASSUME NEW v \in Values, Takes(v)
        PROVE  Buffer!Accept
    <3>1. MaxSize = 0 \/ Len(accepted) < Len(received) + MaxSize
      BY <2>2, <2>4, ChanAssumption DEF Takes, Full
    <3> QED BY <2>4, <3>1 DEF Takes, Buffer!Accept
  <2>5. CASE Gives
    <3>1. Head(queue) = queue[1]
      BY <2>1, <2>5 DEF Gives
    <3> QED BY <2>2, <2>5, <3>1 DEF Gives, Buffer!Next, Buffer!HandOut
  <2> QED BY <2>3, <2>4, <2>5, BufferStep DEF BufferInv, Buffer!Next
<1> QED BY <1>1, <1>2, BufferInit, BufferNext, PTL
        DEF Spec, ImplementsBuffer, Buffer!Spec

-------------------------------------------------------------------------------
\* The deque ws holds futures that wait or were cancelled, each task's once.
Queued(ws, f) ==
  /\ \A i \in 1 .. Len(ws) : f[ws[i]] \in {"pending", "cancelled"}
  /\ \A i, j \in 1 .. Len(ws) : ws[i] = ws[j] => i = j

\* Every task of S that waits has its future in ws.
Covers(ws, f, S) ==
  \A t \in S : f[t] = "pending" => \E i \in 1 .. Len(ws) : ws[i] = t

Waits(f, S)   == \E t \in S : f[t] = "pending"
WokenIn(f, S) == {t \in S : f[t] = "result"}

LEMMA WakeupNextCovers ==
  ASSUME NEW S, S \subseteq Tasks, NEW E, NEW ws \in Seq(E),
         NEW wsN, NEW f \in [Tasks -> FutStates], NEW fN,
         WakeupNext(ws, f, wsN, fN), Covers(ws, f, S)
  PROVE  Covers(wsN, fN, S)
<1> SUFFICES ASSUME NEW t \in S, fN[t] = "pending"
             PROVE  \E j \in 1 .. Len(wsN) : wsN[j] = t
  BY DEF Covers
<1>0. WakeEffect(E, ws, f, wsN, fN)
  BY WakeupNextEffect
<1>1. f[t] = "pending"
  BY <1>0 DEF WakeEffect
<1>2. PICK i \in 1 .. Len(ws) : ws[i] = t
  BY <1>1 DEF Covers
<1> QED BY <1>0, <1>2 DEF WakeEffect

\* When somebody of S still waits afterwards, _wakeup_next has woken one of S.
LEMMA WakeupNextCount ==
  ASSUME NEW S, S \subseteq Tasks, IsFiniteSet(S), NEW ws \in Seq(S \cup {Dead}),
         NEW wsN, NEW f \in [Tasks -> FutStates], NEW fN,
         WakeupNext(ws, f, wsN, fN), Covers(ws, f, S), Waits(fN, S)
  PROVE  Cardinality(WokenIn(fN, S)) = Cardinality(WokenIn(f, S)) + 1
<1>0. WakeEffect(S \cup {Dead}, ws, f, wsN, fN)
  BY WakeupNextEffect
<1>1. PICK t \in S : fN[t] = "pending"
  BY DEF Waits
<1>2. f[t] = "pending"
  BY <1>0, <1>1 DEF WakeEffect
<1>3. PICK i \in 1 .. Len(ws) : /\ ws[i] \in Tasks
                                /\ f[ws[i]] = "pending"
                                /\ fN = [f EXCEPT ![ws[i]] = "result"]
  <2>1. PICK k \in 1 .. Len(ws) : ws[k] = t
    BY <1>2 DEF Covers
  <2>2. Live(ws[k], f)
    BY <1>2, <2>1 DEF Live
  <2> QED BY <1>0, <2>2 DEF WakeEffect
<1>4. ws[i] \in S
  BY <1>3, ElementOfSeq, ChanAssumption
<1>5. WokenIn(fN, S) = WokenIn(f, S) \cup {ws[i]} /\ ws[i] \notin WokenIn(f, S)
  BY <1>3, <1>4 DEF WokenIn
<1>6. IsFiniteSet(WokenIn(f, S))
  BY FS_Subset DEF WokenIn
<1> QED BY <1>5, <1>6, FS_AddElement

LEMMA WakeupNextQueued ==
  ASSUME NEW ws \in Seq(Senders), NEW wsN, NEW f \in [Tasks -> FutStates], NEW fN,
         WakeupNext(ws, f, wsN, fN), Queued(ws, f)
  PROVE  Queued(wsN, fN)
<1>1. CASE wsN = <<>>
  BY <1>1 DEF Queued
<1>2. ASSUME NEW k \in 1 .. Len(ws),
             wsN = SubSeq(ws, k + 1, Len(ws)), fN = [f EXCEPT ![ws[k]] = "result"]
      PROVE  Queued(wsN, fN)
  <2>1. \A i \in 1 .. Len(ws) : ws[i] \in Senders
    BY ElementOfSeq
  <2>2. Len(ws) \in Nat
    BY LenProperties
  <2>3. /\ Len(wsN) = IF k + 1 <= Len(ws) THEN Len(ws) - (k + 1) + 1 ELSE 0
        /\ \A i \in 1 .. Len(ws) - (k + 1) + 1 : wsN[i] = ws[k + 1 + i - 1]
    BY <1>2, <2>1, <2>2, SubSeqProperties
  <2>4. \A i \in 1 .. Len(wsN) : k + i \in 1 .. Len(ws) /\ wsN[i] = ws[k + i]
    BY <2>2, <2>3
  <2>5. \A i \in 1 .. Len(wsN) : fN[wsN[i]] \in {"pending", "cancelled"}
    <3> SUFFICES ASSUME NEW i \in 1 .. Len(wsN)
                 PROVE  fN[wsN[i]] \in {"pending", "cancelled"}
      OBVIOUS
    <3>1. ws[k + i] # ws[k]
      BY <2>2, <2>4 DEF Queued
    <3>2. ws[k + i] \in Tasks /\ f[ws[k + i]] \in {"pending", "cancelled"}
      BY <2>1, <2>4, TasksFacts DEF Queued
    <3> QED BY <1>2, <2>4, <3>1, <3>2
  <2>6. \A i, j \in 1 .. Len(wsN) : wsN[i] = wsN[j] => i = j
    <3> SUFFICES ASSUME NEW i \in 1 .. Len(wsN), NEW j \in 1 .. Len(wsN), wsN[i] = wsN[j]
                 PROVE  i = j
      OBVIOUS
    <3>1. k + i = k + j
      BY <2>4 DEF Queued
    <3> QED BY <2>2, <3>1
  <2> QED BY <2>5, <2>6 DEF Queued
<1> QED BY <1>1, <1>2 DEF WakeupNext

\* Removing the future of t and forgetting t keeps the rest queued.
LEMMA WithoutQueued ==
  ASSUME NEW ws \in Seq(Senders), NEW t \in Senders,
         NEW f \in [Tasks -> FutStates], Queued(ws, f)
  PROVE  Queued(Without(ws, t), Awake(f, t))
<1> USE DEF Queued, Awake
<1>1. CASE \A i \in 1 .. Len(ws) : ws[i] # t
  BY <1>1 DEF Without
<1>2. CASE \E i \in 1 .. Len(ws) : ws[i] = t
  <2> DEFINE k == CHOOSE i \in 1 .. Len(ws) : ws[i] = t
             a == SubSeq(ws, 1, k - 1)
             b == SubSeq(ws, k + 1, Len(ws))
             c == a \o b
             at(i) == IF i < k THEN i ELSE i + 1
  <2>1. k \in 1 .. Len(ws) /\ ws[k] = t /\ Len(ws) \in Nat /\ k \in Nat
    BY <1>2, LenProperties
  <2>2. Without(ws, t) = c
    BY <1>2 DEF Without
  <2> HIDE DEF k
  <2>3. \A i \in 1 .. Len(ws) : ws[i] \in Senders
    BY ElementOfSeq
  <2>4. /\ a \in Seq(Senders) /\ Len(a) = k - 1
        /\ \A i \in 1 .. k - 1 : a[i] = ws[i]
    BY <2>1, <2>3, SubSeqProperties
  <2>5. /\ b \in Seq(Senders) /\ Len(b) = Len(ws) - k
        /\ \A i \in 1 .. Len(ws) - k : b[i] = ws[k + i]
    BY <2>1, <2>3, SubSeqProperties
  <2> HIDE DEF a, b
  <2>6. /\ Len(c) = Len(a) + Len(b)
        /\ \A i \in 1 .. Len(a) + Len(b) :
             c[i] = IF i <= Len(a) THEN a[i] ELSE b[i - Len(a)]
    <3> HIDE DEF Queued, Awake
    <3> QED BY <2>4, <2>5, ConcatProperties
  <2> HIDE DEF c
  <2>7. ASSUME NEW i \in 1 .. Len(c)
        PROVE  at(i) \in 1 .. Len(ws) /\ at(i) # k /\ c[i] = ws[at(i)]
    <3>1. i \in 1 .. Len(a) + Len(b) /\ Len(c) = Len(ws) - 1
      BY <2>1, <2>4, <2>5, <2>6
    <3>2. CASE i < k
      <4>1. i \in 1 .. k - 1 /\ i <= Len(a)
        BY <2>1, <2>4, <3>2
      <4>2. c[i] = a[i]
        BY <2>6, <3>1, <4>1
      <4> QED BY <2>1, <2>4, <3>1, <3>2, <4>1, <4>2
    <3>3. CASE ~(i < k)
      <4>1. ~(i <= Len(a)) /\ i - Len(a) \in 1 .. Len(ws) - k /\ k + (i - Len(a)) = i + 1
        BY <2>1, <2>4, <3>1, <3>3
      <4>2. c[i] = b[i - Len(a)]
        BY <2>6, <3>1, <4>1
      <4>3. b[i - Len(a)] = ws[i + 1]
        BY <2>5, <4>1
      <4> QED BY <2>1, <3>1, <3>3, <4>2, <4>3
    <3> QED BY <3>2, <3>3
  <2>8. \A i, j \in 1 .. Len(c) : at(i) = at(j) => i = j
    BY <2>1, <2>4, <2>5, <2>6
  <2> HIDE DEF at
  <2>9. \A i \in 1 .. Len(c) : Awake(f, t)[c[i]] \in {"pending", "cancelled"}
    <3> SUFFICES ASSUME NEW i \in 1 .. Len(c)
                 PROVE  Awake(f, t)[c[i]] \in {"pending", "cancelled"}
      OBVIOUS
    <3>1. at(i) \in 1 .. Len(ws) /\ at(i) # k /\ c[i] = ws[at(i)]
      BY <2>7
    <3>2. c[i] # t /\ c[i] \in Tasks /\ f[c[i]] \in {"pending", "cancelled"}
      BY <2>1, <2>3, <3>1, TasksFacts
    <3> QED BY <3>2
  <2>10. \A i, j \in 1 .. Len(c) : c[i] = c[j] => i = j
    BY <2>7, <2>8
  <2> QED BY <2>2, <2>9, <2>10
<1> QED BY <1>1, <1>2

-------------------------------------------------------------------------------
\* The waiting senders: n is a lower bound on the occupied slots.
SendSide(ws, f, n) ==
  /\ Queued(ws, f)
  /\ Covers(ws, f, Senders)
  /\ Waits(f, Senders) => MaxSize <= n + Cardinality(WokenIn(f, Senders))

WaitInv ==
  /\ TypeOK
  /\ closed => ~Waits(fut, Tasks)
  /\ ~closed => SendSide(puts, fut, Len(queue))

LEMMA WokenCount ==
  ASSUME NEW f
  PROVE  /\ IsFiniteSet(WokenIn(f, Senders)) /\ Cardinality(WokenIn(f, Senders)) \in Nat
         /\ IsFiniteSet(WokenIn(f, Receivers)) /\ Cardinality(WokenIn(f, Receivers)) \in Nat
BY ChanAssumption, FS_Subset, FS_CardinalityType DEF WokenIn

\* The sending side only looks at the futures of senders.
LEMMA SendSideLocal ==
  ASSUME NEW ws \in Seq(Senders), NEW f, NEW g, NEW n,
         \A s \in Senders : g[s] = f[s], SendSide(ws, f, n)
  PROVE  SendSide(ws, g, n)
<1>1. \A i \in 1 .. Len(ws) : ws[i] \in Senders
  BY ElementOfSeq
<1>2. WokenIn(g, Senders) = WokenIn(f, Senders)
  BY DEF WokenIn
<1>3. Queued(ws, g)
  BY <1>1 DEF SendSide, Queued
<1>4. Covers(ws, g, Senders) /\ (Waits(g, Senders) => Waits(f, Senders))
  BY DEF SendSide, Covers, Waits
<1> QED BY <1>2, <1>3, <1>4 DEF SendSide

LEMMA SendLoopWaitInv ==
  ASSUME TypeOK, TypeOK', NEW s \in Senders, NEW v \in Values,
         NEW f \in [Tasks -> FutStates], f[s] = "none",
         closed => ~Waits(f, Tasks),
         ~closed => SendSide(puts, f, Len(queue) + 1),
         SendLoop(s, v, f) \/ SendNowait(s, v, f)
  PROVE  WaitInv'
<1>1. Len(queue) \in Nat /\ puts \in Seq(Senders)
  BY LenProperties DEF TypeOK
<1>2. CASE SendNowait(s, v, f) /\ ~Full /\ ~closed
  <2>1. WakeEffect(Receivers \cup {Dead}, gets, f, gets', fut')
    BY <1>2, WakeupNextEffect DEF SendNowait, TypeOK
  <2>2. \A i \in 1 .. Len(gets) : gets[i] \in Receivers \cup {Dead}
    BY ElementOfSeq DEF TypeOK
  <2>3. \A q \in Senders : fut'[q] = f[q]
    BY <2>1, <2>2, ChanAssumption, TasksFacts DEF WakeEffect, Tasks
  <2>4. puts' = puts /\ closed' = closed /\ queue' = Append(queue, v)
    BY <1>2 DEF SendNowait
  <2>5. Len(queue') = Len(queue) + 1
    BY <2>4, AppendProperties DEF TypeOK
  <2> QED BY <1>1, <1>2, <2>3, <2>4, <2>5, SendSideLocal DEF WaitInv
<1>3. CASE SendNowait(s, v, f) /\ (Full \/ closed)
  <2>1. fut' = f /\ puts' = puts /\ closed' = closed /\ queue' = queue
    BY <1>3 DEF SendNowait
  <2>2. ~closed => MaxSize <= Len(queue)
    BY <1>3 DEF Full
  <2>3. ~closed => SendSide(puts, f, Len(queue))
    BY <1>1, <2>2, WokenCount, ChanAssumption DEF SendSide
  <2> QED BY <2>1, <2>3 DEF WaitInv
<1>4. CASE SendLoop(s, v, f) /\ Full /\ ~closed
  <2>1. /\ fut' = [f EXCEPT ![s] = "pending"] /\ puts' = Append(puts, s)
        /\ closed' = closed /\ queue' = queue /\ Len(queue) >= MaxSize
    BY <1>4 DEF SendLoop, SendNowait, Full
  <2>2. Queued(puts, f) /\ Covers(puts, f, Senders)
    BY <1>4 DEF SendSide
  <2>3. /\ Len(puts') = Len(puts) + 1 /\ Len(puts) \in Nat
        /\ \A i \in 1 .. Len(puts) : puts'[i] = puts[i] /\ puts[i] \in Senders
        /\ puts'[Len(puts) + 1] = s
    BY <1>1, <2>1, AppendProperties, ElementOfSeq, LenProperties
  <2>4. \A i \in 1 .. Len(puts) : puts[i] # s /\ fut'[puts[i]] = f[puts[i]]
    BY <2>1, <2>2, <2>3, TasksFacts DEF Queued
  <2>5. \A i \in 1 .. Len(puts') : i \in 1 .. Len(puts) \/ i = Len(puts) + 1
    BY <2>3
  <2>6. fut'[s] = "pending"
    BY <2>1, TasksFacts
  <2>7. Queued(puts', fut')
    <3>1. \A i \in 1 .. Len(puts') : fut'[puts'[i]] \in {"pending", "cancelled"}
      BY <2>2, <2>3, <2>4, <2>5, <2>6 DEF Queued
    <3>2. \A i, j \in 1 .. Len(puts') : puts'[i] = puts'[j] => i = j
      BY <2>2, <2>3, <2>4, <2>5 DEF Queued
    <3> QED BY <3>1, <3>2 DEF Queued
  <2>8. Covers(puts', fut', Senders)
    <3> SUFFICES ASSUME NEW q \in Senders, fut'[q] = "pending"
                 PROVE  \E i \in 1 .. Len(puts') : puts'[i] = q
      BY DEF Covers
    <3>1. CASE q = s
      BY <2>3, <3>1
    <3>2. CASE q # s
      <4>1. f[q] = "pending"
        BY <2>1, <3>2, TasksFacts
      <4> QED BY <2>2, <2>3, <4>1 DEF Covers
    <3> QED BY <3>1, <3>2
  <2>9. MaxSize <= Len(queue) + Cardinality(WokenIn(fut', Senders))
    BY <1>1, <2>1, WokenCount, ChanAssumption
  <2> QED BY <1>4, <2>1, <2>7, <2>8, <2>9 DEF WaitInv, SendSide
<1> QED BY <1>2, <1>3, <1>4 DEF SendLoop

LEMMA RecvLoopWaitInv ==
  ASSUME TypeOK, TypeOK', NEW r \in Receivers,
         NEW f \in [Tasks -> FutStates], f[r] = "none",
         closed => ~Waits(f, Tasks),
         ~closed => SendSide(puts, f, Len(queue)),
         RecvLoop(r, f) \/ RecvNowait(r, f)
  PROVE  WaitInv'
<1>1. Len(queue) \in Nat /\ puts \in Seq(Senders)
  BY LenProperties DEF TypeOK
<1>2. CASE RecvNowait(r, f) /\ ~Empty
  <2>1. /\ WakeupNext(puts, f, puts', fut')
        /\ closed' = closed /\ queue # <<>> /\ queue' = Tail(queue)
    BY <1>2 DEF RecvNowait, Empty
  <2>2. Len(queue') = Len(queue) - 1 /\ Len(queue') \in Nat
    BY <2>1, HeadTailProperties, LenProperties DEF TypeOK
  <2>3. WakeEffect(Senders, puts, f, puts', fut')
    BY <1>1, <2>1, WakeupNextEffect
  <2>4. closed' => ~Waits(fut', Tasks)
    BY <2>1, <2>3 DEF WakeEffect, Waits
  <2>5. ASSUME ~closed PROVE SendSide(puts', fut', Len(queue'))
    <3>1. Queued(puts, f) /\ Covers(puts, f, Senders)
      BY <2>5 DEF SendSide
    <3>2. Queued(puts', fut') /\ Covers(puts', fut', Senders)
      BY <1>1, <2>1, <3>1, WakeupNextQueued, WakeupNextCovers, TasksFacts
    <3>3. ASSUME Waits(fut', Senders)
          PROVE  MaxSize <= Len(queue') + Cardinality(WokenIn(fut', Senders))
      <4>1. puts \in Seq(Senders \cup {Dead})
        BY <1>1, SeqMonotonic
      <4>2. Cardinality(WokenIn(fut', Senders)) = Cardinality(WokenIn(f, Senders)) + 1
        BY <2>1, <3>1, <3>3, <4>1, WakeupNextCount, TasksFacts, ChanAssumption
      <4>3. Waits(f, Senders)
        BY <2>3, <3>3, TasksFacts DEF WakeEffect, Waits
      <4>4. MaxSize <= Len(queue) + Cardinality(WokenIn(f, Senders))
        BY <2>5, <4>3 DEF SendSide
      <4> QED BY <1>1, <2>2, <4>2, <4>4, WokenCount, ChanAssumption
    <3> QED BY <3>2, <3>3 DEF SendSide
  <2> QED BY <2>1, <2>4, <2>5 DEF WaitInv
<1>3. CASE RecvNowait(r, f) /\ Empty
  <2>1. fut' = f /\ puts' = puts /\ closed' = closed /\ queue' = queue
    BY <1>3 DEF RecvNowait
  <2> QED BY <2>1 DEF WaitInv
<1>4. CASE RecvLoop(r, f) /\ Empty /\ ~closed
  <2>1. /\ fut' = [f EXCEPT ![r] = "pending"] /\ puts' = puts
        /\ closed' = closed /\ queue' = queue
    BY <1>4 DEF RecvLoop, RecvNowait
  <2>2. \A s \in Senders : fut'[s] = f[s]
    BY <2>1, ChanAssumption, TasksFacts
  <2>3. SendSide(puts, fut', Len(queue))
    BY <1>1, <1>4, <2>2, SendSideLocal
  <2> QED BY <1>4, <2>1, <2>3 DEF WaitInv
<1> QED BY <1>2, <1>3, <1>4 DEF RecvLoop


LEMMA WaitInit == Init => WaitInv
<1> SUFFICES ASSUME Init PROVE WaitInv
  OBVIOUS
<1>1. puts = <<>> /\ ~closed /\ \A t \in Tasks : fut[t] = "none"
  BY DEF Init
<1>2. SendSide(puts, fut, Len(queue))
  BY <1>1, TasksFacts, EmptySeq DEF SendSide, Queued, Covers, Waits
<1> QED BY <1>1, <1>2, TypeInit DEF WaitInv

\* A woken or cancelled sender leaves: what remains is short of one woken sender
\* at most.
LEMMA AwakeSender ==
  ASSUME TypeOK, NEW s \in Senders, ~closed, NEW ws \in Seq(Senders),
         Queued(ws, Awake(fut, s)), Covers(ws, Awake(fut, s), Senders),
         Waits(fut, Senders) => MaxSize <= Len(queue) + Cardinality(WokenIn(fut, Senders))
  PROVE  /\ SendSide(ws, Awake(fut, s), Len(queue) + 1)
         /\ fut[s] # "result" => SendSide(ws, Awake(fut, s), Len(queue))
<1> DEFINE f == Awake(fut, s)
<1>1. Len(queue) \in Nat /\ s \in Tasks /\ \A t \in Tasks : f[t] = IF t = s THEN "none" ELSE fut[t]
  BY TasksFacts, LenProperties DEF TypeOK, Awake
<1>2. WokenIn(f, Senders) = WokenIn(fut, Senders) \ {s}
  BY <1>1, TasksFacts DEF WokenIn
<1>3. Cardinality(WokenIn(f, Senders)) = IF fut[s] = "result"
                                           THEN Cardinality(WokenIn(fut, Senders)) - 1
                                           ELSE Cardinality(WokenIn(fut, Senders))
  <2>1. s \in WokenIn(fut, Senders) <=> fut[s] = "result"
    BY DEF WokenIn
  <2>2. IsFiniteSet(WokenIn(fut, Senders))
    BY WokenCount
  <2> HIDE DEF f
  <2> QED BY <1>2, <2>1, <2>2, FS_RemoveElement
<1>4. Waits(f, Senders) => Waits(fut, Senders)
  BY <1>1, TasksFacts DEF Waits
<1> HIDE DEF f
<1>5. Waits(f, Senders) => MaxSize <= (Len(queue) + 1) + Cardinality(WokenIn(f, Senders))
  BY <1>1, <1>3, <1>4, WokenCount, ChanAssumption
<1>6. fut[s] # "result" /\ Waits(f, Senders)
        => MaxSize <= Len(queue) + Cardinality(WokenIn(f, Senders))
  BY <1>3, <1>4
<1> QED BY <1>5, <1>6 DEF f, SendSide

LEMMA WaitNext == WaitInv /\ [Next]_vars => WaitInv'
<1> SUFFICES ASSUME WaitInv, [Next]_vars PROVE WaitInv'
  OBVIOUS
<1>0. TypeOK /\ TypeOK' /\ puts \in Seq(Senders) /\ Len(queue) \in Nat
  BY TypeNext, LenProperties DEF WaitInv, TypeOK
<1>1. ~closed => SendSide(puts, fut, Len(queue) + 1)
  BY <1>0, WokenCount, ChanAssumption DEF WaitInv, SendSide
<1>2. ASSUME NEW s \in Senders, NEW v \in Values, Send(s, v) \/ TrySend(s, v)
      PROVE  WaitInv'
  <2>1. fut[s] = "none" /\ (SendLoop(s, v, fut) \/ SendNowait(s, v, fut))
    BY <1>2 DEF Send, TrySend, Suspended
  <2> QED BY <1>0, <1>1, <2>1, SendLoopWaitInv DEF WaitInv, TypeOK
<1>3. ASSUME NEW t \in Tasks
      PROVE  /\ Awake(fut, t) \in [Tasks -> FutStates] /\ Awake(fut, t)[t] = "none"
             /\ closed => ~Waits(Awake(fut, t), Tasks)
  BY <1>0, TasksFacts DEF TypeOK, WaitInv, Waits, Awake
<1>4. ASSUME NEW s \in Senders, SendResumeCancelled(s)
      PROVE  WaitInv'
  <2> DEFINE f  == Awake(fut, s)
             ws == Without(puts, s)
  <2>1. s \in Tasks /\ ws \in Seq(Senders) /\ f \in [Tasks -> FutStates]
    BY <1>0, <1>3, WithoutEffect, TasksFacts
  <2>2. closed' = closed /\ queue' = queue
    BY <1>4 DEF SendResumeCancelled
  <2>3. ASSUME ~closed PROVE Queued(ws, f) /\ Covers(ws, f, Senders)
    <3>1. Queued(puts, fut) /\ Covers(puts, fut, Senders)
      BY <2>3 DEF WaitInv, SendSide
    <3>2. Queued(ws, f)
      BY <1>0, <3>1, WithoutQueued DEF TypeOK
    <3>3. Covers(ws, f, Senders)
      <4> SUFFICES ASSUME NEW q \in Senders, f[q] = "pending"
                   PROVE  \E i \in 1 .. Len(ws) : ws[i] = q
        BY DEF Covers
      <4>1. q # s /\ fut[q] = "pending"
        BY <1>0, <2>1, TasksFacts DEF Awake, TypeOK
      <4>2. PICK i \in 1 .. Len(puts) : puts[i] = q
        BY <3>1, <4>1 DEF Covers
      <4>3. \A j \in 1 .. Len(puts) : puts[j] # s =>
              \E m \in 1 .. Len(ws) : ws[m] = puts[j]
        BY <1>0, WithoutEffect
      <4> QED BY <4>1, <4>2, <4>3
    <3> QED BY <3>2, <3>3
  <2>4. ~closed => /\ SendSide(ws, f, Len(queue) + 1)
                   /\ fut[s] # "result" => SendSide(ws, f, Len(queue))
    BY <1>0, <2>1, <2>3, AwakeSender DEF WaitInv, SendSide
  <2>5. closed => ~Waits(f, Tasks)
    BY <1>3, <2>1
  <2> HIDE DEF f, ws
  <2>6. CASE ~Full /\ fut[s] # "cancelled"
    <3>1. WakeupNext(ws, f, puts', fut')
      BY <1>4, <2>6 DEF SendResumeCancelled, f, ws
    <3>2. WakeEffect(Senders, ws, f, puts', fut')
      BY <2>1, <3>1, WakeupNextEffect
    <3>3. closed' => ~Waits(fut', Tasks)
      BY <2>2, <2>5, <3>2 DEF WakeEffect, Waits
    <3>4. ASSUME ~closed PROVE SendSide(puts', fut', Len(queue))
      <4>1. Queued(ws, f) /\ Covers(ws, f, Senders)
        BY <2>4, <3>4 DEF SendSide
      <4>2. Queued(puts', fut') /\ Covers(puts', fut', Senders)
        BY <2>1, <3>1, <4>1, WakeupNextQueued, WakeupNextCovers, TasksFacts
      <4>3. ASSUME Waits(fut', Senders)
            PROVE  MaxSize <= Len(queue) + Cardinality(WokenIn(fut', Senders))
        <5>1. ws \in Seq(Senders \cup {Dead})
          BY <2>1, SeqMonotonic
        <5>2. Cardinality(WokenIn(fut', Senders)) = Cardinality(WokenIn(f, Senders)) + 1
          BY <2>1, <3>1, <4>1, <4>3, <5>1, WakeupNextCount, TasksFacts, ChanAssumption
        <5>3. Waits(f, Senders)
          BY <3>2, <4>3, TasksFacts DEF WakeEffect, Waits
        <5>4. MaxSize <= (Len(queue) + 1) + Cardinality(WokenIn(f, Senders))
          BY <2>4, <3>4, <5>3 DEF SendSide
        <5> QED BY <1>0, <5>2, <5>4, WokenCount, ChanAssumption
      <4> QED BY <4>2, <4>3 DEF SendSide
    <3> QED BY <1>0, <2>2, <3>3, <3>4 DEF WaitInv
  <2>7. CASE ~(~Full /\ fut[s] # "cancelled")
    <3>1. puts' = ws /\ fut' = f
      BY <1>4, <2>7 DEF SendResumeCancelled, f, ws
    <3>2. Full => MaxSize <= Len(queue)
      BY DEF Full
    <3>3. ~closed => SendSide(ws, f, Len(queue))
      BY <1>0, <2>4, <2>7, <3>2, WokenCount, ChanAssumption DEF SendSide
    <3> QED BY <1>0, <2>2, <2>5, <3>1, <3>3 DEF WaitInv
  <2> QED BY <2>6, <2>7
<1>5. ASSUME NEW s \in Senders, fut[s] \in {"result", "closed"}, ~closed
      PROVE  SendSide(puts, Awake(fut, s), Len(queue) + 1)
  <2> DEFINE f == Awake(fut, s)
  <2>1. Queued(puts, fut) /\ Covers(puts, fut, Senders)
    BY <1>5 DEF WaitInv, SendSide
  <2>2. \A t \in Tasks : f[t] = IF t = s THEN "none" ELSE fut[t]
    BY <1>0 DEF Awake, TypeOK
  <2>3. \A i \in 1 .. Len(puts) : puts[i] \in Senders /\ puts[i] # s
    BY <1>0, <1>5, <2>1, ElementOfSeq DEF Queued
  <2>4. Queued(puts, f)
    BY <2>1, <2>2, <2>3, TasksFacts DEF Queued
  <2>5. Covers(puts, f, Senders)
    BY <2>1, <2>2, TasksFacts DEF Covers
  <2> QED BY <1>0, <1>5, <2>4, <2>5, AwakeSender DEF WaitInv, SendSide
<1>6. ASSUME NEW s \in Senders, SendResumeClosed(s)
      PROVE  WaitInv'
  <2>1. /\ fut[s] = "closed" /\ fut' = Awake(fut, s)
        /\ UNCHANGED <<puts, queue, closed>>
    BY <1>6 DEF SendResumeClosed
  <2>2. ASSUME ~closed PROVE SendSide(puts, Awake(fut, s), Len(queue))
    <3>1. SendSide(puts, Awake(fut, s), Len(queue) + 1)
      BY <1>5, <2>1, <2>2
    <3>2. Queued(puts, Awake(fut, s)) /\ Covers(puts, Awake(fut, s), Senders)
      BY <3>1 DEF SendSide
    <3> QED BY <1>0, <2>1, <2>2, <3>2, AwakeSender DEF WaitInv, SendSide
  <2>3. closed => ~Waits(Awake(fut, s), Tasks)
    BY <1>3, TasksFacts
  <2> QED BY <1>0, <2>1, <2>2, <2>3 DEF WaitInv
<1>7. ASSUME NEW s \in Senders, SendResumeWoken(s)
      PROVE  WaitInv'
  <2>1. fut[s] = "result" /\ SendLoop(s, msg[s], Awake(fut, s)) /\ msg[s] \in Values
    BY <1>0, <1>7 DEF SendResumeWoken, TypeOK
  <2>2. ~closed => SendSide(puts, Awake(fut, s), Len(queue) + 1)
    BY <1>5, <2>1
  <2> QED BY <1>0, <1>3, <2>1, <2>2, SendLoopWaitInv, TasksFacts
<1>8. ASSUME NEW r \in Receivers
      PROVE  ~closed => SendSide(puts, Awake(fut, r), Len(queue))
  <2>1. \A s \in Senders : Awake(fut, r)[s] = fut[s]
    BY <1>0, ChanAssumption, TasksFacts DEF Awake, TypeOK
  <2> QED BY <1>0, <2>1, SendSideLocal DEF WaitInv
<1>9. ASSUME NEW r \in Receivers, Recv(r) \/ TryRecv(r)
      PROVE  WaitInv'
  <2>1. fut[r] = "none" /\ (RecvLoop(r, fut) \/ RecvNowait(r, fut))
    BY <1>9 DEF Recv, TryRecv, Suspended
  <2> QED BY <1>0, <2>1, RecvLoopWaitInv DEF WaitInv, TypeOK
<1>10. ASSUME NEW r \in Receivers, RecvResumeCancelled(r) \/ RecvResumeClosed(r)
       PROVE  WaitInv'
  <2>1. fut' = Awake(fut, r) /\ UNCHANGED <<puts, queue, closed>>
    BY <1>10 DEF RecvResumeCancelled, RecvResumeClosed
  <2> QED BY <1>0, <1>3, <1>8, <2>1, TasksFacts DEF WaitInv
<1>11. ASSUME NEW r \in Receivers, RecvResumeWoken(r)
       PROVE  WaitInv'
  <2>1. RecvLoop(r, Awake(fut, r))
    BY <1>11 DEF RecvResumeWoken
  <2> QED BY <1>0, <1>3, <1>8, <2>1, RecvLoopWaitInv, TasksFacts
<1>12. ASSUME NEW t \in Tasks, Cancel(t)
       PROVE  WaitInv'
  <2>1. UNCHANGED <<puts, queue, closed>>
    BY <1>12 DEF Cancel
  <2>2. CASE fut[t] # "pending"
    BY <1>0, <1>12, <2>1, <2>2 DEF Cancel, WaitInv
  <2>3. CASE fut[t] = "pending"
    <3>1. fut' = [fut EXCEPT ![t] = "cancelled"]
      BY <1>12, <2>3 DEF Cancel
    <3>2. \A q \in Tasks : fut'[q] = IF q = t THEN "cancelled" ELSE fut[q]
      BY <1>0, <3>1 DEF TypeOK
    <3>3. closed => ~Waits(fut', Tasks)
      BY <3>2 DEF WaitInv, Waits
    <3>4. ASSUME ~closed PROVE SendSide(puts, fut', Len(queue))
      <4>1. Queued(puts, fut) /\ Covers(puts, fut, Senders)
        BY <3>4 DEF WaitInv, SendSide
      <4>2. \A i \in 1 .. Len(puts) : puts[i] \in Tasks
        BY <1>0, ElementOfSeq, TasksFacts
      <4>3. Queued(puts, fut')
        BY <3>2, <4>1, <4>2 DEF Queued
      <4>4. Covers(puts, fut', Senders) /\ (Waits(fut', Senders) => Waits(fut, Senders))
        BY <3>2, <4>1, TasksFacts DEF Covers, Waits
      <4>5. WokenIn(fut', Senders) = WokenIn(fut, Senders)
        BY <2>3, <3>2, TasksFacts DEF WokenIn
      <4> QED BY <3>4, <4>3, <4>4, <4>5 DEF WaitInv, SendSide
    <3> QED BY <1>0, <2>1, <3>3, <3>4 DEF WaitInv
  <2> QED BY <2>2, <2>3
<1>13. CASE Close
  <2>1. closed' = TRUE
    BY <1>13 DEF Close
  <2>2. CASE closed /\ fut' = fut
    BY <1>0, <2>1, <2>2 DEF WaitInv
  <2>3. CASE ~closed
    <3>1. ~\E i \in 1 .. Len(puts) : fut[puts[i]] \notin {"pending", "cancelled"}
      BY <2>3 DEF WaitInv, SendSide, Queued
    <3>2. ~Waits(fut', Tasks)
      BY <1>13, <3>1 DEF Close, Waits
    <3> QED BY <1>0, <2>1, <3>2 DEF WaitInv
  <2>4. CASE closed /\ ~\E i \in 1 .. Len(puts) : fut[puts[i]] \notin {"pending", "cancelled"}
    <3>1. ~Waits(fut', Tasks)
      BY <1>13, <2>4 DEF Close, Waits
    <3> QED BY <1>0, <2>1, <3>1 DEF WaitInv
  <2> QED BY <1>13, <2>2, <2>3, <2>4 DEF Close
<1>14. CASE UNCHANGED vars
  BY <1>0, <1>14 DEF vars, WaitInv
<1> QED BY <1>2, <1>4, <1>6, <1>7, <1>9, <1>10, <1>11, <1>12, <1>13, <1>14
        DEF Next, SendResume, RecvResume

\* No slot stays free while a sender sleeps on an open channel and nobody woken
\* is on the way to fill it, however senders barge in and are cancelled.
THEOREM NoPutWakeupIsLost == Spec => []NoLostPutWakeup
<1>1. WaitInv => NoLostPutWakeup
  BY DEF WaitInv, SendSide, Waits, WokenIn, NoLostPutWakeup, Pending, Woken
<1> QED BY <1>1, WaitInit, WaitNext, PTL DEF Spec

\* After close nobody sleeps, and nobody falls asleep again.
THEOREM CloseWakesEveryone == Spec => []ClosedWakesAll
<1>1. WaitInv => ClosedWakesAll
  BY DEF WaitInv, Waits, ClosedWakesAll, Pending
<1> QED BY <1>1, WaitInit, WaitNext, PTL DEF Spec

-------------------------------------------------------------------------------
\* The waiting receivers: n items are queued.
GetSide(f, n) == Waits(f, Receivers) => n <= Cardinality(WokenIn(f, Receivers))

\* A receiver that was woken, and cancelled before it resumed, leaves without passing the
\* wake-up on: the handler in recv does not catch its CancelledError.
WakeupDropped ==
  \E r \in Receivers : r \in mustCancel /\ fut[r] = "result" /\ RecvResumeCancelled(r)

\* The one step that can leave a receiver asleep beside an item nobody was woken for.
OnlyLateCancelDropsWakeup ==
  [][NoLostGetWakeup => NoLostGetWakeup' \/ WakeupDropped]_vars

LEMMA GetSideIsProperty == NoLostGetWakeup <=> GetSide(fut, Len(queue))
BY DEF NoLostGetWakeup, GetSide, Pending, Woken, Waits, WokenIn

LEMMA GetSideLocal ==
  ASSUME NEW f, NEW g, NEW n, \A r \in Receivers : g[r] = f[r]
  PROVE  /\ Covers(gets, f, Receivers) => Covers(gets, g, Receivers)
         /\ GetSide(f, n) => GetSide(g, n)
<1>1. WokenIn(g, Receivers) = WokenIn(f, Receivers)
  BY DEF WokenIn
<1>2. Waits(g, Receivers) => Waits(f, Receivers)
  BY DEF Waits
<1>3. Covers(gets, f, Receivers) => Covers(gets, g, Receivers)
  BY DEF Covers
<1> QED BY <1>1, <1>2, <1>3 DEF GetSide

LEMMA SendLoopGets ==
  ASSUME TypeOK, TypeOK', NEW s \in Senders, NEW v \in Values,
         NEW f \in [Tasks -> FutStates], Covers(gets, f, Receivers),
         SendLoop(s, v, f) \/ SendNowait(s, v, f)
  PROVE  /\ Covers(gets', fut', Receivers)
         /\ GetSide(f, Len(queue)) => GetSide(fut', Len(queue'))
<1>1. Len(queue) \in Nat /\ gets \in Seq(Receivers \cup {Dead})
  BY LenProperties DEF TypeOK
<1>2. CASE SendNowait(s, v, f) /\ ~Full /\ ~closed
  <2>1. WakeupNext(gets, f, gets', fut') /\ queue' = Append(queue, v)
    BY <1>2 DEF SendNowait
  <2>2. Covers(gets', fut', Receivers)
    BY <1>1, <2>1, WakeupNextCovers, TasksFacts
  <2>3. Len(queue') = Len(queue) + 1
    BY <2>1, AppendProperties DEF TypeOK
  <2>4. ASSUME GetSide(f, Len(queue)), Waits(fut', Receivers)
        PROVE  Len(queue') <= Cardinality(WokenIn(fut', Receivers))
    <3>1. Cardinality(WokenIn(fut', Receivers)) = Cardinality(WokenIn(f, Receivers)) + 1
      BY <1>1, <2>1, <2>4, WakeupNextCount, TasksFacts, ChanAssumption
    <3>2. WakeEffect(Receivers \cup {Dead}, gets, f, gets', fut')
      BY <1>1, <2>1, WakeupNextEffect
    <3>3. Waits(f, Receivers)
      BY <2>4, <3>2, TasksFacts DEF WakeEffect, Waits
    <3>4. Len(queue) <= Cardinality(WokenIn(f, Receivers))
      BY <2>4, <3>3 DEF GetSide
    <3> QED BY <1>1, <2>3, <3>1, <3>4, WokenCount
  <2> QED BY <2>2, <2>4 DEF GetSide
<1>3. CASE SendNowait(s, v, f) /\ (Full \/ closed)
  BY <1>3 DEF SendNowait
<1>4. CASE SendLoop(s, v, f) /\ Full /\ ~closed
  <2>1. fut' = [f EXCEPT ![s] = "pending"] /\ gets' = gets /\ queue' = queue
    BY <1>4 DEF SendLoop, SendNowait
  <2>2. \A r \in Receivers : fut'[r] = f[r]
    BY <2>1, ChanAssumption, TasksFacts
  <2> QED BY <2>1, <2>2, GetSideLocal
<1> QED BY <1>2, <1>3, <1>4 DEF SendLoop

LEMMA RecvLoopGets ==
  ASSUME TypeOK, TypeOK', NEW r \in Receivers, NEW f \in [Tasks -> FutStates],
         NEW n \in Nat, n <= Len(queue), Len(queue) <= n + 1,
         Covers(gets, f, Receivers), RecvLoop(r, f) \/ RecvNowait(r, f)
  PROVE  /\ Covers(gets', fut', Receivers)
         /\ GetSide(f, n) => GetSide(fut', Len(queue'))
<1>1. Len(queue) \in Nat /\ puts \in Seq(Senders) /\ gets \in Seq(Receivers \cup {Dead})
  BY LenProperties DEF TypeOK
<1>2. CASE RecvNowait(r, f) /\ ~Empty
  <2>1. /\ WakeupNext(puts, f, puts', fut')
        /\ gets' = gets /\ queue # <<>> /\ queue' = Tail(queue)
    BY <1>2 DEF RecvNowait, Empty
  <2>2. Len(queue') = Len(queue) - 1
    BY <2>1, HeadTailProperties, LenProperties DEF TypeOK
  <2>3. \A q \in Receivers : fut'[q] = f[q]
    <3>1. WakeEffect(Senders, puts, f, puts', fut')
      BY <1>1, <2>1, WakeupNextEffect
    <3>2. \A i \in 1 .. Len(puts) : puts[i] \in Senders
      BY <1>1, ElementOfSeq
    <3> QED BY <3>1, <3>2, ChanAssumption, TasksFacts DEF WakeEffect, Tasks
  <2>4. Covers(gets', fut', Receivers) /\ (GetSide(f, n) => GetSide(fut', n))
    BY <2>1, <2>3, GetSideLocal
  <2>5. Len(queue') <= n
    BY <1>1, <2>1, <2>2
  <2> QED BY <1>1, <2>2, <2>4, <2>5, WokenCount DEF GetSide
<1>3. CASE RecvNowait(r, f) /\ Empty
  <2>1. fut' = f /\ gets' = gets /\ queue' = queue /\ Len(queue) = 0
    BY <1>3 DEF RecvNowait, Empty
  <2> QED BY <2>1, WokenCount DEF GetSide
<1>4. CASE RecvLoop(r, f) /\ Empty /\ ~closed
  <2>1. /\ fut' = [f EXCEPT ![r] = "pending"] /\ gets' = Append(gets, r)
        /\ queue' = queue /\ Len(queue) = 0
    BY <1>4 DEF RecvLoop, RecvNowait, Empty
  <2>2. /\ Len(gets') = Len(gets) + 1 /\ Len(gets) \in Nat /\ gets'[Len(gets) + 1] = r
        /\ \A i \in 1 .. Len(gets) : gets'[i] = gets[i]
    BY <1>1, <2>1, AppendProperties, LenProperties
  <2>3. ASSUME NEW q \in Receivers, fut'[q] = "pending"
        PROVE  \E i \in 1 .. Len(gets') : gets'[i] = q
    <3>1. CASE q = r
      BY <2>2, <3>1
    <3>2. CASE q # r
      <4>1. f[q] = "pending"
        BY <2>1, <2>3, <3>2, TasksFacts
      <4> QED BY <2>2, <4>1 DEF Covers
    <3> QED BY <3>1, <3>2
  <2>4. Covers(gets', fut', Receivers)
    BY <2>3 DEF Covers
  <2>5. GetSide(fut', Len(queue'))
    BY <2>1, WokenCount DEF GetSide
  <2> QED BY <2>4, <2>5
<1> QED BY <1>2, <1>3, <1>4 DEF RecvLoop

\* A receiver that resumes leaves one woken receiver less, if it was woken.
LEMMA AwakeReceiver ==
  ASSUME TypeOK, NEW r \in Receivers, Covers(gets, fut, Receivers), NEW n \in Nat
  PROVE  /\ Covers(gets, Awake(fut, r), Receivers)
         /\ fut[r] # "result" /\ GetSide(fut, n) => GetSide(Awake(fut, r), n)
         /\ GetSide(fut, n) => GetSide(Awake(fut, r), n - 1)
         /\ GetSide(Awake(fut, r), 0)
<1> DEFINE f == Awake(fut, r)
<1>1. \A t \in Tasks : f[t] = IF t = r THEN "none" ELSE fut[t]
  BY TasksFacts DEF TypeOK, Awake
<1>2. WokenIn(f, Receivers) = WokenIn(fut, Receivers) \ {r}
  BY <1>1, TasksFacts DEF WokenIn
<1>3. Cardinality(WokenIn(f, Receivers)) = IF fut[r] = "result"
                                             THEN Cardinality(WokenIn(fut, Receivers)) - 1
                                             ELSE Cardinality(WokenIn(fut, Receivers))
  <2>1. r \in WokenIn(fut, Receivers) <=> fut[r] = "result"
    BY DEF WokenIn
  <2>2. IsFiniteSet(WokenIn(fut, Receivers))
    BY WokenCount
  <2> HIDE DEF f
  <2> QED BY <1>2, <2>1, <2>2, FS_RemoveElement
<1>4. (Waits(f, Receivers) => Waits(fut, Receivers)) /\ Covers(gets, f, Receivers)
  BY <1>1, TasksFacts DEF Waits, Covers
<1> HIDE DEF f
<1>5. fut[r] # "result" /\ GetSide(fut, n) => GetSide(f, n)
  BY <1>3, <1>4 DEF GetSide
<1>6. GetSide(fut, n) => GetSide(f, n - 1)
  BY <1>3, <1>4, WokenCount DEF GetSide
<1>7. GetSide(f, 0)
  BY WokenCount DEF GetSide
<1> QED BY <1>4, <1>5, <1>6, <1>7 DEF f

LEMMA LateCancels ==
  ASSUME [Next]_vars
  PROVE  mustCancel' \subseteq mustCancel \cup LateCancellable
<1>1. ASSUME NEW s \in Senders, NEW v \in Values, Send(s, v) \/ TrySend(s, v)
      PROVE  mustCancel' = mustCancel
  BY <1>1 DEF Send, TrySend
<1>2. ASSUME NEW s \in Senders, SendResume(s)
      PROVE  mustCancel' \subseteq mustCancel
  BY <1>2 DEF SendResume, SendResumeCancelled, SendResumeClosed, SendResumeWoken
<1>3. ASSUME NEW r \in Receivers, Recv(r) \/ TryRecv(r) \/ RecvResume(r)
      PROVE  mustCancel' \subseteq mustCancel
  BY <1>3 DEF Recv, TryRecv, RecvResume, RecvResumeCancelled, RecvResumeClosed,
              RecvResumeWoken
<1>4. ASSUME NEW t \in Tasks, Cancel(t)
      PROVE  mustCancel' \subseteq mustCancel \cup LateCancellable
  BY <1>4 DEF Cancel
<1>5. CASE Close
  BY <1>5 DEF Close
<1>6. CASE UNCHANGED vars
  BY <1>6 DEF vars
<1> QED BY <1>1, <1>2, <1>3, <1>4, <1>5, <1>6 DEF Next

LEMMA GetNext ==
  ASSUME WaitInv, WaitInv', Covers(gets, fut, Receivers), [Next]_vars
  PROVE  /\ Covers(gets', fut', Receivers)
         /\ GetSide(fut, Len(queue)) => GetSide(fut', Len(queue')) \/ WakeupDropped
<1> DEFINE Goal == /\ Covers(gets', fut', Receivers)
                   /\ GetSide(fut, Len(queue)) => GetSide(fut', Len(queue')) \/ WakeupDropped
<1> SUFFICES Goal
  OBVIOUS
<1>0. /\ TypeOK /\ TypeOK' /\ gets \in Seq(Receivers \cup {Dead}) /\ Len(queue) \in Nat
      /\ fut \in [Tasks -> FutStates]
  BY LenProperties DEF WaitInv, TypeOK
<1>1. closed => ~Waits(fut, Tasks)
  BY DEF WaitInv
<1>2. ASSUME NEW s \in Senders, NEW v \in Values, Send(s, v) \/ TrySend(s, v)
      PROVE  Goal
  <2>1. SendLoop(s, v, fut) \/ SendNowait(s, v, fut)
    BY <1>2 DEF Send, TrySend
  <2> QED BY <1>0, <2>1, SendLoopGets
<1>3. ASSUME NEW s \in Senders
      PROVE  /\ \A r \in Receivers : Awake(fut, s)[r] = fut[r]
             /\ Awake(fut, s) \in [Tasks -> FutStates]
  BY <1>0, ChanAssumption, TasksFacts DEF Awake
<1>4. ASSUME NEW s \in Senders, SendResumeCancelled(s)
      PROVE  Goal
  <2> DEFINE f  == Awake(fut, s)
             ws == Without(puts, s)
  <2>1. ws \in Seq(Senders) /\ f \in [Tasks -> FutStates] /\ \A r \in Receivers : f[r] = fut[r]
    BY <1>0, <1>3, WithoutEffect, TasksFacts DEF TypeOK
  <2>2. UNCHANGED <<gets, queue>>
    BY <1>4 DEF SendResumeCancelled
  <2>3. WakeupNext(ws, f, puts', fut') \/ fut' = f
    BY <1>4 DEF SendResumeCancelled
  <2> HIDE DEF f, ws
  <2>4. \A r \in Receivers : fut'[r] = f[r]
    <3>1. CASE WakeupNext(ws, f, puts', fut')
      <4>1. WakeEffect(Senders, ws, f, puts', fut')
        BY <2>1, <3>1, WakeupNextEffect
      <4>2. \A i \in 1 .. Len(ws) : ws[i] \in Senders
        BY <2>1, ElementOfSeq
      <4> QED BY <2>1, <4>1, <4>2, ChanAssumption, TasksFacts DEF WakeEffect, Tasks
    <3> QED BY <2>3, <3>1
  <2>5. \A r \in Receivers : fut'[r] = fut[r]
    BY <2>1, <2>4
  <2> QED BY <2>2, <2>5, GetSideLocal
<1>5. ASSUME NEW s \in Senders, SendResumeClosed(s)
      PROVE  Goal
  <2>1. fut' = Awake(fut, s) /\ UNCHANGED <<gets, queue>>
    BY <1>5 DEF SendResumeClosed
  <2> QED BY <1>3, <2>1, GetSideLocal
<1>6. ASSUME NEW s \in Senders, SendResumeWoken(s)
      PROVE  Goal
  <2>1. SendLoop(s, msg[s], Awake(fut, s)) /\ msg[s] \in Values
    BY <1>0, <1>6 DEF SendResumeWoken, TypeOK
  <2>2. /\ Covers(gets, Awake(fut, s), Receivers)
        /\ GetSide(fut, Len(queue)) => GetSide(Awake(fut, s), Len(queue))
    BY <1>3, GetSideLocal
  <2> QED BY <1>0, <1>3, <2>1, <2>2, SendLoopGets
<1>7. ASSUME NEW r \in Receivers, Recv(r) \/ TryRecv(r)
      PROVE  Goal
  <2>1. RecvLoop(r, fut) \/ RecvNowait(r, fut)
    BY <1>7 DEF Recv, TryRecv
  <2> DEFINE n == Len(queue)
  <2>2. n \in Nat /\ n <= Len(queue) /\ Len(queue) <= n + 1
    BY <1>0
  <2> HIDE DEF n
  <2>3. Covers(gets', fut', Receivers) /\ (GetSide(fut, n) => GetSide(fut', Len(queue')))
    BY <1>0, <2>1, <2>2, RecvLoopGets
  <2> QED BY <2>3 DEF n
<1>8. ASSUME NEW r \in Receivers, RecvResumeCancelled(r) \/ RecvResumeClosed(r)
      PROVE  Goal
  <2>1. fut' = Awake(fut, r) /\ UNCHANGED <<gets, queue>>
    BY <1>8 DEF RecvResumeCancelled, RecvResumeClosed
  <2>2. Covers(gets, Awake(fut, r), Receivers)
    BY <1>0, AwakeReceiver
  <2>3. CASE fut[r] # "result"
    <3>1. GetSide(fut, Len(queue)) => GetSide(Awake(fut, r), Len(queue))
      BY <1>0, <2>3, AwakeReceiver
    <3> QED BY <2>1, <2>2, <3>1
  <2>4. CASE fut[r] = "result"
    <3>1. r \in mustCancel /\ RecvResumeCancelled(r)
      BY <1>8, <2>4 DEF RecvResumeCancelled, RecvResumeClosed, CancelledAtResume
    <3>2. WakeupDropped
      BY <2>4, <3>1 DEF WakeupDropped
    <3> QED BY <2>1, <2>2, <3>2
  <2> QED BY <2>3, <2>4
<1>9. ASSUME NEW r \in Receivers, RecvResumeWoken(r)
      PROVE  Goal
  <2> DEFINE f == Awake(fut, r)
  <2>1. RecvLoop(r, f) /\ f \in [Tasks -> FutStates] /\ Covers(gets, f, Receivers)
    BY <1>0, <1>9, AwakeReceiver, TasksFacts DEF RecvResumeWoken
  <2>2. PICK n \in Nat : /\ n <= Len(queue) /\ Len(queue) <= n + 1
                         /\ n = IF Len(queue) = 0 THEN 0 ELSE Len(queue) - 1
    <3> DEFINE m == IF Len(queue) = 0 THEN 0 ELSE Len(queue) - 1
    <3>1. m \in Nat /\ m <= Len(queue) /\ Len(queue) <= m + 1
      BY <1>0
    <3> QED BY <3>1
  <2>3. GetSide(fut, Len(queue)) => GetSide(f, n)
    <3>1. CASE Len(queue) = 0
      BY <1>0, <2>2, <3>1, AwakeReceiver
    <3>2. CASE Len(queue) # 0
      <4>1. n = Len(queue) - 1
        BY <2>2, <3>2
      <4> QED BY <1>0, <4>1, AwakeReceiver
    <3> QED BY <3>1, <3>2
  <2> HIDE DEF f
  <2>4. Covers(gets', fut', Receivers) /\ (GetSide(f, n) => GetSide(fut', Len(queue')))
    BY <1>0, <2>1, <2>2, RecvLoopGets
  <2> QED BY <2>3, <2>4
<1>10. ASSUME NEW t \in Tasks, Cancel(t)
       PROVE  Goal
  <2>1. CASE fut[t] # "pending"
    BY <1>10, <2>1 DEF Cancel
  <2>2. CASE fut[t] = "pending"
    <3>1. /\ fut' = [fut EXCEPT ![t] = "cancelled"] /\ queue' = queue
          /\ gets' = [i \in 1 .. Len(gets) |-> IF gets[i] = t THEN Dead ELSE gets[i]]
      BY <1>10, <2>2 DEF Cancel
    <3>2. \A q \in Tasks : fut'[q] = IF q = t THEN "cancelled" ELSE fut[q]
      BY <1>0, <3>1
    <3>3. Len(gets') = Len(gets)
      <4>1. DOMAIN gets' = 1 .. Len(gets) /\ Len(gets) \in Nat /\ Len(gets') \in Nat
        BY <1>0, <3>1, LenProperties DEF TypeOK
      <4>2. DOMAIN gets' = 1 .. Len(gets')
        BY <1>0, LenProperties DEF TypeOK
      <4> QED BY <4>1, <4>2
    <3>4. ASSUME NEW q \in Receivers, fut'[q] = "pending"
          PROVE  \E i \in 1 .. Len(gets') : gets'[i] = q
      <4>1. q # t /\ fut[q] = "pending"
        BY <3>2, <3>4, TasksFacts
      <4>2. PICK i \in 1 .. Len(gets) : gets[i] = q
        BY <4>1 DEF Covers
      <4> QED BY <3>1, <3>3, <4>1, <4>2
    <3>5. Covers(gets', fut', Receivers)
      BY <3>4 DEF Covers
    <3>6. (Waits(fut', Receivers) => Waits(fut, Receivers))
          /\ WokenIn(fut', Receivers) = WokenIn(fut, Receivers)
      BY <2>2, <3>2, TasksFacts DEF Waits, WokenIn
    <3> QED BY <3>1, <3>5, <3>6 DEF GetSide
  <2> QED BY <2>1, <2>2
<1>11. CASE Close
  <2>1. closed' = TRUE
    BY <1>11 DEF Close
  <2>2. ~Waits(fut', Receivers)
    BY <2>1, TasksFacts DEF WaitInv, Waits
  <2> QED BY <2>2 DEF Covers, Waits, GetSide
<1>12. CASE UNCHANGED vars
  BY <1>12 DEF vars
<1> QED BY <1>2, <1>4, <1>5, <1>6, <1>7, <1>8, <1>9, <1>10, <1>11, <1>12
        DEF Next, SendResume, RecvResume

GetInv == WaitInv /\ Covers(gets, fut, Receivers)

LEMMA GetInvariant == Spec => []GetInv
<1>1. Init => GetInv
  <2> SUFFICES ASSUME Init PROVE GetInv
    OBVIOUS
  <2>1. \A t \in Tasks : fut[t] = "none"
    BY DEF Init
  <2> QED BY <2>1, WaitInit, TasksFacts DEF GetInv, Covers
<1>2. GetInv /\ [Next]_vars => GetInv'
  BY WaitNext, GetNext DEF GetInv
<1> QED BY <1>1, <1>2, PTL DEF Spec

\* A receiver sleeps beside an item nobody was woken for only after another receiver, woken
\* for that item, was cancelled before it resumed: no other step, of any task, loses the
\* wake-up of a receiver, whatever is sent, cancelled or closed.
THEOREM OnlyLateCancelLosesGet == Spec => OnlyLateCancelDropsWakeup
<1>1. GetInv /\ [Next]_vars => [NoLostGetWakeup => NoLostGetWakeup' \/ WakeupDropped]_vars
  <2> SUFFICES ASSUME GetInv, [Next]_vars, NoLostGetWakeup
               PROVE  NoLostGetWakeup' \/ WakeupDropped
    OBVIOUS
  <2>1. WaitInv /\ WaitInv' /\ Covers(gets, fut, Receivers)
    BY WaitNext DEF GetInv
  <2>2. GetSide(fut, Len(queue))
    BY GetSideIsProperty
  <2>3. GetSide(fut', Len(queue')) \/ WakeupDropped
    BY <2>1, <2>2, GetNext
  <2>4. NoLostGetWakeup' <=> GetSide(fut', Len(queue'))
    BY DEF NoLostGetWakeup, GetSide, Pending, Woken, Waits, WokenIn
  <2> QED BY <2>3, <2>4
<1> QED BY <1>1, GetInvariant, PTL DEF Spec, OnlyLateCancelDropsWakeup

\* So while no receiver is cancelled between its wake-up and its return, no item waits in the
\* queue beside a receiver that sleeps, for any tasks, capacity and order of calls.
THEOREM NoGetWakeupIsLost ==
  LateCancellable \subseteq Senders => (Spec => []NoLostGetWakeup)
<1>1. SUFFICES ASSUME LateCancellable \subseteq Senders
               PROVE  Spec => []NoLostGetWakeup
  OBVIOUS
<1> DEFINE Inv == /\ GetInv /\ NoLostGetWakeup
                  /\ mustCancel \cap Receivers = {}
<1>2. Init => Inv
  <2> SUFFICES ASSUME Init PROVE GetInv /\ NoLostGetWakeup /\ mustCancel \cap Receivers = {}
    OBVIOUS
  <2>1. \A t \in Tasks : fut[t] = "none"
    BY DEF Init
  <2> QED BY <2>1, WaitInit, TasksFacts
          DEF GetInv, Covers, NoLostGetWakeup, Pending, Init
<1>3. Inv /\ [Next]_vars => Inv'
  <2> SUFFICES ASSUME GetInv, NoLostGetWakeup, mustCancel \cap Receivers = {}, [Next]_vars
               PROVE  GetInv' /\ NoLostGetWakeup' /\ (mustCancel \cap Receivers = {})'
    OBVIOUS
  <2>1. WaitInv /\ WaitInv' /\ Covers(gets, fut, Receivers)
    BY WaitNext DEF GetInv
  <2>2. GetInv'
    BY <2>1, GetNext DEF GetInv
  <2>3. GetSide(fut', Len(queue')) \/ WakeupDropped
    BY <2>1, GetSideIsProperty, GetNext
  <2>4. ~WakeupDropped
    BY DEF WakeupDropped
  <2>5. NoLostGetWakeup' <=> GetSide(fut', Len(queue'))
    BY DEF NoLostGetWakeup, GetSide, Pending, Woken, Waits, WokenIn
  <2>6. mustCancel' \cap Receivers = {}
    BY <1>1, ChanAssumption, LateCancels
  <2> QED BY <2>2, <2>3, <2>4, <2>5, <2>6
<1>4. Inv => NoLostGetWakeup
  OBVIOUS
<1> QED BY <1>2, <1>3, <1>4, PTL DEF Spec
===============================================================================
