--------------------------------- MODULE Chan ---------------------------------
(***************************************************************************)
(* Chan of utils/aio/channel.py: the bounded channel that asyncio tasks    *)
(* share on one event loop.  A task that has to wait creates a future and  *)
(* appends it to _puts or _gets; the future is completed by another task,  *)
(* and only later does the event loop resume the waiter.  Between the two, *)
(* any other task may run and the waiter may be cancelled.                 *)
(*                                                                         *)
(* A step is what one task does between two suspensions.  A future is      *)
(* named by the task that awaits it; fut[t] is its state.                  *)
(***************************************************************************)
EXTENDS Integers, Sequences, FiniteSets

CONSTANTS Senders,      \* tasks that call send and send_nowait
          Receivers,    \* tasks that call recv and recv_nowait
          Closer,       \* the task that calls close
          Values,       \* what is sent
          MaxSize,      \* maxsize, 0 for an unbounded channel
          Cancellable,  \* tasks that may be cancelled while their future is pending
          LateCancellable, \* tasks that may be cancelled once their future is done
          Dead,         \* a cancelled future left behind in _gets
          MaxSends,     \* bound on the accepted items
          MaxDead       \* bound on the cancelled futures left in _gets

Tasks == Senders \cup Receivers

ASSUME ChanAssumption ==
  /\ MaxSize \in Nat
  /\ IsFiniteSet(Senders) /\ IsFiniteSet(Receivers)
  /\ Senders \cap Receivers = {}
  /\ Closer \notin Tasks
  /\ Dead \notin Tasks
  /\ Cancellable \subseteq Tasks /\ LateCancellable \subseteq Tasks
  /\ Values # {}
  /\ MaxSends \in Nat /\ MaxDead \in Nat

VARIABLES queue,       \* _queue
          puts,        \* _puts: the senders whose futures are queued
          gets,        \* _gets: the receivers, or Dead
          closed,      \* _closed and _close_ev, always set together
          fut,         \* state of the future each task awaits
          mustCancel,  \* tasks cancelled after their future was done
          msg,         \* the value a waiting send carries
          outcome,     \* the last call that finished: its task, and how it ended
          accepted,    \* history: values appended to _queue
          received     \* history: values taken from _queue

vars == <<queue, puts, gets, closed, fut, mustCancel, msg, outcome,
          accepted, received>>

FutStates == {"none", "pending", "result", "closed", "cancelled"}
Outcomes  == {"none", "ok", "ChanClosed", "ChanFull", "ChanEmpty",
              "Cancelled", "InvalidState"}

TypeOK ==
  /\ queue \in Seq(Values)
  /\ puts \in Seq(Senders)
  /\ gets \in Seq(Receivers \cup {Dead})
  /\ closed \in BOOLEAN
  /\ fut \in [Tasks -> FutStates]
  /\ mustCancel \subseteq Tasks
  /\ msg \in [Senders -> Values]
  /\ outcome \in [task : Tasks \cup {Closer}, kind : Outcomes]
  /\ accepted \in Seq(Values)
  /\ received \in Seq(Values)

Init ==
  /\ queue = <<>>
  /\ puts = <<>>
  /\ gets = <<>>
  /\ closed = FALSE
  /\ fut = [t \in Tasks |-> "none"]
  /\ mustCancel = {}
  /\ msg = [s \in Senders |-> CHOOSE v \in Values : TRUE]
  /\ outcome = [task |-> Closer, kind |-> "none"]
  /\ accepted = <<>>
  /\ received = <<>>

-------------------------------------------------------------------------------
Full  == MaxSize > 0 /\ Len(queue) >= MaxSize
Empty == queue = <<>>

Suspended(t) == fut[t] # "none"
Returns(t, o) == outcome' = [task |-> t, kind |-> o]

\* Whether the future of entry w is not done, given the states f of the futures.
Live(w, f) == w \in Tasks /\ f[w] = "pending"

\* Mutant of WakeupNext: the call is missing.
WakeupNobody(ws, f, wsN, fN) == wsN = ws /\ fN = f

\* _wakeup_next: pop futures until one that is not done, and complete that one.
\* (ws, f) is the deque and the futures before, (wsN, fN) after.
WakeupNext(ws, f, wsN, fN) ==
  \/ \E k \in 1 .. Len(ws) :
       /\ Live(ws[k], f)
       /\ \A j \in 1 .. k - 1 : ~Live(ws[j], f)
       /\ wsN = SubSeq(ws, k + 1, Len(ws))
       /\ fN = [f EXCEPT ![ws[k]] = "result"]
  \/ /\ \A j \in 1 .. Len(ws) : ~Live(ws[j], f)
     /\ wsN = <<>>
     /\ fN = f

\* deque.remove of the future of t, if it is there.
Without(ws, t) ==
  IF \A i \in 1 .. Len(ws) : ws[i] # t
    THEN ws
    ELSE LET i == CHOOSE k \in 1 .. Len(ws) : ws[k] = t
         IN  SubSeq(ws, 1, i - 1) \o SubSeq(ws, i + 1, Len(ws))

\* Mutant of SendNowait: no test of _closed.
SendNowaitClosed(s, v, f) ==
  /\ ~Full
  /\ queue' = Append(queue, v)
  /\ accepted' = Append(accepted, v)
  /\ WakeupNext(gets, f, gets', fut')
  /\ Returns(s, "ok")
  /\ UNCHANGED <<puts, closed, received>>

\* send_nowait, run by s when the futures are in the states f.
SendNowait(s, v, f) ==
  /\ UNCHANGED <<puts, closed, received>>
  /\ \/ /\ Full
        /\ Returns(s, "ChanFull")
        /\ fut' = f
        /\ UNCHANGED <<queue, gets, accepted>>
     \/ /\ ~Full /\ closed
        /\ Returns(s, "ChanClosed")
        /\ fut' = f
        /\ UNCHANGED <<queue, gets, accepted>>
     \/ /\ ~Full /\ ~closed
        /\ queue' = Append(queue, v)
        /\ accepted' = Append(accepted, v)
        /\ WakeupNext(gets, f, gets', fut')
        /\ Returns(s, "ok")

\* Mutant of SendLoop: waits for room although the channel is closed.
SendLoopClosed(s, v, f) ==
  \/ /\ Full
     /\ fut' = [f EXCEPT ![s] = "pending"]
     /\ puts' = Append(puts, s)
     /\ UNCHANGED <<queue, gets, closed, outcome, accepted, received>>
  \/ ~Full /\ SendNowait(s, v, f)

\* The test of send's while loop: wait for room, or go on to send_nowait.
SendLoop(s, v, f) ==
  \/ /\ Full /\ ~closed
     /\ fut' = [f EXCEPT ![s] = "pending"]
     /\ puts' = Append(puts, s)
     /\ UNCHANGED <<queue, gets, closed, outcome, accepted, received>>
  \/ /\ ~(Full /\ ~closed)
     /\ SendNowait(s, v, f)

\* Mutant of RecvNowait: takes the newest item.
RecvNowaitNewest(r, f) ==
  /\ ~Empty
  /\ queue' = SubSeq(queue, 1, Len(queue) - 1)
  /\ received' = Append(received, queue[Len(queue)])
  /\ WakeupNext(puts, f, puts', fut')
  /\ Returns(r, "ok")
  /\ UNCHANGED <<gets, closed, accepted>>

\* recv_nowait, run by r when the futures are in the states f.
RecvNowait(r, f) ==
  /\ UNCHANGED <<gets, closed, accepted>>
  /\ \/ /\ Empty
        /\ Returns(r, IF closed THEN "ChanClosed" ELSE "ChanEmpty")
        /\ fut' = f
        /\ UNCHANGED <<queue, puts, received>>
     \/ /\ ~Empty
        /\ queue' = Tail(queue)
        /\ received' = Append(received, Head(queue))
        /\ WakeupNext(puts, f, puts', fut')
        /\ Returns(r, "ok")

\* The test of recv's while loop: wait for an item, or go on to recv_nowait.
RecvLoop(r, f) ==
  \/ /\ Empty /\ ~closed
     /\ fut' = [f EXCEPT ![r] = "pending"]
     /\ gets' = Append(gets, r)
     /\ UNCHANGED <<queue, puts, closed, outcome, accepted, received>>
  \/ /\ ~(Empty /\ ~closed)
     /\ RecvNowait(r, f)

-------------------------------------------------------------------------------
\* The bound on sends counts those that still wait.
MaySend == Len(accepted) + Cardinality({s \in Senders : Suspended(s)}) < MaxSends

Send(s, v) ==
  /\ ~Suspended(s)
  /\ MaySend
  /\ SendLoop(s, v, fut)
  /\ msg' = [msg EXCEPT ![s] = v]
  /\ UNCHANGED mustCancel

TrySend(s, v) ==
  /\ ~Suspended(s)
  /\ MaySend
  /\ SendNowait(s, v, fut)
  /\ UNCHANGED <<mustCancel, msg>>

Recv(r) ==
  /\ ~Suspended(r)
  /\ RecvLoop(r, fut)
  /\ UNCHANGED <<mustCancel, msg>>

TryRecv(r) ==
  /\ ~Suspended(r)
  /\ RecvNowait(r, fut)
  /\ UNCHANGED <<mustCancel, msg>>

\* Task.cancel on a waiting task: it cancels a pending future, and is otherwise
\* remembered until the task resumes.
Cancel(t) ==
  /\ \/ /\ fut[t] = "pending" /\ t \in Cancellable
        /\ Cardinality({i \in 1 .. Len(gets) : gets[i] = Dead}) < MaxDead
        /\ fut' = [fut EXCEPT ![t] = "cancelled"]
        /\ gets' = [i \in 1 .. Len(gets) |-> IF gets[i] = t THEN Dead ELSE gets[i]]
        /\ UNCHANGED mustCancel
     \/ /\ fut[t] \in {"result", "closed"} /\ t \in LateCancellable
        /\ mustCancel' = mustCancel \cup {t}
        /\ UNCHANGED <<fut, gets>>
  /\ UNCHANGED <<queue, puts, closed, msg, outcome, accepted, received>>

CancelledAtResume(t) == fut[t] = "cancelled" \/ t \in mustCancel
Awake(f, t) == [f EXCEPT ![t] = "none"]

\* Mutant of SendResumeCancelled: the wake-up it had received is dropped.
SendResumeCancelledQuietly(s) ==
  /\ CancelledAtResume(s)
  /\ puts' = Without(puts, s) /\ fut' = Awake(fut, s)
  /\ mustCancel' = mustCancel \ {s}
  /\ Returns(s, "Cancelled")
  /\ UNCHANGED <<queue, gets, closed, msg, accepted, received>>

\* send after its await: the three ways out of the try statement.
SendResumeCancelled(s) ==
  /\ CancelledAtResume(s)
  /\ IF ~Full /\ fut[s] # "cancelled"
       THEN WakeupNext(Without(puts, s), Awake(fut, s), puts', fut')
       ELSE puts' = Without(puts, s) /\ fut' = Awake(fut, s)
  /\ mustCancel' = mustCancel \ {s}
  /\ Returns(s, "Cancelled")
  /\ UNCHANGED <<queue, gets, closed, msg, accepted, received>>

SendResumeClosed(s) ==
  /\ fut[s] = "closed" /\ s \notin mustCancel
  /\ fut' = Awake(fut, s)
  /\ Returns(s, "ChanClosed")
  /\ UNCHANGED <<queue, puts, gets, closed, mustCancel, msg, accepted, received>>

SendResumeWoken(s) ==
  /\ fut[s] = "result" /\ s \notin mustCancel
  /\ SendLoop(s, msg[s], Awake(fut, s))
  /\ UNCHANGED <<mustCancel, msg>>

\* recv after its await.  Its handler catches Exception, which CancelledError is
\* not: a cancelled receiver leaves without any of the handler's clean-up.
RecvResumeCancelled(r) ==
  /\ CancelledAtResume(r)
  /\ fut' = Awake(fut, r)
  /\ mustCancel' = mustCancel \ {r}
  /\ Returns(r, "Cancelled")
  /\ UNCHANGED <<queue, puts, gets, closed, msg, accepted, received>>

RecvResumeClosed(r) ==
  /\ fut[r] = "closed" /\ r \notin mustCancel
  /\ fut' = Awake(fut, r)
  /\ Returns(r, "ChanClosed")
  /\ UNCHANGED <<queue, puts, gets, closed, mustCancel, msg, accepted, received>>

RecvResumeWoken(r) ==
  /\ fut[r] = "result" /\ r \notin mustCancel
  /\ RecvLoop(r, Awake(fut, r))
  /\ UNCHANGED <<mustCancel, msg>>

\* Mutant of Close: the receivers for whom there is an item are not woken.
CloseFailsOnly ==
  /\ closed' = TRUE
  /\ fut' = [t \in Tasks |->
       IF fut[t] = "pending"
            /\ (t \in Senders \/ \E i \in 1 .. Len(gets) : i > Len(queue) /\ gets[i] = t)
         THEN "closed" ELSE fut[t]]
  /\ gets' = <<>>
  /\ Returns(Closer, "ok")
  /\ UNCHANGED <<queue, puts, mustCancel, msg, accepted, received>>

\* close.  _puts keeps the senders it fails, so a second close finds a future
\* that is done and set_exception raises.
Close ==
  /\ closed' = TRUE
  /\ IF \E i \in 1 .. Len(puts) : fut[puts[i]] \notin {"pending", "cancelled"}
       THEN /\ Returns(Closer, "InvalidState")
            /\ UNCHANGED <<gets, fut>>
       ELSE /\ fut' = [t \in Tasks |->
                 CASE fut[t] # "pending" -> fut[t]
                   [] t \in Senders -> "closed"
                   [] \E i \in 1 .. Len(gets) : i > Len(queue) /\ gets[i] = t -> "closed"
                   [] OTHER -> "result"]
            /\ gets' = <<>>
            /\ Returns(Closer, "ok")
  /\ UNCHANGED <<queue, puts, mustCancel, msg, accepted, received>>

SendResume(s) == SendResumeCancelled(s) \/ SendResumeClosed(s) \/ SendResumeWoken(s)
RecvResume(r) == RecvResumeCancelled(r) \/ RecvResumeClosed(r) \/ RecvResumeWoken(r)

Next ==
  \/ \E s \in Senders : \/ \E v \in Values : Send(s, v) \/ TrySend(s, v)
                        \/ SendResume(s)
  \/ \E r \in Receivers : Recv(r) \/ TryRecv(r) \/ RecvResume(r)
  \/ \E t \in Tasks : Cancel(t)
  \/ Close

Spec == Init /\ [][Next]_vars

\* The event loop resumes every task whose future is done.
FairSpec ==
  /\ Spec
  /\ \A s \in Senders : WF_vars(SendResume(s))
  /\ \A r \in Receivers : WF_vars(RecvResume(r))

-------------------------------------------------------------------------------
Pending(S) == {t \in S : fut[t] = "pending"}
Woken(S)   == {t \in S : fut[t] = "result"}

\* Every value accepted is either still queued or was handed out, in the order
\* in which send_nowait appended it, whatever is cancelled and whenever the
\* channel is closed.
NothingLost == accepted = received \o queue

\* While a sender sleeps on an open channel, the woken senders are enough to
\* fill every free slot: a slot is never left free with its sender asleep, though
\* a late caller may take the slot of a woken one, and a woken one may be
\* cancelled before it resumes.
NoLostPutWakeup ==
  ~closed /\ Pending(Senders) # {} =>
    MaxSize <= Len(queue) + Cardinality(Woken(Senders))

\* While a receiver sleeps, the woken receivers are enough to take every queued
\* item.  It is what the handler in recv is there for: "if not self.empty() and
\* not g.cancelled(): self._wakeup_next(self._gets)".
NoLostGetWakeup ==
  Pending(Receivers) # {} => Len(queue) <= Cardinality(Woken(Receivers))

\* close leaves no task asleep, and none falls asleep afterwards.
ClosedWakesAll == closed => Pending(Tasks) = {}

\* Chan implements the waiter-free buffer.
Buffer == INSTANCE FifoChannel
            WITH Values <- Values, MaxSize <- MaxSize,
                 accepted <- accepted, received <- received, closed <- closed
ImplementsBuffer == Buffer!Spec

\* Once the channel is closed every waiting call returns or raises.
ClosedCallsReturn ==
  \A t \in Tasks : closed /\ Suspended(t) ~> ~Suspended(t)
===============================================================================
