-------------------------------- MODULE Worker --------------------------------
(***************************************************************************)
(* Worker of worker.py: its connection to the server with retries, the     *)
(* channel of outgoing messages, the answers to availability requests, the *)
(* wait for the assignment, the launch of the job, drain and aclose.       *)
(*                                                                         *)
(* A request is one _job_request_task.  The channel is the FIFO buffer     *)
(* that Chan implements, the process pool what PoolLife says, where a call *)
(* of launch_job may wait for ever once the pool closes.  The server is    *)
(* external: it offers jobs, assigns those that were accepted, and the     *)
(* connection may break at any time.                                       *)
(***************************************************************************)
EXTENDS Naturals, Sequences, FiniteSets

CONSTANTS Jobs,         \* the jobs the server has
          MaxRequests,  \* bound on the availability requests
          MaxBreaks,    \* bound on the connections lost or refused after ws_connect
          MaxRetry,     \* max_retry
          ChanSize,     \* capacity of _msg_chan
          Answers,      \* what request_fnc may do: "accept", "reject"
          Loads         \* whether the load may be over its threshold

ASSUME WorkerAssumption ==
  /\ Jobs # {}
  /\ MaxRequests \in Nat /\ MaxBreaks \in Nat /\ MaxRetry \in Nat
  /\ ChanSize \in Nat \ {0}
  /\ Answers \subseteq {"accept", "reject"}
  /\ Loads \subseteq BOOLEAN /\ Loads # {}

Requests == 1 .. MaxRequests

\* What the worker sends.  The status is worth nothing to the server once it is old;
\* every other message is owed to it.
Status(full) == [kind |-> "update_worker", full |-> full]
JobUpdate    == [kind |-> "update_job"]
Answer(k, r) == [kind |-> k, request |-> r]
Owed(m)      == m.kind # "update_worker"
Messages == [kind : {"update_worker"}, full : BOOLEAN] \cup {JobUpdate}
              \cup [kind : {"accept", "reject"}, request : Requests]

VARIABLES
  conn,        \* where _connection_task is
  connecting,  \* _connecting
  retry,       \* retry_count
  breaks,      \* how many connections were lost
  msgs,        \* _msg_chan
  built,       \* the status _load_task has built and waits to queue, if it found no room
  hand,        \* the message _send_task has taken and not sent yet
  down,        \* what the server has sent and _recv_task has not received
  requests,    \* how many availability requests were received
  job,         \* the job of each request
  req,         \* where the task of each request is
  pending,     \* the request whose future _pending_assignments has for a job, or 0
  reports,     \* the _update_job_status tasks that have not queued their message
  drain,       \* where drain is: "no", "telling" the server, "told"
  closing,     \* where aclose is
  offers,      \* external: how many availability requests the server sent
  accepted,    \* external: the requests whose acceptance the server has and not used
  assigned,    \* history: how often each job was assigned to the worker
  full,        \* external: the worker is full, as far as the server knows
  owing        \* history: how many of the messages owed were queued and not sent

connVars   == <<conn, connecting, retry, breaks, built>>
reqVars    == <<requests, job, req, pending>>
serverVars == <<offers, accepted, assigned, full>>
vars == <<connVars, msgs, hand, down, reqVars, reports, drain, closing, serverVars, owing>>

None == [kind |-> "none"]
ServerMessages == [kind : {"availability", "assignment", "termination"}, job : Jobs]

TypeOK ==
  /\ conn \in {"connecting", "running", "sleeping", "failed", "cancelled"}
  /\ connecting \in BOOLEAN
  /\ retry \in 0 .. MaxRetry + 1 /\ breaks \in 0 .. MaxBreaks
  /\ msgs \in Seq(Messages) /\ Len(msgs) <= ChanSize
  /\ hand \in Messages \cup {None}
  /\ built \in {Status(TRUE), Status(FALSE), None}
  /\ down \in Seq(ServerMessages)
  /\ requests \in 0 .. MaxRequests
  /\ job \in [Requests -> Jobs]
  /\ req \in [Requests -> {"none", "asked", "accepting", "rejecting", "waiting", "assigned",
                           "launching", "running", "ended", "timeout", "rejected"}]
  /\ pending \in [Jobs -> 0 .. MaxRequests]
  /\ reports \in 0 .. 2 * MaxRequests
  /\ drain \in {"no", "telling", "told"}
  /\ closing \in {"no", "pool", "tasks", "closed"}
  /\ offers \in 0 .. MaxRequests
  /\ accepted \subseteq Requests
  /\ assigned \in [Jobs -> 0 .. MaxRequests]
  /\ full \in BOOLEAN
  /\ owing \in Nat

\* run has started the pool and _connection_task.
Init ==
  /\ conn = "connecting" /\ connecting = TRUE /\ retry = 0 /\ breaks = 0
  /\ msgs = <<>> /\ built = None /\ hand = None /\ down = <<>>
  /\ requests = 0
  /\ job = [r \in Requests |-> CHOOSE j \in Jobs : TRUE]   \* until it is received
  /\ req = [r \in Requests |-> "none"]
  /\ pending = [j \in Jobs |-> 0]
  /\ reports = 0
  /\ drain = "no" /\ closing = "no"
  /\ offers = 0 /\ accepted = {} /\ assigned = [j \in Jobs |-> 0]
  /\ full = FALSE
  /\ owing = 0

-------------------------------------------------------------------------------
draining == drain # "no"   \* _draining

Room == Len(msgs) < ChanSize

\* Chan.send when there is room; a task that finds none waits for it.
Queue(m) ==
  /\ Room
  /\ msgs' = Append(msgs, m)
  /\ owing' = IF Owed(m) THEN owing + 1 ELSE owing

\* The _load_task sends a status.
Tells(status) ==
  \/ Queue(status) /\ UNCHANGED built
  \/ ~Room /\ built' = status /\ UNCHANGED <<msgs, owing>>

\* The connection is lost, with what _send_task had in hand, the status _load_task could not
\* queue, and what was on its way.
Hangs == /\ hand' = None /\ built' = None /\ down' = <<>> /\ accepted' = {}

\* The except branch of _connection_task, with the retry_count it finds.
Retries(count) ==
  IF count >= MaxRetry
    THEN conn' = "failed" /\ retry' = count
    ELSE conn' = "sleeping" /\ retry' = count + 1

\* ws_connect succeeds and the server registers the worker.
Registers ==
  /\ conn = "connecting"
  /\ conn' = "running" /\ connecting' = FALSE /\ retry' = 0
  /\ full' = FALSE
  /\ UNCHANGED <<breaks, built, msgs, hand, down, reqVars, reports, drain, closing, offers,
                 accepted, assigned, owing>>

ConnectFails ==
  /\ conn = "connecting"
  /\ Retries(retry)
  /\ UNCHANGED <<connecting, breaks, built, msgs, hand, down, reqVars, reports, drain, closing,
                 serverVars, owing>>

\* ws_connect succeeds, which resets retry_count, but the registration fails.
RegistrationFails ==
  /\ conn = "connecting" /\ breaks < MaxBreaks
  /\ breaks' = breaks + 1
  /\ Retries(0)
  /\ UNCHANGED <<connecting, built, msgs, hand, down, reqVars, reports, drain, closing,
                 serverVars, owing>>

\* Mutant of ConnectionBreaks: the next connection starts with an empty channel.
ConnectionBreaksClean ==
  /\ conn = "running" /\ breaks < MaxBreaks
  /\ breaks' = breaks + 1
  /\ Retries(retry)
  /\ Hangs
  /\ msgs' = <<>>
  /\ UNCHANGED <<connecting, reqVars, reports, drain, closing, offers, assigned, full, owing>>

\* _recv_task or _send_task fails: the three tasks of _run_ws are cancelled.
ConnectionBreaks ==
  /\ conn = "running" /\ breaks < MaxBreaks
  /\ breaks' = breaks + 1
  /\ Retries(retry)
  /\ Hangs
  /\ UNCHANGED <<connecting, msgs, reqVars, reports, drain, closing, offers, assigned, full,
                 owing>>

RetryDelayEnds ==
  /\ conn = "sleeping"
  /\ conn' = "connecting" /\ connecting' = TRUE
  /\ UNCHANGED <<retry, breaks, built, msgs, hand, down, reqVars, reports, drain, closing,
                 serverVars, owing>>

\* _send_task takes a message, and sends it.
SendTakes ==
  /\ conn = "running" /\ hand = None /\ msgs # <<>>
  /\ hand' = Head(msgs) /\ msgs' = Tail(msgs)
  /\ UNCHANGED <<connVars, down, reqVars, reports, drain, closing, serverVars, owing>>

SendArrives ==
  /\ conn = "running" /\ hand # None
  /\ hand' = None
  /\ accepted' = IF hand.kind = "accept" THEN accepted \cup {hand.request} ELSE accepted
  /\ full' = IF hand.kind = "update_worker" THEN hand.full ELSE full
  /\ owing' = IF Owed(hand) THEN owing - 1 ELSE owing
  /\ UNCHANGED <<connVars, msgs, down, reqVars, reports, drain, closing, offers, assigned>>

\* Mutant of StatusTick: the status does not say that the worker drains.
StatusTickOfLoad ==
  /\ conn = "running" /\ built = None
  /\ \E busy \in Loads : Tells(Status(busy))
  /\ UNCHANGED <<conn, connecting, retry, breaks, hand, down, reqVars, reports, drain, closing,
                 serverVars>>

\* The _load_task of _run_ws builds a status, full if the worker drains or its load is over
\* the threshold, and queues it, or waits for room with what it has built,
StatusTick ==
  /\ conn = "running" /\ built = None
  /\ \E busy \in (IF draining THEN {TRUE} ELSE Loads) : Tells(Status(busy))
  /\ UNCHANGED <<conn, connecting, retry, breaks, hand, down, reqVars, reports, drain, closing,
                 serverVars>>

\* which may be long after drain has begun.
StatusQueued ==
  /\ built # None
  /\ Queue(built)
  /\ built' = None
  /\ UNCHANGED <<conn, connecting, retry, breaks, hand, down, reqVars, reports, drain, closing,
                 serverVars>>

-------------------------------------------------------------------------------
\* The server offers a job (again, perhaps), assigns one whose acceptance it has, or
\* terminates one.
Sends(kind, j) == down' = Append(down, [kind |-> kind, job |-> j])

ServerOffers(j) ==
  /\ conn = "running" /\ offers < MaxRequests
  /\ offers' = offers + 1
  /\ Sends("availability", j)
  /\ UNCHANGED <<connVars, msgs, hand, reqVars, reports, drain, closing, accepted, assigned,
                 full, owing>>

ServerAssigns(r) ==
  /\ conn = "running" /\ r \in accepted
  /\ accepted' = accepted \ {r}
  /\ assigned' = [assigned EXCEPT ![job[r]] = @ + 1]
  /\ Sends("assignment", job[r])
  /\ UNCHANGED <<connVars, msgs, hand, reqVars, reports, drain, closing, offers, full, owing>>

ServerTerminates(r) ==
  /\ conn = "running" /\ req[r] = "running"
  /\ \A i \in 1 .. Len(down) : down[i] # [kind |-> "termination", job |-> job[r]]
  /\ Sends("termination", job[r])
  /\ UNCHANGED <<connVars, msgs, hand, reqVars, reports, drain, closing, serverVars, owing>>

-------------------------------------------------------------------------------
\* _recv_task receives the next message: _handle_availability starts a task that asks
\* request_fnc,
ReceiveOffer(m) ==
  /\ m.kind = "availability"
  /\ requests' = requests + 1
  /\ job' = [job EXCEPT ![requests'] = m.job]
  /\ req' = [req EXCEPT ![requests'] = "asked"]
  /\ UNCHANGED <<pending, reports>>

\* Mutant of ReceiveAssignment: the requests for one job share the assignment.
ReceiveAssignmentShared(m) ==
  /\ m.kind = "assignment"
  /\ pending' = [pending EXCEPT ![m.job] = 0]
  /\ req' = [r \in Requests |->
               IF job[r] = m.job /\ req[r] = "waiting" THEN "assigned" ELSE req[r]]
  /\ UNCHANGED <<requests, job, reports>>

\* _handle_assignment resolves the future of the last request accepted for the job, which
\* may have timed out; an assignment of an unknown job is dropped,
ReceiveAssignment(m) ==
  /\ m.kind = "assignment"
  /\ pending' = [pending EXCEPT ![m.job] = 0]
  /\ req' = [r \in Requests |->
               IF pending[m.job] = r /\ req[r] = "waiting" THEN "assigned" ELSE req[r]]
  /\ UNCHANGED <<requests, job, reports>>

\* and _handle_termination closes the process of the job.
ReceiveTermination(m) ==
  /\ m.kind = "termination"
  /\ \/ \E r \in Requests :
          /\ job[r] = m.job /\ req[r] = "running"
          /\ req' = [req EXCEPT ![r] = "ended"]
          /\ reports' = reports + 1
     \/ /\ \A r \in Requests : ~(job[r] = m.job /\ req[r] = "running")
        /\ UNCHANGED <<req, reports>>
  /\ UNCHANGED <<requests, job, pending>>

Receive ==
  /\ conn = "running" /\ down # <<>>
  /\ down' = Tail(down)
  /\ \/ ReceiveOffer(Head(down))
     \/ ReceiveAssignment(Head(down))
     \/ ReceiveTermination(Head(down))
  /\ UNCHANGED <<connVars, msgs, hand, drain, closing, serverVars, owing>>

-------------------------------------------------------------------------------
RequestMoves(r, from, to) ==
  /\ req[r] = from
  /\ req' = [req EXCEPT ![r] = to]
  /\ UNCHANGED <<requests, job>>

\* request_fnc accepts the job, or it rejects it, fails or returns without an answer.
RequestAnswers(r) ==
  /\ \/ "accept" \in Answers /\ RequestMoves(r, "asked", "accepting")
     \/ "reject" \in Answers /\ RequestMoves(r, "asked", "rejecting")
  /\ UNCHANGED <<connVars, msgs, hand, down, pending, reports, drain, closing, serverVars, owing>>

\* _on_accept: send returns without suspending once there is room, so the future is
\* registered in the same step.
Accept(r) ==
  /\ RequestMoves(r, "accepting", "waiting")
  /\ Queue(Answer("accept", r))
  /\ pending' = [pending EXCEPT ![job[r]] = r]
  /\ UNCHANGED <<connVars, hand, down, reports, drain, closing, serverVars>>

Reject(r) ==
  /\ RequestMoves(r, "rejecting", "rejected")
  /\ Queue(Answer("reject", r))
  /\ UNCHANGED <<connVars, hand, down, pending, reports, drain, closing, serverVars>>

\* Mutant of AssignmentTimeout: only an assignment that comes too late times out.
AssignmentTimeoutLate(r) ==
  /\ RequestMoves(r, "assigned", "timeout")
  /\ UNCHANGED <<connVars, msgs, hand, down, pending, reports, drain, closing, serverVars, owing>>

\* ASSIGNMENT_TIMEOUT: the entry of _pending_assignments stays.  The wait_for of recent
\* Python versions times out although the future has just been resolved.
AssignmentTimeout(r) ==
  /\ \/ RequestMoves(r, "waiting", "timeout")
     \/ RequestMoves(r, "assigned", "timeout")
  /\ UNCHANGED <<connVars, msgs, hand, down, pending, reports, drain, closing, serverVars, owing>>

\* launch_job of the pool is called, whatever the state of the worker is,
LaunchStarts(r) ==
  /\ RequestMoves(r, "assigned", "launching")
  /\ UNCHANGED <<connVars, msgs, hand, down, pending, reports, drain, closing, serverVars, owing>>

\* and finds a process unless the pool is closed; process_job_launched starts a report.
Launched(r) ==
  /\ closing \in {"no", "pool"}
  /\ RequestMoves(r, "launching", "running")
  /\ reports' = reports + 1
  /\ UNCHANGED <<connVars, msgs, hand, down, pending, drain, closing, serverVars, owing>>

\* The warmed process is dead: launch_job raises, which ends the request, and process_closed
\* reports the job if the process had not been given up before.
LaunchLost(r) ==
  /\ RequestMoves(r, "launching", "ended")
  /\ reports' \in {reports, reports + 1}
  /\ UNCHANGED <<connVars, msgs, hand, down, pending, drain, closing, serverVars, owing>>

\* The process of the job is closed, by itself or by aclose of the pool.
JobEnds(r) ==
  /\ RequestMoves(r, "running", "ended")
  /\ reports' = reports + 1
  /\ UNCHANGED <<connVars, msgs, hand, down, pending, drain, closing, serverVars, owing>>

\* _update_job_status
PutReport ==
  /\ reports > 0
  /\ reports' = reports - 1
  /\ Queue(JobUpdate)
  /\ UNCHANGED <<connVars, hand, down, reqVars, drain, closing, serverVars>>

-------------------------------------------------------------------------------
\* _queue_msg drops the status if the worker is connecting, queues it, or waits for room,
DrainBegins ==
  /\ drain = "no" /\ closing = "no"
  /\ \/ connecting /\ drain' = "told" /\ UNCHANGED <<msgs, owing>>
     \/ ~connecting /\ Queue(Status(TRUE)) /\ drain' = "told"
     \/ ~connecting /\ ~Room /\ drain' = "telling" /\ UNCHANGED <<msgs, owing>>
  /\ UNCHANGED <<connVars, hand, down, reqVars, reports, closing, serverVars>>

\* and then queues it, whatever became of the connection.
DrainTells ==
  /\ drain = "telling"
  /\ Queue(Status(TRUE))
  /\ drain' = "told"
  /\ UNCHANGED <<connVars, hand, down, reqVars, reports, closing, serverVars>>

\* Mutant of AcloseBegins: the connection is left to end by itself.
AcloseBeginsConnected ==
  /\ closing = "no" /\ drain # "telling"
  /\ closing' = "pool"
  /\ Hangs
  /\ UNCHANGED <<conn, connecting, retry, breaks, msgs, reqVars, reports, drain, offers,
                 assigned, full, owing>>

\* aclose, after drain if there was one: it cancels the connection, with the message in
\* hand and what was on its way, then closes the pool,
AcloseBegins ==
  /\ closing = "no" /\ drain # "telling"
  /\ closing' = "pool"
  /\ conn' = IF conn = "failed" THEN "failed" ELSE "cancelled"
  /\ Hangs
  /\ UNCHANGED <<connecting, retry, breaks, msgs, reqVars, reports, drain, offers, assigned,
                 full, owing>>

\* which waits for the running jobs,
PoolClosed ==
  /\ closing = "pool"
  /\ \A r \in Requests : req[r] # "running"
  /\ closing' = "tasks"
  /\ UNCHANGED <<connVars, msgs, hand, down, reqVars, reports, drain, serverVars, owing>>

TaskOver(r) == req[r] \in {"none", "running", "ended", "timeout", "rejected"}

\* and waits for every task, and for run to end.
AcloseEnds ==
  /\ closing = "tasks"
  /\ reports = 0 /\ \A r \in Requests : TaskOver(r)
  /\ conn \in {"failed", "cancelled"}
  /\ closing' = "closed"
  /\ UNCHANGED <<connVars, msgs, hand, down, reqVars, reports, drain, serverVars, owing>>

-------------------------------------------------------------------------------
\* The steps the worker takes by itself.
RequestRuns(r) ==
  \/ RequestAnswers(r) \/ Accept(r) \/ Reject(r)
  \/ AssignmentTimeout(r) \/ LaunchStarts(r)
  \/ closing = "no" /\ Launched(r)
  \/ closing = "pool" /\ JobEnds(r)

Runs ==
  \/ Registers \/ RetryDelayEnds \/ Receive
  \/ \E r \in Requests : RequestRuns(r)
  \/ PutReport
  \/ DrainTells \/ PoolClosed \/ AcloseEnds

\* What _run_ws repeats for as long as the connection lasts.
Sending  == SendTakes \/ SendArrives
Updating == StatusTick \/ StatusQueued

\* What the network, the server, the processes, the jobs and the program do.
Environment ==
  \/ ConnectFails \/ RegistrationFails \/ ConnectionBreaks
  \/ \E j \in Jobs : ServerOffers(j)
  \/ \E r \in Requests : ServerAssigns(r) \/ ServerTerminates(r)
                         \/ Launched(r) \/ LaunchLost(r) \/ JobEnds(r)
  \/ DrainBegins \/ AcloseBegins

Next == Runs \/ Sending \/ Updating \/ Environment

Spec == Init /\ [][Next]_vars

\* The event loop runs whatever is ready and the timers fire.  What the worker sends for as
\* long as a connection lasts can take the room from a task that waits for it, but not again
\* and again: Chan wakes the waiting senders in their order, and a status is built only once
\* per interval.  Between two steps of the environment, which are finitely many, all other
\* tasks take finitely many steps, so each of them gets its turn.
FairSpec == Spec /\ SF_vars(Runs) /\ WF_vars(Sending) /\ WF_vars(Updating)
-------------------------------------------------------------------------------
\* A job is launched only by a request that was assigned: never more launches of a job
\* than assignments the server sent, whatever times out, is offered twice or arrives late.
LaunchNeedsAssignment ==
  \A j \in Jobs :
    Cardinality({r \in Requests :
                   job[r] = j /\ req[r] \in {"assigned", "launching", "running", "ended"}})
      <= assigned[j]

OwedIn(s) == Cardinality({i \in 1 .. Len(s) : Owed(s[i])})

\* Answers and job updates outlive a reconnection: of all that was queued, only what
\* _send_task had in hand when a connection ended is neither sent nor still queued.
OnlyInHandIsLost ==
  LET kept == OwedIn(msgs) + (IF hand # None /\ Owed(hand) THEN 1 ELSE 0)
      ends == breaks + (IF closing = "no" THEN 0 ELSE 1)
  IN  owing - kept \in 0 .. ends

\* As long as the worker is neither closed nor out of retries, a job that was offered is
\* answered, and the request that accepted it ends with a launch or a timeout, across
\* full channels and lost connections: no task of a request is left waiting for ever.
Unavailable == conn = "failed" \/ closing # "no"
RequestEnds == <>[](Unavailable \/ \A r \in Requests : TaskOver(r))

\* A worker that drains is full for the server in the end and remains so, even when the
\* first status was dropped or lost, when a new connection or a status that was built before
\* drain, and queued or blocked for room since, makes it available again.
ServerLearnsDrain == <>[](draining => full \/ Unavailable)

\* aclose returns, unless a task waits for room in the channel nobody empties any more or
\* a request waits for a process of the closed pool.
Blocked ==
  \/ ~Room /\ (reports > 0 \/ \E r \in Requests : req[r] \in {"accepting", "rejecting"})
  \/ \E r \in Requests : req[r] = "launching"
AcloseReturns == <>[](closing \in {"no", "closed"} \/ Blocked)

===============================================================================
