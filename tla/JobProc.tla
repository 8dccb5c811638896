-------------------------------- MODULE JobProc --------------------------------
(***************************************************************************)
(* A job process and the executor that supervises it: SupervisedProc of    *)
(* ipc/supervised_proc.py and ProcJobExecutor of ipc/job_proc_executor.py  *)
(* in the worker, _ProcClient of ipc/proc_client.py and _JobProc of        *)
(* ipc/job_proc_lazy_main.py in the child, and the messages between them.  *)
(*                                                                         *)
(* start() has returned.  Ping and pong are abstracted to what their two   *)
(* timers do, and tracing is left out.  The pool (ProcPool) is the caller: *)
(* it calls initialize once, launch_job once if that returned, and aclose. *)
(***************************************************************************)
EXTENDS Naturals, Sequences

CONSTANTS MaxAsks,     \* bound on the inference requests of the job
          MaxFailures  \* bound on crashes, hangs, kills, lost answers and failures of the room

ASSUME JobProcAssumption == MaxAsks \in Nat /\ MaxFailures \in Nat

VARIABLES
  worker,    \* whether the worker lives
  init,      \* where initialize() is
  initFut,   \* _initialize_fut
  sup,       \* where _supervise_task is
  closing,   \* where aclose() is
  launched,  \* _running_job: whether launch_job was called, and whether aclose had been
  toChild,   \* the messages to the child
  answer,    \* the InitializeResponse on its way
  child,     \* the process; it exited with code 0, or it died
  stuck,     \* its event loop hangs
  job,       \* where the _job_task of the child is
  asked,     \* where the inference request of the job is
  asks, failures,
  starved    \* history: the health check of the child ended it

procVars  == <<init, initFut, sup, closing, launched>>
childVars == <<child, stuck, job, starved>>
vars == <<worker, procVars, toChild, answer, childVars, asked, asks, failures>>

TypeOK ==
  /\ worker \in BOOLEAN /\ stuck \in BOOLEAN /\ starved \in BOOLEAN
  /\ init \in {"new", "waiting", "unsent", "returned", "raised"}
  /\ initFut \in {"pending", "ok", "failed"}
  /\ sup \in {"initializing", "serving", "over"}
  /\ closing \in {"no", "timed", "waiting", "returned"}
  /\ launched \in {"no", "launched", "late"}
  /\ toChild \in Seq({"init", "start", "shutdown", "answer"})
  /\ answer \in {"none", "ready", "error"}
  /\ child \in {"booting", "initializing", "serving", "exited", "died"}
  /\ job \in {"none", "running", "stopping", "cleaning", "over", "raised", "broken", "cut"}
  /\ asked \in {"no", "sent", "working", "answered", "lost"}
  /\ asks \in 0 .. MaxAsks /\ failures \in 0 .. MaxFailures

Init ==
  /\ worker = TRUE
  /\ init = "new" /\ initFut = "pending" /\ sup = "initializing"
  /\ closing = "no" /\ launched = "no"
  /\ toChild = <<>> /\ answer = "none"
  /\ child = "booting" /\ stuck = FALSE /\ job = "none"
  /\ asked = "no" /\ asks = 0 /\ failures = 0 /\ starved = FALSE

-------------------------------------------------------------------------------
Alive == child \notin {"exited", "died"}

\* asend_message: the message to a process that is gone is lost.
Send(m) == toChild' = IF Alive THEN Append(toChild, m) ELSE toChild

\* What a job is left as when its process ends before it.
CutOff == job' = IF job \in {"none", "over", "raised", "broken"} THEN job ELSE "cut"

\* _send_kill_signal
Kill ==
  \/ Alive /\ child' = "died" /\ CutOff
  \/ ~Alive /\ UNCHANGED <<child, job>>

Fails == failures < MaxFailures /\ failures' = failures + 1

-------------------------------------------------------------------------------
\* initialize() up to the wait for the answer.  The request is sent outside the try: if the
\* process is known to be gone, DuplexClosed leaves _initialize_fut pending.
Initialize ==
  /\ worker /\ init = "new"
  /\ \/ init' = "waiting"
     \/ ~Alive /\ init' = "unsent"
  /\ Send("init")
  /\ UNCHANGED <<worker, initFut, sup, closing, launched, answer, childVars, asked, asks, failures>>

\* The answer, or the end of the channel.
InitEnds ==
  /\ worker /\ init = "waiting"
  /\ answer # "none" \/ ~Alive
  /\ init' = IF answer = "ready" THEN "returned" ELSE "raised"
  /\ initFut' = IF answer = "ready" THEN "ok" ELSE "failed"
  /\ answer' = "none"
  /\ UNCHANGED <<worker, sup, closing, launched, toChild, childVars, asked, asks, failures>>

InitTimeout ==
  /\ worker /\ init = "waiting"
  /\ init' = "raised" /\ initFut' = "failed"
  /\ Kill
  /\ UNCHANGED <<worker, sup, closing, launched, toChild, answer, stuck, starved, asked, asks,
                 failures>>

\* _supervise_task starts the tasks that read, ping and watch the process,
SupServes ==
  /\ worker /\ sup = "initializing" /\ initFut # "pending"
  /\ sup' = "serving"
  /\ UNCHANGED <<worker, init, initFut, closing, launched, toChild, answer, childVars, asked,
                 asks, failures>>

\* and ends with the process; _main_task cancels the inference tasks.
SupEnds ==
  /\ worker /\ sup = "serving" /\ ~Alive
  /\ sup' = "over"
  /\ asked' = IF asked = "working" THEN "lost" ELSE asked
  /\ UNCHANGED <<worker, init, initFut, closing, launched, toChild, answer, childVars, asks,
                 failures>>

\* status, once _supervise_task has set it.
Succeeded == sup = "over" /\ child = "exited"

\* No pong comes from a process that hangs; a process that answers resets the timer.
PongTimeout ==
  /\ worker /\ sup = "serving" /\ stuck
  /\ Alive /\ Kill
  /\ UNCHANGED <<worker, procVars, toChild, answer, stuck, starved, asked, asks, failures>>

\* The memory monitor finds the process over its limit.
MemoryKill ==
  /\ worker /\ sup = "serving" /\ closing = "no"
  /\ Alive /\ Kill
  /\ Fails
  /\ UNCHANGED <<worker, procVars, toChild, answer, stuck, starved, asked, asks>>

LaunchJob ==
  /\ worker /\ init = "returned" /\ launched = "no"
  /\ launched' = IF closing = "no" THEN "launched" ELSE "late"
  /\ Send("start")
  /\ UNCHANGED <<worker, init, initFut, sup, closing, answer, childVars, asked, asks, failures>>

Aclose ==
  /\ worker /\ closing = "no"
  /\ closing' = "timed"
  /\ Send("shutdown")
  /\ UNCHANGED <<worker, init, initFut, sup, launched, answer, childVars, asked, asks, failures>>

\* Mutant of AcloseTimeout: the process is not killed.
AcloseTimeoutWaits ==
  /\ worker /\ closing = "timed" /\ sup # "over"
  /\ closing' = "waiting"
  /\ UNCHANGED <<worker, init, initFut, sup, launched, toChild, answer, childVars, asked, asks,
                 failures>>

\* close_timeout is over.
AcloseTimeout ==
  /\ worker /\ closing = "timed" /\ sup # "over"
  /\ closing' = "waiting"
  /\ Kill
  /\ UNCHANGED <<worker, init, initFut, sup, launched, toChild, answer, stuck, starved, asked,
                 asks, failures>>

AcloseReturns ==
  /\ worker /\ closing \in {"timed", "waiting"} /\ sup = "over"
  /\ closing' = "returned"
  /\ UNCHANGED <<worker, init, initFut, sup, launched, toChild, answer, childVars, asked, asks,
                 failures>>

\* _main_task of the executor starts _do_inference_task,
InferenceStarts ==
  /\ worker /\ sup = "serving" /\ asked = "sent"
  /\ asked' = "working"
  /\ UNCHANGED <<worker, procVars, toChild, answer, childVars, asks, failures>>

\* Mutant of InferenceEnds: an inference that raises is not answered.
InferenceEndsSilently ==
  /\ worker /\ sup = "serving" /\ asked = "working"
  /\ asked' = "answered"
  /\ Send("answer") \/ UNCHANGED toChild
  /\ UNCHANGED <<worker, procVars, answer, childVars, asks, failures>>

\* which answers with the result or the error,
InferenceEnds ==
  /\ worker /\ sup = "serving" /\ asked = "working"
  /\ asked' = "answered"
  /\ Send("answer")
  /\ UNCHANGED <<worker, procVars, answer, childVars, asks, failures>>

\* unless the inference process is gone: do_inference waits for its answer for ever.
InferenceLost ==
  /\ worker /\ asked = "working"
  /\ asked' = "lost"
  /\ Fails
  /\ UNCHANGED <<worker, procVars, toChild, answer, childVars, asks>>

-------------------------------------------------------------------------------
\* _ProcClient.initialize reads the first message, which must be the InitializeRequest.
ClientReads ==
  /\ child = "booting" /\ ~stuck /\ toChild # <<>>
  /\ child' = IF Head(toChild) = "init" THEN "initializing" ELSE "exited"
  /\ toChild' = Tail(toChild)
  /\ UNCHANGED <<worker, procVars, answer, stuck, job, starved, asked, asks, failures>>

\* initialize_process_fnc returns or raises; without a worker the answer cannot be sent.
ClientInitializes ==
  /\ child = "initializing" /\ ~stuck
  /\ \/ /\ worker
        /\ \/ answer' = "ready" /\ child' = "serving"
           \/ answer' = "error" /\ child' = "exited"
     \/ /\ ~worker
        /\ child' = "exited"
        /\ UNCHANGED answer
  /\ UNCHANGED <<worker, procVars, toChild, stuck, job, starved, asked, asks, failures>>

\* Mutant of ChildReads: ShutdownRequest ends the process also while a job runs.
ChildReadsExits ==
  /\ child = "serving" /\ ~stuck /\ toChild # <<>>
  /\ toChild' = Tail(toChild)
  /\ job' = IF Head(toChild) = "start" /\ job = "none" THEN "running" ELSE job
  /\ child' = IF Head(toChild) = "shutdown" THEN "exited" ELSE child
  /\ asked' = IF Head(toChild) = "answer" THEN "no" ELSE asked
  /\ UNCHANGED <<worker, procVars, answer, stuck, starved, asks, failures>>

\* _read_ipc_task of _JobProc.  A request to shut down ends a process that has no job, and
\* resolves _shutdown_fut of one that has.
ChildReads ==
  /\ child = "serving" /\ ~stuck /\ toChild # <<>>
  /\ toChild' = Tail(toChild)
  /\ LET m == Head(toChild) IN
     /\ job' = CASE m = "start" /\ job = "none"       -> "running"
                 [] m = "shutdown" /\ job = "running" -> "stopping"
                 [] OTHER                             -> job
     /\ child' = IF m = "shutdown" /\ job = "none" THEN "exited" ELSE child
     /\ asked' = IF m = "answer" THEN "no" ELSE asked
  /\ UNCHANGED <<worker, procVars, answer, stuck, starved, asks, failures>>

\* The channel ends with the worker, and the child with the channel, whatever its job does.
ChildIsOrphan ==
  /\ child \in {"booting", "serving"} /\ ~stuck
  /\ ~worker /\ toChild = <<>>
  /\ child' = "exited" /\ CutOff
  /\ UNCHANGED <<worker, procVars, toChild, answer, stuck, starved, asked, asks, failures>>

\* _self_health_check: no message came for ping_timeout, although the worker lives.
HealthCheck ==
  /\ child = "serving" /\ ~stuck /\ worker
  /\ Fails
  /\ child' = "exited" /\ CutOff
  /\ starved' = TRUE
  /\ UNCHANGED <<worker, procVars, toChild, answer, stuck, asked, asks>>

\* The job shuts itself down, or its room is disconnected.
JobShutsDown ==
  /\ child = "serving" /\ ~stuck /\ job = "running"
  /\ job' = "stopping"
  /\ UNCHANGED <<worker, procVars, toChild, answer, child, stuck, starved, asked, asks, failures>>

\* Exiting is sent, which raises without a worker, and the room is disconnected.
JobStops ==
  /\ child = "serving" /\ ~stuck /\ job = "stopping"
  /\ job' = IF worker THEN "cleaning" ELSE "cut"
  /\ child' = IF worker THEN child ELSE "exited"
  /\ UNCHANGED <<worker, procVars, toChild, answer, stuck, starved, asked, asks, failures>>

\* Both stand outside the try: if the disconnect raises, _job_task ends, and the process with
\* it, before any shutdown callback has been called.
JobBreaks ==
  /\ child = "serving" /\ ~stuck /\ job = "stopping" /\ worker
  /\ Fails
  /\ job' = "broken" /\ child' = "exited"
  /\ UNCHANGED <<worker, procVars, toChild, answer, stuck, starved, asked, asks>>

\* Mutant of JobCleans: the process stays.
JobCleansOnly ==
  /\ child = "serving" /\ ~stuck /\ job = "cleaning"
  /\ job' \in {"over", "raised"}
  /\ UNCHANGED <<worker, procVars, toChild, answer, child, stuck, starved, asked, asks, failures>>

\* The shutdown callbacks finish, or one raises, and the others are no longer waited for; the
\* end of _job_task ends the process.
JobCleans ==
  /\ child = "serving" /\ ~stuck /\ job = "cleaning"
  /\ job' \in {"over", "raised"}
  /\ child' = "exited"
  /\ UNCHANGED <<worker, procVars, toChild, answer, stuck, starved, asked, asks, failures>>

\* do_inference of the job: the request is sent and registered.
JobAsks ==
  /\ child = "serving" /\ ~stuck /\ worker
  /\ job \in {"running", "stopping", "cleaning"} /\ asked = "no" /\ asks < MaxAsks
  /\ asked' = "sent" /\ asks' = asks + 1
  /\ UNCHANGED <<worker, procVars, toChild, answer, childVars, failures>>

-------------------------------------------------------------------------------
Crash ==
  /\ Alive /\ Fails
  /\ Kill
  /\ UNCHANGED <<worker, procVars, toChild, answer, stuck, starved, asked, asks>>

Hang ==
  /\ Alive /\ ~stuck /\ Fails
  /\ stuck' = TRUE
  /\ UNCHANGED <<worker, procVars, toChild, answer, child, job, starved, asked, asks>>

WorkerDies ==
  /\ worker /\ Fails
  /\ worker' = FALSE
  /\ UNCHANGED <<procVars, toChild, answer, childVars, asked, asks>>

-------------------------------------------------------------------------------
Runs ==
  \/ Initialize \/ InitEnds \/ InitTimeout
  \/ SupServes \/ SupEnds \/ PongTimeout
  \/ AcloseTimeout \/ AcloseReturns
  \/ InferenceStarts \/ InferenceEnds
  \/ ClientReads \/ ClientInitializes \/ ChildReads \/ ChildIsOrphan
  \/ JobStops

Next ==
  \/ Runs
  \/ LaunchJob \/ Aclose \/ MemoryKill \/ InferenceLost \/ HealthCheck
  \/ JobShutsDown \/ JobBreaks \/ JobCleans \/ JobAsks
  \/ Crash \/ Hang \/ WorkerDies

Spec == Init /\ [][Next]_vars

\* Ready tasks run and timers fire.  The job and its shutdown callbacks are user code that may
\* never end.  Every step uses up a message, a bound or a state that does not come back, so
\* no step can starve another.
FairSpec == Spec /\ WF_vars(Runs)

-------------------------------------------------------------------------------
\* The process keeps what the pool relies on (ProcLife): whatever crashes, hangs or times
\* out, initialize comes to one end at most, a process that is gone stays gone, and the job
\* runs only after a successful initialization and ends exactly with its process.
Self == "self"
Initialized ==
  CASE init \in {"new", "waiting"} -> "pending" [] init = "returned" -> "ready"
    [] init = "raised" -> "failed" [] OTHER -> "unsent"
Work ==
  IF launched = "no" THEN "none"
  ELSE IF Alive /\ job \notin {"over", "raised", "broken", "cut"} THEN "running" ELSE "over"
Life == INSTANCE ProcLife
          WITH Processes <- {Self}, up <- IF Alive THEN {Self} ELSE {},
               init <- [p \in {Self} |-> Initialized], work <- [p \in {Self} |-> Work]
KeepsProcLife == Life!Spec

\* A job whose status is SUCCESS ran until its shutdown callbacks were done or one raised,
\* except in three cases, in which the process exits with code 0 as well: the job was launched
\* on a process that was already being closed, the child missed the pings of a slow worker, or
\* its room could not be disconnected.
SuccessMeansCleanedUp ==
  Succeeded /\ launched # "no" =>
    job \in {"over", "raised"} \/ launched = "late" \/ starved \/ job = "broken"

\* However the process ends, and whatever initialize did, aclose returns, unless the process
\* was gone before the InitializeRequest could be sent: then nothing resolves the future for
\* which _supervise_task waits.  And a process that does not hang never outlives its worker.
ProcessEnds ==
  /\ closing = "timed" ~> closing = "returned" \/ init = "unsent" \/ ~worker
  /\ ~Alive ~> sup = "over" \/ init = "unsent" \/ ~worker
  /\ ~worker ~> ~Alive \/ stuck

\* An inference that the job asked for is answered, also when it fails, as long as the worker,
\* the job process and the inference process last.
InferenceAnswered ==
  asked = "sent" ~> asked \in {"no", "lost"} \/ ~Alive \/ ~worker
===============================================================================
