------------------------------- MODULE ProcPool -------------------------------
(***************************************************************************)
(* ProcPool of ipc/proc_pool.py: the pool of job processes of a worker,    *)
(* with the parts of SupervisedProc its tasks wait for (start, initialize, *)
(* join, aclose) and Worker.drain, which walks the pool's list.            *)
(*                                                                         *)
(* A step is what one asyncio task does between two awaits.  Processes are *)
(* numbered in the order in which their spawn tasks are created, so spawn  *)
(* task p is the one that runs _proc_spawn_task for process p.             *)
(***************************************************************************)
EXTENDS Naturals, Sequences, FiniteSets

CONSTANTS Jobs,          \* jobs passed to launch_job
          NoJob,
          DefaultIdle,   \* num_idle_processes
          Targets,       \* what set_target_idle_processes may be given
          InitSlots,     \* MAX_CONCURRENT_INITIALIZATIONS
          MaxProcs,      \* bound on the processes ever created
          MaxFailures,   \* bound on failed starts, initializations and crashes
          StartMayFail,  \* whether proc.start() may raise
          Calls          \* which of "aclose" and "drain" the worker calls

ASSUME PoolAssumption ==
  /\ IsFiniteSet(Jobs) /\ NoJob \notin Jobs
  /\ DefaultIdle \in Nat /\ Targets \subseteq Nat /\ Targets # {}
  /\ InitSlots \in Nat \ {0}
  /\ MaxProcs \in Nat /\ MaxFailures \in Nat
  /\ StartMayFail \in BOOLEAN /\ Calls \subseteq {"aclose", "drain"}

VARIABLES
  target,       \* _target_idle_processes
  closed,       \* _closed
  idleReady,    \* _idle_ready
  jobsWaiting,  \* _jobs_waiting_for_process
  warm,         \* _warmed_proc_queue: the processes in it
  getters,      \* the jobs that wait in _warmed_proc_queue.get()
  executors,    \* _executors
  spawnTasks,   \* _spawn_tasks
  monitors,     \* _monitor_tasks
  spawned,      \* how many processes were created
  spawn,        \* where the spawn task of each process is
  child,        \* the operating system process
  runningJob,   \* running_job of each executor
  job,          \* what became of each job
  waker,        \* the process whose put_nowait woke each woken job
  main,         \* where _main_task is
  toClose,      \* executors whose aclose _main_task still awaits
  closing,      \* executors whose aclose has sent ShutdownRequest
  toJoin,       \* tasks _main_task still awaits
  failures,
  drain,        \* Worker.drain: where it is, and its position in the list
  drainJobs     \* history: the jobs that ran when drain began

poolVars  == <<target, closed, idleReady, jobsWaiting, warm, getters>>
procVars  == <<executors, spawnTasks, monitors, spawned, spawn, child>>
jobVars   == <<runningJob, job, waker>>
closeVars == <<main, toClose, closing, toJoin>>
drainVars == <<drain, drainJobs>>
vars == <<poolVars, procVars, jobVars, closeVars, failures, drainVars>>

Procs == 1 .. MaxProcs

SpawnStates == {"unused", "created", "sem", "starting", "initializing",
                "ready", "failed", "unsent", "skipped", "raised"}
JobStates   == {"new", "waiting", "woken", "running", "lost", "finished", "failed"}

TypeOK ==
  /\ target \in Nat /\ closed \in BOOLEAN /\ idleReady \in BOOLEAN
  /\ jobsWaiting \in Nat
  /\ warm \in Seq(Procs) /\ getters \in Seq(Jobs)
  /\ executors \in Seq(Procs)
  /\ spawnTasks \subseteq Procs /\ monitors \subseteq Procs
  /\ spawned \in 0 .. MaxProcs
  /\ spawn \in [Procs -> SpawnStates]
  /\ child \in [Procs -> {"none", "alive", "exiting", "dead"}]
  /\ runningJob \in [Procs -> Jobs \cup {NoJob}]
  /\ job \in [Jobs -> JobStates]
  /\ waker \in [Jobs -> Procs \cup {0}]
  /\ main \in {"loop", "cancelled", "closing", "joining", "monitoring", "closed"}
  /\ toClose \subseteq Procs /\ closing \subseteq Procs /\ toJoin \subseteq Procs
  /\ failures \in Nat
  /\ drain \in [at : {"idle", "joining", "returned"}, index : Nat, proc : Procs \cup {0}]
  /\ drainJobs \subseteq Jobs

Init ==
  /\ target = DefaultIdle /\ closed = FALSE /\ idleReady = FALSE
  /\ jobsWaiting = 0 /\ warm = <<>> /\ getters = <<>>
  /\ executors = <<>> /\ spawnTasks = {} /\ monitors = {}
  /\ spawned = 0
  /\ spawn = [p \in Procs |-> "unused"]
  /\ child = [p \in Procs |-> "none"]
  /\ runningJob = [p \in Procs |-> NoJob]
  /\ job = [j \in Jobs |-> "new"]
  /\ waker = [j \in Jobs |-> 0]
  /\ main = "loop" /\ toClose = {} /\ closing = {} /\ toJoin = {}
  /\ failures = 0
  /\ drain = [at |-> "idle", index |-> 0, proc |-> 0]
  /\ drainJobs = {}

-------------------------------------------------------------------------------
Listed(p)   == \E i \in 1 .. Len(executors) : executors[i] = p
Unlist(p)   == \E i \in 1 .. Len(executors) :
                 /\ executors[i] = p
                 /\ executors' = SubSeq(executors, 1, i - 1)
                                   \o SubSeq(executors, i + 1, Len(executors))
Started(p)  == child[p] # "none"
TaskDone(p) == spawn[p] \in {"ready", "failed", "unsent", "skipped", "raised"}

\* create_task(_proc_spawn_task()) n times, as far as the bound allows.
CreateSpawnTasks(n) ==
  LET new == {p \in Procs : p > spawned /\ p <= spawned + n}
  IN  /\ spawned' = spawned + Cardinality(new)
      /\ spawn' = [p \in Procs |-> IF p \in new THEN "created" ELSE spawn[p]]
      /\ spawnTasks' = spawnTasks \cup new

\* proc.launch_job for a process taken from the queue: the executor records the
\* job before the message is sent, and the message to a dead process is lost.
Assign(j, p) ==
  /\ runningJob' = [runningJob EXCEPT ![p] = j]
  /\ job' = [job EXCEPT ![j] = IF child[p] = "alive" THEN "running" ELSE "lost"]

\* launch_job up to its first suspension.
LaunchJob(j) ==
  /\ job[j] = "new"
  /\ IF warm = <<>> /\ Cardinality(spawnTasks) < jobsWaiting + 1
       THEN spawned < MaxProcs /\ CreateSpawnTasks(1)
       ELSE UNCHANGED <<spawned, spawn, spawnTasks>>
  /\ IF warm # <<>>
       THEN /\ Assign(j, Head(warm))
            /\ warm' = Tail(warm)
            /\ UNCHANGED <<jobsWaiting, getters>>
       ELSE /\ job' = [job EXCEPT ![j] = "waiting"]
            /\ jobsWaiting' = jobsWaiting + 1
            /\ getters' = Append(getters, j)
            /\ UNCHANGED <<warm, runningJob>>
  /\ UNCHANGED <<target, closed, idleReady, executors, monitors, child, waker,
                 closeVars, failures, drainVars>>

\* launch_job resumed by put_nowait: the process may be gone to a later caller,
\* and then the job waits again behind everybody else.  The event loop runs the
\* done callback of the spawn task right behind it, before any other launch_job.
ResumeLaunch(j) ==
  /\ job[j] = "woken"
  /\ IF warm # <<>>
       THEN /\ Assign(j, Head(warm))
            /\ warm' = Tail(warm)
            /\ jobsWaiting' = jobsWaiting - 1
            /\ UNCHANGED getters
       ELSE /\ job' = [job EXCEPT ![j] = "waiting"]
            /\ getters' = Append(getters, j)
            /\ UNCHANGED <<warm, jobsWaiting, runningJob>>
  /\ waker' = [waker EXCEPT ![j] = 0]
  /\ spawnTasks' = spawnTasks \ {waker[j]}
  /\ UNCHANGED <<target, closed, idleReady, executors, monitors, spawned, spawn, child,
                 closeVars, failures, drainVars>>

SetTarget(n) ==
  /\ idleReady \/ DefaultIdle = 0
  /\ target' = n
  /\ UNCHANGED <<closed, idleReady, jobsWaiting, warm, getters, procVars, jobVars,
                 closeVars, failures, drainVars>>

-------------------------------------------------------------------------------
SpawnEnter(p) ==
  /\ spawn[p] = "created"
  /\ spawn' = [spawn EXCEPT ![p] = "sem"]
  /\ executors' = Append(executors, p)
  /\ UNCHANGED <<poolVars, spawnTasks, monitors, spawned, child, jobVars, closeVars,
                 failures, drainVars>>

\* Mutant of SpawnAcquire: no second look at _closed.
SpawnAcquireClosed(p) ==
  /\ spawn[p] = "sem"
  /\ Cardinality({q \in Procs : spawn[q] \in {"starting", "initializing"}}) < InitSlots
  /\ spawn' = [spawn EXCEPT ![p] = "starting"]
  /\ UNCHANGED <<poolVars, executors, spawnTasks, monitors, spawned, child, jobVars,
                 closeVars, failures, drainVars>>

\* _init_sem acquired: give up if the pool was closed meanwhile.
SpawnAcquire(p) ==
  /\ spawn[p] = "sem"
  /\ Cardinality({q \in Procs : spawn[q] \in {"starting", "initializing"}}) < InitSlots
  /\ IF closed
       THEN spawn' = [spawn EXCEPT ![p] = "skipped"] /\ Unlist(p)
       ELSE spawn' = [spawn EXCEPT ![p] = "starting"] /\ UNCHANGED executors
  /\ UNCHANGED <<poolVars, spawnTasks, monitors, spawned, child, jobVars, closeVars,
                 failures, drainVars>>

StartOk(p) ==
  /\ spawn[p] = "starting"
  /\ spawn' = [spawn EXCEPT ![p] = "initializing"]
  /\ child' = [child EXCEPT ![p] = "alive"]
  /\ UNCHANGED <<poolVars, executors, spawnTasks, monitors, spawned, jobVars, closeVars,
                 failures, drainVars>>

\* The process is gone before initialize() can send its request: DuplexClosed is caught
\* like any other failure, but nothing resolves the future that join waits for.
StartDies(p) ==
  /\ failures < MaxFailures
  /\ spawn[p] = "starting"
  /\ spawn' = [spawn EXCEPT ![p] = "unsent"]
  /\ child' = [child EXCEPT ![p] = "dead"]
  /\ monitors' = monitors \cup {p}
  /\ failures' = failures + 1
  /\ UNCHANGED <<poolVars, executors, spawnTasks, spawned, jobVars, closeVars, drainVars>>

\* An exception of proc.start() is not caught: no monitor is ever created.
StartRaises(p) ==
  /\ StartMayFail /\ failures < MaxFailures
  /\ spawn[p] = "starting"
  /\ spawn' = [spawn EXCEPT ![p] = "raised"]
  /\ failures' = failures + 1
  /\ UNCHANGED <<poolVars, executors, spawnTasks, monitors, spawned, child, jobVars,
                 closeVars, drainVars>>

\* Mutant of InitOk: put without waking the getter.
InitOkWakesNobody(p) ==
  /\ spawn[p] = "initializing"
  /\ spawn' = [spawn EXCEPT ![p] = "ready"]
  /\ warm' = Append(warm, p)
  /\ idleReady' = (idleReady \/ Len(warm) + 1 >= DefaultIdle)
  /\ monitors' = monitors \cup {p}
  /\ UNCHANGED <<target, closed, jobsWaiting, getters, executors, spawnTasks, spawned,
                 child, jobVars, closeVars, failures, drainVars>>

\* The child answered, whatever became of it since: the process is queued and the first
\* waiting job woken.
InitOk(p) ==
  /\ spawn[p] = "initializing"
  /\ spawn' = [spawn EXCEPT ![p] = "ready"]
  /\ warm' = Append(warm, p)
  /\ idleReady' = (idleReady \/ Len(warm) + 1 >= DefaultIdle)
  /\ monitors' = monitors \cup {p}
  /\ IF getters = <<>>
       THEN UNCHANGED <<getters, job, waker>>
       ELSE /\ getters' = Tail(getters)
            /\ job' = [job EXCEPT ![Head(getters)] = "woken"]
            /\ waker' = [waker EXCEPT ![Head(getters)] = p]
  /\ UNCHANGED <<target, closed, jobsWaiting, executors, spawnTasks, spawned, child,
                 runningJob, closeVars, failures, drainVars>>

\* Mutants of InitFails: the process is queued all the same, or forgotten at once.
InitFailsAs(p, queued, listed) ==
  /\ spawn[p] = "initializing" /\ child[p] # "dead" /\ failures < MaxFailures
  /\ failures' = failures + 1
  /\ child' = [child EXCEPT ![p] = "exiting"]
  /\ spawn' = [spawn EXCEPT ![p] = "failed"]
  /\ monitors' = monitors \cup {p}
  /\ warm' = queued /\ executors' = listed
  /\ UNCHANGED <<target, closed, idleReady, jobsWaiting, getters, spawnTasks, spawned,
                 jobVars, closeVars, drainVars>>
InitFailsQueues(p)  == InitFailsAs(p, Append(warm, p), executors)
InitFailsForgets(p) == InitFailsAs(p, warm, SelectSeq(executors, LAMBDA q : q # p))

\* An error answer, a timeout (the child is killed), or the end of a dead child.
InitFails(p) ==
  /\ spawn[p] = "initializing"
  /\ \/ child[p] = "dead" /\ UNCHANGED <<child, failures>>
     \/ /\ child[p] # "dead" /\ failures < MaxFailures
        /\ failures' = failures + 1
        /\ child' = [child EXCEPT ![p] = "exiting"]
  /\ spawn' = [spawn EXCEPT ![p] = "failed"]
  /\ monitors' = monitors \cup {p}
  /\ UNCHANGED <<poolVars, executors, spawnTasks, spawned, jobVars, closeVars, drainVars>>

\* The done callback of a spawn task that woke no job.
Discard(p) ==
  /\ p \in spawnTasks /\ TaskDone(p)
  /\ \A j \in Jobs : waker[j] # p
  /\ spawnTasks' = spawnTasks \ {p}
  /\ UNCHANGED <<poolVars, executors, monitors, spawned, spawn, child, jobVars, closeVars,
                 failures, drainVars>>

\* The supervise task is over, which needs both the exit and the end of the initialization.
Joins(p) == child[p] = "dead" /\ spawn[p] \in {"ready", "failed"}

\* _monitor_process_task: join returned.
MonitorEnds(p) ==
  /\ p \in monitors /\ Joins(p)
  /\ monitors' = monitors \ {p}
  /\ Unlist(p)
  /\ UNCHANGED <<poolVars, spawnTasks, spawned, spawn, child, jobVars, closeVars,
                 failures, drainVars>>

-------------------------------------------------------------------------------
\* The job's entrypoint is over: its process leaves.
JobEnds(p) ==
  /\ runningJob[p] # NoJob /\ job[runningJob[p]] = "running" /\ child[p] = "alive"
  /\ child' = [child EXCEPT ![p] = "exiting"]
  /\ UNCHANGED <<poolVars, executors, spawnTasks, monitors, spawned, spawn, jobVars,
                 closeVars, failures, drainVars>>

Ended(p, how) ==
  /\ child' = [child EXCEPT ![p] = "dead"]
  /\ job' = [j \in Jobs |-> IF runningJob[p] = j /\ job[j] = "running" THEN how ELSE job[j]]

\* A process that was told to leave obeys or is killed.
ChildExits(p) ==
  /\ child[p] = "exiting"
  /\ Ended(p, "finished")
  /\ UNCHANGED <<poolVars, executors, spawnTasks, monitors, spawned, spawn, runningJob, waker,
                 closeVars, failures, drainVars>>

ChildCrashes(p) ==
  /\ child[p] = "alive" /\ failures < MaxFailures
  /\ failures' = failures + 1
  /\ Ended(p, "failed")
  /\ UNCHANGED <<poolVars, executors, spawnTasks, monitors, spawned, spawn, runningJob, waker,
                 closeVars, drainVars>>

-------------------------------------------------------------------------------
LeastOf(a, b) == IF a < b THEN a ELSE b
IdleWanted == LeastOf(target, DefaultIdle)
\* Mutant of IdleComing: counts the processes ever created.
IdleEverCreated == spawned
IdleComing == Len(warm) + Cardinality(spawnTasks)

\* One round of the loop of _main_task.
MainTick ==
  /\ main = "loop" /\ ~closed
  /\ IdleComing < IdleWanted /\ spawned < MaxProcs
  /\ CreateSpawnTasks(IdleWanted - IdleComing)
  /\ UNCHANGED <<poolVars, executors, monitors, child, jobVars, closeVars, failures,
                 drainVars>>

\* aclose: cancels _main_task and waits for it.
Aclose ==
  /\ "aclose" \in Calls /\ ~closed
  /\ closed' = TRUE
  /\ main' = "cancelled"
  /\ UNCHANGED <<target, idleReady, jobsWaiting, warm, getters, procVars, jobVars,
                 toClose, closing, toJoin, failures, drainVars>>

\* The CancelledError handler: gather the aclose of the executors listed now.
MainCancelled ==
  /\ main = "cancelled"
  /\ main' = "closing"
  /\ toClose' = {p \in Procs : Listed(p)}
  /\ UNCHANGED <<poolVars, procVars, jobVars, closing, toJoin, failures, drainVars>>

\* SupervisedProc.aclose: nothing for a process that has not started, otherwise a
\* ShutdownRequest, and a kill if it is not obeyed.
AcloseProc(p) ==
  /\ p \in toClose \ closing
  /\ IF Started(p)
       THEN /\ closing' = closing \cup {p}
            /\ child' = [child EXCEPT ![p] = IF @ = "alive" THEN "exiting" ELSE @]
            /\ UNCHANGED toClose
       ELSE /\ toClose' = toClose \ {p}
            /\ UNCHANGED <<closing, child>>
  /\ UNCHANGED <<poolVars, executors, spawnTasks, monitors, spawned, spawn, jobVars,
                 main, toJoin, failures, drainVars>>

AcloseProcReturns(p) ==
  /\ p \in toClose \cap closing
  /\ Joins(p)
  /\ toClose' = toClose \ {p}
  /\ UNCHANGED <<poolVars, procVars, jobVars, main, closing, toJoin, failures, drainVars>>

MainGathersSpawns ==
  /\ main = "closing" /\ toClose = {}
  /\ main' = "joining"
  /\ toJoin' = spawnTasks
  /\ UNCHANGED <<poolVars, procVars, jobVars, toClose, closing, failures, drainVars>>

\* Mutant of MainGathersMonitors: the monitors are not waited for.
MainSkipsMonitors ==
  /\ main = "joining"
  /\ \A p \in toJoin : TaskDone(p)
  /\ main' = "closed" /\ toJoin' = {}
  /\ UNCHANGED <<poolVars, procVars, jobVars, toClose, closing, failures, drainVars>>

\* gather re-raises the first exception of a spawn task, and _main_task ends there.
MainGathersMonitors ==
  /\ main = "joining"
  /\ \/ /\ \E p \in toJoin : spawn[p] = "raised"
        /\ main' = "closed"
        /\ toJoin' = {}
     \/ /\ \A p \in toJoin : TaskDone(p) /\ spawn[p] # "raised"
        /\ main' = "monitoring"
        /\ toJoin' = monitors
  /\ UNCHANGED <<poolVars, procVars, jobVars, toClose, closing, failures, drainVars>>

MainReturns ==
  /\ main = "monitoring" /\ toJoin \cap monitors = {}
  /\ main' = "closed"
  /\ toJoin' = {}
  /\ UNCHANGED <<poolVars, procVars, jobVars, toClose, closing, failures, drainVars>>

-------------------------------------------------------------------------------
\* The loop of _join_jobs from position i: it iterates the live list, so a
\* position is all it keeps while it waits.
DrainFrom(i) ==
  LET Busy(k) == runningJob[executors[k]] # NoJob
  IN  \/ /\ \A k \in i + 1 .. Len(executors) : ~Busy(k)
         /\ drain' = [at |-> "returned", index |-> 0, proc |-> 0]
      \/ \E k \in i + 1 .. Len(executors) :
           /\ Busy(k) /\ \A l \in i + 1 .. k - 1 : ~Busy(l)
           /\ drain' = [at |-> "joining", index |-> k, proc |-> executors[k]]

Drain ==
  /\ "drain" \in Calls /\ drain.at = "idle"
  /\ DrainFrom(0)
  /\ drainJobs' = {j \in Jobs : job[j] = "running"}
  /\ UNCHANGED <<poolVars, procVars, jobVars, closeVars, failures>>

\* The monitor began to wait for the process before drain did and resumes first.
DrainResumes ==
  /\ drain.at = "joining"
  /\ child[drain.proc] = "dead" /\ drain.proc \notin monitors
  /\ DrainFrom(drain.index)
  /\ UNCHANGED <<poolVars, procVars, jobVars, closeVars, failures, drainJobs>>

-------------------------------------------------------------------------------
SpawnStep(p) ==
  SpawnEnter(p) \/ SpawnAcquire(p) \/ StartOk(p) \/ StartDies(p) \/ StartRaises(p)
    \/ InitOk(p) \/ InitFails(p) \/ Discard(p) \/ MonitorEnds(p)

MainStep ==
  \/ MainTick \/ MainCancelled \/ MainGathersSpawns \/ MainGathersMonitors \/ MainReturns
  \/ \E p \in Procs : AcloseProc(p) \/ AcloseProcReturns(p)

Next ==
  \/ \E j \in Jobs : LaunchJob(j) \/ ResumeLaunch(j)
  \/ \E n \in Targets : SetTarget(n)
  \/ \E p \in Procs : SpawnStep(p) \/ JobEnds(p) \/ ChildExits(p) \/ ChildCrashes(p)
  \/ MainStep
  \/ Aclose
  \/ Drain \/ DrainResumes

Spec == Init /\ [][Next]_vars

\* What goes on by itself: the tasks that are ready, an initialization (at the latest
\* by its timeout), and a process that was told to leave (when it is killed).
Runs ==
  \/ \E j \in Jobs : ResumeLaunch(j)
  \/ \E p \in Procs : SpawnStep(p) \/ ChildExits(p)
  \/ MainStep \/ DrainResumes

\* With finitely many processes these are finitely many steps between two calls, so
\* that none of them is put off for ever.
FairSpec == Spec /\ WF_vars(Runs)

\* Jobs that end by themselves, for what waits for them.
FairJobsSpec == FairSpec /\ \A p \in Procs : WF_vars(JobEnds(p))

-------------------------------------------------------------------------------
\* No process is handed to two jobs and none that failed to initialize is handed
\* out at all ("process where initialization times out will never fire
\* process_ready neither be used to launch jobs").
UsedOnce ==
  /\ \A p, q \in Procs : runningJob[p] = runningJob[q] /\ p # q => runningJob[p] = NoJob
  /\ \A i \in 1 .. Len(warm) : runningJob[warm[i]] = NoJob
  /\ \A i, k \in 1 .. Len(warm) : warm[i] = warm[k] => i = k
  /\ \A p \in Procs : runningJob[p] # NoJob => spawn[p] = "ready"

\* A live process is in the list that get_by_job_id, drain and aclose search.
LiveIsListed ==
  \A p \in Procs : child[p] \in {"alive", "exiting"} => Listed(p)

\* When aclose has returned no process is left behind, unless the start of one raised,
\* which ends the wait for the others.
NoOrphanAfterClose ==
  main = "closed" /\ (\A p \in Procs : spawn[p] # "raised")
    => \A p \in Procs : child[p] \in {"none", "dead"}

\* The pool does for its callers what PoolLife says: however processes crash, fail or are
\* slow, a call gets at most one process, and none runs a job once aclose has returned.
LaunchOf(j) ==
  CASE job[j] \in {"waiting", "woken"} -> "waiting"
    [] job[j] \in {"lost", "finished", "failed"} -> "over"
    [] OTHER -> job[j]
Life == INSTANCE PoolLife
          WITH Launches <- Jobs, broken <- \E p \in Procs : spawn[p] = "raised",
               pool <- CASE ~closed -> "open" [] main = "closed" -> "closed"
                         [] OTHER -> "closing",
               launch <- [j \in Jobs |-> LaunchOf(j)]
ImplementsPoolLife == Life!Spec

\* Of its processes the pool supposes no more than ProcLife says, and it launches a job only
\* on one that is ready and has none.
InitOf(p) ==
  CASE spawn[p] = "initializing" -> "pending"
    [] spawn[p] \in {"ready", "failed", "unsent"} -> spawn[p]
    [] OTHER -> "none"
WorkOf(p) ==
  IF runningJob[p] = NoJob THEN "none"
  ELSE IF job[runningJob[p]] = "running" THEN "running" ELSE "over"
Process == INSTANCE ProcLife
             WITH Processes <- Procs, up <- {p \in Procs : child[p] \in {"alive", "exiting"}},
                  init <- [p \in Procs |-> InitOf(p)], work <- [p \in Procs |-> WorkOf(p)]
RespectsProcLife == Process!Spec

\* Every job that waits for a process gets one, unless the pool is closed first.
WaitingServedWhileOpen ==
  \A j \in Jobs : job[j] = "waiting" ~> closed \/ job[j] \notin {"waiting", "woken"}

\* start() returns: the default number of processes is warmed up, failed
\* initializations being retried.
StartReturns == <>(idleReady \/ closed)

\* aclose returns when it did not hit a process in the middle of start(), and none died
\* before it could be asked to initialize.
AcloseReturnsUnlessStarting ==
  main = "cancelled" /\ (\A p \in Procs : spawn[p] \notin {"starting", "unsent"})
    ~> main = "closed"

\* When drain has returned, every job that ran when it was called is over.
DrainWaitsForJobs ==
  drain.at = "returned" => \A j \in drainJobs : job[j] # "running"
===============================================================================
