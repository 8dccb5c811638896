# Wizzpert agents: a TLA+ verification project

This directory models the core of the agent framework under
`src/wizzpert-agents/wizzpert/agents` (written `A/` below): the parts whose
correctness depends on how asyncio tasks, processes and callbacks interleave.

## 1. The system

A *worker* process keeps a websocket to a server, is offered jobs, and runs each
in a *job process* taken from a pool.  In a job process an *agent session* listens
to a user and speaks: it owns one *agent activity* at a time, which recognizes the
end of a user turn, generates a reply with a language model, calls tools, and plays
the speech.  Streams of text, audio and messages between tasks are channels.

| component | state | operations | interacts with | hard parts | what makes it correct |
|---|---|---|---|---|---|
| Chan `A/utils/aio/channel.py` | deque of items, deques of waiting senders and receivers, closed | send, recv, their nowait forms, close | every stream and message loop | wake-up, cancellation and late callers race | nothing lost or reordered; no waiter forgotten; close wakes all |
| ProcPool `A/ipc/proc_pool.py` | executors, spawn and monitor tasks, queue of warmed processes, waiting jobs, idle target | start, launch_job, set_target, aclose | worker; SupervisedProc | jobs, spawns, failures and close interleave | each waiting job gets one good process; none is leaked |
| SupervisedProc `A/ipc/supervised_proc.py`, executors | process, supervise task, initialization future | start, initialize, join, aclose, kill, ping | pool; child over a socket pair | timeouts against exits, kills and shutdowns | every process ends and is joined |
| Worker `A/worker.py` | pending assignments, tasks, message queue, load | connect, availability, assignment, termination, drain, aclose | server; pool | reconnection, time-outs, close with blocked tasks | an accepted and assigned job is launched once; close returns |
| job process `A/ipc/job_proc_lazy_main.py`, `A/job.py` | running job, shutdown future | StartJob, Shutdown, inference, tracing | parent process | first shutdown wins, messages behind an exit | callbacks run once; status is truthful |
| AgentActivity `A/voice/agent_activity.py` | speech queue, current speech, speech tasks, draining | say, generate reply, interrupt, user turn, tool reply, drain, aclose | session; audio recognition; audio output | interruption, tool steps, draining and hand-over | speeches play one at a time and in order; drain waits for all and returns |
| SpeechHandle `A/voice/speech_handle.py` | three futures, step index | interrupt, authorize, mark done | activity; user code | completed from several tasks | see AgentActivity |
| AgentSession `A/voice/agent_session.py` | activity, next activity, locks | start, update_agent, say, drain, close | activities; room I/O | hand-over against close and against speech | one live activity, none after close |
| audio recognition `A/voice/audio_recognition.py` | transcripts, end-of-turn task, commit task, STT and VAD tasks | stt and vad events, commit and clear of the user turn, aclose | activity | tasks cancelled and restarted by each other's events | each word delivered once; nothing left after close |
| audio I/O, synchronizer | playout counters, segments | flush, clear, wait | activity | counters read across awaits | each playout waited for ends |
| fallback adapters, base streams | availability, recovery tasks, retry counter | run, try provider, recover | providers | recovery against attempts | no half-spoken text repeated; a healthy provider is used |
| connection pool `A/utils/connection_pool.py` | live, available and to-close sets | get, put, remove, invalidate, prewarm, aclose | plugin streams | closes with awaits in between | no connection used twice at once or forgotten |
| inference process | requests by id | do_inference | job processes | an answer before its registration | each request answered |
| tokenizers, chat context, CLI, metrics, transport, avatar, plugins | | | | mostly sequential code or I/O | not modelled, see section 8 |

The hazards, each at its line and with the properties that would catch it, are in
`PROJECT.json`.

## 2. Plan

1. **Chan** with its abstract FIFO channel, and proofs. *Done.*
2. **ProcPool**, with what it uses of SupervisedProc, and Worker.drain. *Done*, and proofs.
3. **AgentActivity** with SpeechHandle, and proofs. *Done for the pipeline path.*
4. **AgentSession**: handover, drain and close over the abstract activity
   **ActivityLife**, and proofs of both sides of that contract. *Done.*
5. **Worker** (availability, assignment time-outs, message queue, reconnection,
   aclose) and **JobProc**, the job process with the executor that supervises it, and
   proofs, with the contracts **PoolLife** and **ProcLife**. *Done.*
6. **ConnectionPool** and **Recognition**, with proofs. *Done.*
7. Left: the fallback adapters with the retry loops of the base streams, Tee, the
   playout counters of AudioOutput, the realtime path of AgentActivity.

The runs are kept to a dozen, so that all of them can be repeated in a few minutes.
A module has one run, which checks its safety and its liveness together, and where the
code breaks what it says of itself a second, small one that shows it.

How the modules fit together:

```
Worker -- supposes -> PoolLife <- implements --- ProcPool --- uses --> ProcLife <-- implements --- JobProc
   |
   |  its message channel is a FIFO buffer
   v
FifoChannel <---- implemented by ---- Chan

AgentSession --- uses each activity as ---> ActivityLife <--- implemented by --- AgentActivity
                                                                                     |
Recognition --- on_end_of_turn ends a user turn of ----------------------------------+
ConnectionPool --- stands alone, below the plugins
```

The abstract specifications are **FifoChannel** (what a channel promises),
**ActivityLife** (what an activity promises to its session), **PoolLife** (what the pool
promises to the worker) and **ProcLife** (what a process and its executor promise to the
pool). `Chan` implements the first. Each of the other three is a contract:
`AgentActivity` implements ActivityLife for one activity, `ProcPool` PoolLife for all calls of
`launch_job`, and `JobProc` ProcLife for one process, each with the tasks, timers and failures
that are its own. Two of them have a second side: `AgentSession` and `ProcPool`, whose
activities and processes are only as detailed as the caller can see, stay within the contract
for as many of them as they have, because of what the caller does. PoolLife asks nothing of
the worker, which may call `launch_job` and `aclose` in any order: it is what `Worker` supposes
of its pool in `Launched` and `PoolClosed`. All are stated as `INSTANCE ... WITH`, and each
is proved as well as checked.

## 3. Modules and how they correspond to the code

Everything modelled runs on asyncio event loops: a step of a model is what one task
does between two awaits, so an action is atomic where the code is, and every other
task may run where the code awaits.  A future is represented by who waits for it.
Operators named *Mutant of ...* are plausible bugs in the definition they precede.
The specifications do not use them: they are put in its place to show that a run's
properties can fail.

**Chan** (`A/utils/aio/channel.py`). `queue`, `puts`, `gets`, `closed` are the fields
of the class; `fut[t]` is the future task `t` awaits and `mustCancel` the tasks that
asyncio will cancel when they resume. `Send`, `TrySend`, `Recv` and `TryRecv` run a
call up to its first suspension; `SendLoop` and `RecvLoop` are the tests of the
`while` loops; the `...Resume...` actions are the three ways out of each `try`;
`Cancel` is `Task.cancel`, before or after the future is done. A cancelled future
stays in `_gets` (as `Dead`), because the handler in `recv` does not run for it.
`accepted` and `received` are history variables.

**ProcPool** (`A/ipc/proc_pool.py`, parts of `A/ipc/supervised_proc.py`, `drain` of
`A/worker.py`). Processes are numbered by their spawn tasks. `spawn[p]` is where
`_proc_spawn_task` is, `child[p]` the operating system process, `getters` the
waiting calls of the asyncio queue, in order. `ResumeLaunch` includes the done callback of
the spawn task that woke it, which the event loop runs right behind it; every other
done callback is the action `Discard`, because the set `_spawn_tasks` is read before
it runs. A process can be gone before the InitializeRequest is written (`StartDies`):
`_initialize_fut` is then never resolved, and `Joins` says that `join` returns only when the
process has exited and that future is done. `drain` keeps a position in the live list, as a Python list iterator does.

**JobProc** (`A/ipc/supervised_proc.py`, `A/ipc/job_proc_executor.py` in the worker,
`A/ipc/proc_client.py`, `A/ipc/job_proc_lazy_main.py` in the child). `init`, `sup` and
`closing` are where `initialize`, `_supervise_task` and `aclose` are, `initFut` the future
they share, `toChild` and `answer` the socket pair, `child` and `job` the two tasks of
the process. Ping and pong appear as what their two timers do: `PongTimeout` and
`MemoryKill` kill the process, `HealthCheck` ends one whose worker is slow,
`ChildIsOrphan` one whose worker is dead. `JobStops` is the orderly end of a job, `JobBreaks` the
one in which leaving the room raises. `ProcPool` is the caller; what it sees of all this
is ProcLife, through `Initialized` and `Work` here and through `InitOf` and `WorkOf` there.

**ProcLife** is the life of processes as the pool relies on it: not started, `up` or gone;
what came of the initialization of each (`unsent` if it could not be asked for), and its one job.

**PoolLife** is what a call of `launch_job` goes through (it waits, it runs on a process,
it is over, or it is lost with a process that is leaving) while the pool is open, closing or
closed. `broken` is a pool in which a start raised, whose `aclose` does not wait for all.

**Worker** (`A/worker.py`). `conn` is where `_connection_task` is, with `retry` and
`connecting`; `msgs` is `_msg_chan`, used as the buffer `Chan` implements, and `hand` the
message that `_send_task` has taken and not sent. A request is one `_job_request_task`,
from `RequestAnswers` over `Accept`, the assignment or its timeout, to `LaunchStarts` and
`Launched` or, when the process it gets is gone, `LaunchLost`; a request already in
`launch_job` may still get a process while `aclose` of the pool waits; `pending` is `_pending_assignments`, in which a second request for a job
replaces the first. `StatusTick` is a round of `_load_task`, which builds a status from the load
(`Loads`) or, in a drain, a full one, and `built` the status it holds while it waits for room:
one that says the worker is available may be queued, in hand or `built` when `drain` begins,
and reach the server after it. `DrainBegins` drops its own status while the worker is connecting,
queues it, or waits for room (`DrainTells`). `drain` and `closing` follow `drain` and
`aclose`, which waits for the pool and then for its tasks; the pool is the one PoolLife describes.
The server (`Server...`, `accepted`, `assigned`, `full`) is external. `owing` is a history
variable: the answers and job updates queued so far that were not sent.

**ActivityLife** is the life of an activity as a session relies on it: open, draining,
drained or cancelled, and busy or not.

**AgentActivity** (`A/voice/agent_activity.py`, `A/voice/speech_handle.py`). Handles
are numbered in order of creation. `task[h]` is where the speech task is:
waiting to be authorized, playing, being stopped, executing tools, or ended;
`authorized`, `interrupted` and `done` are the three futures. `MainLoop` is the body of
`_main_task`. `ToolsEnd` includes the tool reply, with its step count and its bypass of
the draining check. `turn[t]` is the task of a user turn: waiting for the one before,
inside `on_user_turn_completed`, or over. Every caller schedules with normal priority,
so the heap is the order of scheduling; clock ties are left out (see the hazards).
`say` and `generate_reply` are called by the session, which checks `draining` first.

**AgentSession** (`A/voice/agent_session.py`, `start`, `drain` and `aclose` of
`A/voice/agent_activity.py`). Update `u` is the `u`-th run of `_update_activity_task`
and makes activity `u`. `lock` is `AgentSession._lock`, `actLock[a]` the lock of
activity `a`, each the queue of its holder and of those that wait, because
`asyncio.Lock` is fair. `pc` says where every update and every caller of `drain` or
`aclose` is, `target` the activity it is working on. `Routed` is the test by which
`say` and `generate_reply` choose between the activity and the next one.
`link[g]` is `Agent._activity`. `Failing` is `_closing_task` after an unrecoverable error.

**ConnectionPool** (`A/utils/connection_pool.py`). `known`, `available`, `toClose` are the
keys of `_connections`, `_available` and `_to_close`. `get` is `GetAtOnce` or, when there
is something to close first, `GetDrains`, `ClosesOne`, `ClosesLast` and `Connected`:
`left[t]` is the rest of the list that the `_drain_to_close` of task `t` walks. `Raises` is a
callback that raises or a caller that is cancelled in it.

**Recognition** (`A/voice/audio_recognition.py`). `transcript`, `interim`, `committed` and
`speaking` are the fields; a word is the text of one final transcript, and the interim text
before it anticipates it. `eou` is `_end_of_turn_task` and how it ended, `commit`
`_commit_user_turn_atask`, `streams` the runs of `_stt_task` (`clear_user_turn` replaces
it), `closing` the position in `aclose`.

## 4. Runs

| run | question | bounds and why they suffice |
|---|---|---|
| `chan` | nothing lost or reordered, no sender and no receiver forgotten, close wakes all and every waiting call returns, refines FifoChannel | 2 senders, 2 receivers, 2 slots, 4 sends, a cancellation of a sender (before or after its wake-up) and of a receiver (before): a woken sender can lose its slot to a late caller while another sleeps; two values and two slots show reordering |
| `pool_safety` | single use, no live process out of the list, no orphan after close, implements PoolLife | 2 jobs, 3 processes (one per job and one idle), 1 failure of any kind, one initialization at a time, targets 0 and 1 |
| `pool_live` | start, launch and aclose return | target 1, jobs that end, 1 failure, a start that may raise |
| `pool_drain` | *violation*: drain returns while a job runs | 2 running jobs |
| `activity` | one speech at a time in order; drain complete; every scheduled speech ends; drain returns; refines ActivityLife | 3 speeches (a reply, its tool response and one more; or replies to two turns), 2 user turns, 1 tool step, aclose with or without drain |
| `activity_drain` | *violation*: drain hangs after a refused reply | 2 speeches, 1 turn |
| `session` | one agent speaks, it is linked, it is the last asked for, every handover ends, refines ActivityLife for every activity | 2 agents, 3 handovers (there and back again, or two at once) one of which may be refused, 1 speech, 1 error, 1 drain or aclose |
| `session_close` | *violation*: an agent runs on a closed session | 1 agent, 1 handover, 1 error |
| `worker` | launches need assignments, messages survive reconnection, requests end, the server learns of drain, aclose returns | 2 requests for one job or two, 1 lost connection, 1 retry, room for 1 message: a request can wait for room, time out, be replaced by another for its job, and meet drain and aclose; before drain every status says that the worker is available (`Loads`), which are those that could undo it |
| `connection_pool` | one user, what is kept is open, no quiet leak, aclose closes all | 2 callers, 3 connections that may expire, 1 invalidation: two drains overlap, with a connection given up during each |
| `recognition` | each word delivered once and in order, delivered at all, nothing left after close | 3 words, 2 starts of speech, 2 commits, 1 clear, both modes |
| `job_proc` | SUCCESS means a clean end but in three named cases, implements ProcLife, processes end, inferences are answered | 2 inferences, 3 failures of any kind: enough for a dead inference process or a hang to meet a slow and then a dead worker |

Deadlock is checked for Chan. The other systems really stop (closed, drained with nothing
to do, or at a bound on what is created), so there it is not.

What the violations show:

* **drain of the worker skips a running job** (`pool_drain`), because executors leave the
  list while `_join_jobs` iterates it.
* **drain of an activity hangs** (`activity_drain`) if it begins during
  `on_user_turn_completed`: the reply is refused after its task was created.
* **An agent starts on a closed session** (`session_close`): `_aclose_impl` does not look
  at a handover that waits or drains.

Properties that hold but for a case the code does not handle name the case as a
disjunct or a condition, so that a run shows it is the only one:

* Chan: a receiver cancelled *after* its wake-up loses it for the others, because `recv`
  catches `Exception` and `CancelledError` is not one; `NoLostGetWakeup` is checked for
  receivers cancelled before (`LateCancellable` has senders only). That this is the only step
  by which a wake-up is lost is proved without that restriction.
* ProcPool: with an idle target of 0 `launch_job` counts a spawn task whose process already
  went to another job, and does not spawn; `pool_live` has target 1. `aclose` during
  `start()` leaves a process that nobody tells to leave, and a process gone before it could be
  initialized is joined for ever (`AcloseReturnsUnlessStarting` names both); a start that raises ends the wait for the others (`NoOrphanAfterClose`).
* AgentActivity: `aclose` without drain leaves queued speeches waiting (`ScheduledIsOver`).
* AgentSession: a hook that awaits a speech given to the next agent waits for itself
  (`HookAwaitsNext`); `update_agent` before `start` has returned only sets `_agent`
  (`early`); `aclose` cancels what is drained at that moment.
* Worker: a task that waits for room in the channel nobody empties, or for a process of the
  closed pool, keeps `aclose` waiting (`Blocked`).
* ConnectionPool: `_drain_to_close` clears `_to_close` at its end, also of what was given up
  while it waited (`late`). A connection that is made while `aclose` runs stays in the pool.
* Recognition: `START_OF_SPEECH` cancels the end-of-turn task of a turn that was committed
  by hand, and nothing starts it again (`cut`); `clear_user_turn` called just before
  `aclose` leaves its canceller behind (`stray`).
* JobProc: if the process is gone before the InitializeRequest is sent, nothing resolves
  `_initialize_fut` (`unsent`); a job launched on a process that is being closed (`late`) and
  one whose child missed the pings of a slow worker (`starved`) are reported as SUCCESS, and so
  is one whose `room.disconnect` raised, which runs no shutdown callback (`broken`);
  the futures of requests to a dead inference process are never resolved (`lost`).

## 5. Fairness

Every `FairSpec` but that of Worker is `Spec /\ WF_vars(Runs)`, where `Runs` is what the event loop, a timer or
the other end of a pipe does by itself, and what a user, an application, the network or a
failure does is left out. One weak fairness condition for all of `Runs` is enough and
asks for less than one for each task: the bounds allow finitely many steps of the
environment, and between two of them the tasks come to rest after finitely many steps, so none
of them can be put off for ever by the others. In Worker this fails, because `_load_task` and `_send_task` go round for as long as a
connection lasts: they are fair apart (`Updating`, `Sending`), and `Runs`, which is now and then
without room in the channel because of them, is strongly fair. The code justifies that: Chan wakes
the waiting senders in their order, which ChanProofs accounts for, and a status is built
only once per interval. What `Runs` contains, and why it may:

* *Chan*: the event loop resumes a task whose future is done. No call is assumed.
* *ProcPool*: the tasks of the pool run when they can; an initialization ends, at the latest by
  its timeout; a process told to leave leaves, by being killed. `MainTick` is in it
  because the loop wakes every 0.1 s. `FairJobsSpec` adds that jobs end, which `aclose` and the
  reuse of a bounded number of processes need.
* *AgentActivity*, *AgentSession*: ready tasks run; audio that plays ends, a cleared
  buffer is confirmed, and tools, hooks and `on_user_turn_completed` return, a hook unless
  it awaits a speech that is not over.
* *Worker*: ready tasks run, retry delays and the assignment timeout pass, what was
  sent arrives or the connection is seen to be broken. Jobs end only while `aclose` of the
  pool waits for them (it kills them). The server is never assumed to answer.
  Its liveness properties have the form `<>[]`: the requests are finitely many, and a closed
  worker or one out of retries remains so, hence what must end has ended from some point on.
* *Recognition*: the end-of-turn and commit delays pass, the turn detector answers or fails,
  and whoever speaks pauses.
* *JobProc*: messages are read, timers fire, and a process that received a kill signal ends.
  The job and its shutdown callbacks may never end, and a hung process stays hung.

## 6. Proofs

All theorems are checked by TLAPS for every value of the constants that the named
assumptions allow: bounds in `Nat`, Booleans, finite disjoint sets of tasks, and that the callers
of `aclose` are no other tasks.

**ChanProofs.** `BufferInv` bounds the queue by the capacity and links it with the
history variables; `WaitInv` says which tasks the deques contain (a sleeping task is in
its deque exactly once, a woken or departed one is not) and is needed because
`NoLostPutWakeup` and `ClosedWakesAll` say nothing of the deques from which the next
wake-up is taken. The main lemmas describe what `_wakeup_next` does to the number of
woken tasks. For the receivers `GetInv` says that the deque covers those that sleep; it is
inductive whatever is cancelled, and the balance of woken receivers and queued items is kept by
every step but one, the resumption of a receiver cancelled after its wake-up. Hence the action
property `OnlyLateCancelLosesGet` for all channels, and `NoGetWakeupIsLost` for those none
of whose receivers is in `LateCancellable`. Proved besides: `TypeCorrect`, `NothingIsLost`,
`NoPutWakeupIsLost`, `CloseWakesEveryone`, and `ImplementsFifoChannel`, the refinement.

**AgentActivityProofs.** `PlaysInTurn` is not inductive: it says nothing of speeches
in the queue. `QueueInv` adds that every speech created was refused, was authorized, or waits
in the queue in the order of creation behind everything authorized, and that
only the current speech is authorized and not over. `TaskInv` relates tasks to futures, and
`EndInv` says that the main task ends only while draining with nothing left, after
which nothing can be created. Proved: `TypeCorrect`, `SpeechesPlayInTurn`,
`DrainWaitsForEverything` and `KeepsItsPromise`, the refinement of ActivityLife.

**AgentSessionProofs.** The properties speak of activities, the code's order comes from
locks, so the invariant has to carry the one to the other. `Serial` says that updates
run one after the other: those before the one under way are over, those behind it are
queued, `activity` and `nextActivity` are what its place implies, and it drains the current
activity. `Mains` ties a main task to its update and lets only the current one run;
`Finished` says that one that ended left nothing to do; `Linked` follows `link` through the
handover of an agent to itself; `ActLocks` and `SessionLock` say who can be in a critical
section; `Drains` says that a running activity that drains has someone who waits for it,
and `Unsaid` that the speeches to come are unused. Moves of the updates are described once, in
lemmas on `...Move`, and each invariant is then preserved by one lemma. Proved: `TypeCorrect`,
`OneAgentAtATime`, `AgentIsLinked`, `LastAgentWins`, and `KeepsToLife`, the refinement: with
`KeepsItsPromise` both sides of the contract between session and activity are proved.

**ConnectionPoolProofs.** `MadeOnly` bounds the connections in use or kept by those made so
far, so that a new one has no other user; `DrainCovers` says what the `clear()` at the end of
a drain may forget (nothing that was there when the drain took its list, and nothing given
up while nobody drained), and `CloserOwes` what `aclose` has still to close. Proved:
`TypeCorrect`, `ConnectionsHaveOneUser`, `KeptConnectionsAreOpen`, `OnlyLateOnesLeak`,
`AcloseCloses`.

**RecognitionProofs.** `OneStream` says that only the current stream and those about to be
cancelled run, `Quiet` what each position of `aclose` has already stopped and that nothing that
still runs starts it again. `HeardOnce` is inductive together with the ranges of what was heard
(`Spoken`, `Plain`): a new word is larger than all those taken. `TurnStep` names the five
things a step can do to the texts, and the lemmas say what appending a word, dropping the
transcript and delivering it do to the order and to the set of final words. Proved:
`TypeCorrect`, `WordsHeardOnce`, `CloseIsQuiet`.

**JobProcProofs.** The property says nothing of a job that still runs, so the invariant follows
it there: `Unready` and `Ready` from the child's answer to `initialize` to `launch_job`,
`Requested` says who sent what is on its way, `GoesOn` that a job launched on an open
process is over, running, or has a StartJobRequest that no ShutdownRequest overtakes, and
`Outlived` that `_supervise_task` ends after the process. Proved: `TypeCorrect`,
`SuccessIsTruthful` (with its three exceptions), and `KeepsItsLife`, the refinement of ProcLife, for which `Gone` adds
that a job ends only with its process.

**ProcPoolProofs.** The invariant follows one process from its slot to its end and one job from
`launch_job` to it: `Fresh` says that the processes to come are unused, `Counted` that
`_jobs_waiting_for_process` is the number of jobs in `launch_job`, `Queued` that a waiting job
is once in the queue of getters, `Warmed` that a queued process is ready, free and queued
once, and `Taken` that a running job waits for nothing and that no process has two. For the
list, `Pending` says that a spawn task stays in `_spawn_tasks` until it is done, `Starting`
that its executor is listed before its process exists, `Watched` that a process whose spawn
task is over is monitored until it is dead, and `Closing` what each await of the cancelled
`_main_task` leaves to the next one, which is what `aclose` relies on. `list.remove` is dealt
with once, in a lemma. `Steps` sorts the actions by what they touch, so that each invariant
is broken down only over those that can disturb it. Proved: `TypeCorrect`, `ProcessesAreUsedOnce`,
`LiveProcessesAreListed`, `CloseLeavesNoOrphan`; `KeepsPoolLife`, the refinement of
PoolLife, for which `Placed` says that a job that runs has a live process (so that
none runs when `aclose` returns); and `KeepsToProcLife`, the other side of the contract with
JobProc, from `Warmed`, `Taken` and `Starting`.

**WorkerProofs.** Each invariant is an account: `Offered` of availability requests, `Reported` of
job updates, `Flying` of acceptances (queued, in hand or with the server, once each), `Earned`
of assignments, each of which used up an acceptance, `Answered` of launches and of the
assignments on their way, against those sent, with `Awaited` for the request whose future a job
has. What is queued or on its way is counted by `CountIn`, and two lemmas say how a
count changes when a sequence grows or loses its head. `Step` names the few things a step
can do to the accounts. Proved: `TypeCorrect`, `LaunchesAreAssigned` and
`MessagesOutliveConnections`.

Every invariant, action property and refinement of a passing run is a theorem. The type
invariants, but for that of AgentActivity, which bounds the chains of tool replies, and
`RespectsProcLife` of ProcPool are proved and not kept in a run.

The contracts meet at the shared module: what ProcPool supposes of a process is proved of
JobProc, what a session supposes of an activity of AgentActivity, and the two conditions
that Worker puts on its pool (a process is found only while the pool is not closed, and
`aclose` of the pool returns when no job runs) are those of PoolLife, proved of ProcPool. The
composition itself, that the conjunction of many components
implements the environment of their caller, is argued by the shape of the contracts (a step
of one process, call or activity leaves the others alone), not proved.

## 7. Only model-checked

The liveness properties, because TLAPS does not reason about fairness and ENABLED here:
`ClosedCallsReturn` (Chan); `StartReturns`, `WaitingServedWhileOpen`,
`AcloseReturnsUnlessStarting` (ProcPool); `ScheduledIsOver`, `DrainReturnsWithoutOrphans`
(AgentActivity); `HandoffEnds` (AgentSession); `RequestEnds`, `ServerLearnsDrain`,
`AcloseReturns` (Worker); `HeardIsDelivered` (Recognition); `ProcessEnds`,
`InferenceAnswered` (JobProc). The three violations are found by TLC alone.
Induction over data and recursive operators are out of the prover's reach; none is used.

## 8. Not modelled, and why

* Audio, text and model contents, chat context and metrics: no property is about them.
* The realtime-model path of AgentActivity. Its generation tasks share the scheduling that is
  modelled; its own protocol is that of one vendor's server.
* The fallback adapters and the retry loops of the base streams, the playout counters of
  AudioOutput and the transcription synchronizer, Tee: next in the plan.
* In AgentSession options, user and agent states, room and console I/O; in Worker load
  measurement, reload, simulated jobs and the HTTP server; in JobProc tracing, the thread
  executor and the contents of JobContext.
* Cancellation of `launch_job` while it waits (its only caller in the worker never
  cancels it); `SupervisedProc.kill`, which nothing calls.
* Transport framing, CLI, tracing page, plugins, tokenizers, images,
  resampling: I/O, serialization or sequential text processing. The plugins are most of the
  lines of the repository: clients of nearly thirty external services behind the same four
  interfaces, whose servers would have to be invented.
* `PROJECT.json` has the state of each component and the hazards no property covers.
