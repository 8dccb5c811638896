----------------------------- MODULE AgentSession -----------------------------
(***************************************************************************)
(* AgentSession of voice/agent_session.py: how the session hands the       *)
(* conversation from one agent to the next, routes what is said meanwhile, *)
(* and closes, on request or after an unrecoverable error.                 *)
(*                                                                         *)
(* Update u is the u-th call of _update_activity_task (the first one is    *)
(* awaited by start) and makes activity u.  An activity is modelled by the *)
(* promise of ActivityLife, which AgentActivity keeps: its main task, its  *)
(* hooks and its speeches.  A lock is the queue of the tasks that hold and *)
(* await it, its head the holder: asyncio.Lock is fair.                    *)
(***************************************************************************)
EXTENDS Naturals, Sequences, FiniteSets

CONSTANTS Agents,       \* the agents the application has
          FirstAgent,   \* the one that start is given
          MayBeUnfit,   \* whether the AgentActivity of an agent may be refused (ValueError)
          App, Failing, \* the callers of aclose and drain, and _closing_task
          MaxUpdates,   \* bound on the handoffs, the start included
          MaxSpeeches,  \* bound on the speeches
          MaxCalls,     \* bound on the calls of aclose and drain
          MaxErrors     \* bound on the unrecoverable errors

Updates  == 1 .. MaxUpdates
Speeches == 1 .. MaxSpeeches
Closers  == {App, Failing}
Procs    == Updates \cup Closers
Hooks    == {"on_enter", "on_exit"}

ASSUME SessionAssumption ==
  /\ FirstAgent \in Agents /\ MayBeUnfit \in BOOLEAN
  /\ MaxUpdates \in Nat \ {0} /\ MaxSpeeches \in Nat
  /\ MaxCalls \in Nat /\ MaxErrors \in Nat
  /\ App # Failing /\ App \notin Nat /\ Failing \notin Nat

VARIABLES
  agent,         \* _agent
  activity,      \* _activity
  nextActivity,  \* _next_activity, or 0
  started,       \* _started
  early,         \* history: update_agent was called before start had returned
  closed,        \* history: the close event was emitted
  lock,          \* _lock
  updates,       \* how many updates were made
  asked,         \* the agent each update is for
  pc,            \* where each update, and each caller of drain or aclose, is
  target,        \* the activity it drains or closes
  calls,         \* how often the application called aclose or drain
  errors,        \* how many unrecoverable errors there were
  actLock,       \* AgentActivity._lock of each activity
  main,          \* where _main_task of each activity is
  draining,      \* the activities whose _draining is set
  listening,     \* the activities whose error handlers are registered
  hooks,         \* the hooks of each activity that run
  awaits,        \* the speech each hook of each activity awaits, or 0
  link,          \* Agent._activity, or 0
  said,          \* how many speeches were made
  owner,         \* the activity each speech was scheduled on
  speech         \* how far each speech is

sessionVars == <<agent, activity, nextActivity, started, early, closed, lock>>
callVars    == <<updates, asked, calls, errors>>
procVars    == <<pc, target, actLock>>
actVars     == <<main, draining, listening, hooks, awaits, link>>
speechVars  == <<said, owner, speech>>
vars == <<sessionVars, callVars, procVars, actVars, speechVars>>

Places == {"none", "queued", "idle", "created", "drain", "drainWait", "lock",
           "close", "closing", "starting", "leaving", "done", "failed"}

TypeOK ==
  /\ agent \in Agents
  /\ activity \in Updates /\ nextActivity \in {0} \cup Updates
  /\ started \in BOOLEAN /\ early \in BOOLEAN /\ closed \in BOOLEAN
  /\ lock \in Seq(Procs)
  /\ updates \in Updates
  /\ asked \in [Updates -> Agents]
  /\ pc \in [Procs -> Places]
  /\ target \in [Procs -> Updates]
  /\ calls \in 0 .. MaxCalls /\ errors \in 0 .. MaxErrors
  /\ actLock \in [Updates -> Seq(Procs)]
  /\ main \in [Updates -> {"none", "running", "ended", "cancelled"}]
  /\ draining \subseteq Updates /\ listening \subseteq Updates
  /\ hooks \in [Updates -> SUBSET Hooks]
  /\ awaits \in [Updates -> [Hooks -> 0 .. MaxSpeeches]]
  /\ link \in [Agents -> {0} \cup Updates]
  /\ said \in 0 .. MaxSpeeches
  /\ owner \in [Speeches -> Updates]
  /\ speech \in [Speeches -> {"none", "queued", "playing", "done"}]

\* start has made the first activity and awaits its start, holding both locks.
Init ==
  /\ agent = FirstAgent
  /\ activity = 1 /\ nextActivity = 0
  /\ started = FALSE /\ early = FALSE /\ closed = FALSE
  /\ lock = <<1>>
  /\ updates = 1 /\ asked = [u \in Updates |-> agent]
  /\ pc = [p \in Procs |-> IF p = 1 THEN "starting" ELSE IF p \in Closers THEN "idle" ELSE "none"]
  /\ target = [p \in Procs |-> 1]
  /\ calls = 0 /\ errors = 0
  /\ actLock = [u \in Updates |-> IF u = 1 THEN <<1>> ELSE <<>>]
  /\ main = [u \in Updates |-> "none"]
  /\ draining = {} /\ listening = {}
  /\ hooks = [u \in Updates |-> {}]
  /\ awaits = [u \in Updates |-> [k \in Hooks |-> 0]]
  /\ link = [g \in Agents |-> IF g = agent THEN 1 ELSE 0]
  /\ said = 0
  /\ owner = [h \in Speeches |-> 1]
  /\ speech = [h \in Speeches |-> "none"]

-------------------------------------------------------------------------------
Over(p)    == pc[p] \in {"done", "failed"}
Unplayed(a) == {h \in Speeches : owner[h] = a /\ speech[h] \in {"queued", "playing"}}
Busy(a)    == hooks[a] # {} \/ Unplayed(a) # {}

\* update_agent.  Before start has returned it only notes the agent.
UpdateAgent(g) ==
  /\ updates < MaxUpdates
  /\ agent' = g
  /\ IF started
       THEN /\ updates' = updates + 1
            /\ asked' = [asked EXCEPT ![updates'] = g]
            /\ pc' = [pc EXCEPT ![updates'] = "queued"]
            /\ UNCHANGED early
       ELSE early' = TRUE /\ UNCHANGED <<updates, asked, pc>>
  /\ UNCHANGED <<activity, nextActivity, started, closed, lock, calls, errors, target,
                 actLock, actVars, speechVars>>

\* Mutant of HandoffBegins: the lock is not fair.
HandoffBeginsInAnyOrder(u) ==
  /\ pc[u] = "queued"
  /\ \A v \in 1 .. updates : Over(v) \/ pc[v] = "queued"
  /\ \/ /\ MayBeUnfit
        /\ pc' = [pc EXCEPT ![u] = "failed"]
        /\ UNCHANGED <<nextActivity, target, actLock>>
     \/ /\ nextActivity' = u
        /\ pc' = [pc EXCEPT ![u] = "drain"]
        /\ target' = [target EXCEPT ![u] = activity]
        /\ actLock' = [actLock EXCEPT ![activity] = Append(@, u)]
  /\ UNCHANGED <<agent, activity, started, early, closed, lock, callVars, actVars, speechVars>>

\* _update_activity_task has _activity_lock, which it takes in the order in which
\* the updates were made: the next activity is made and the old one's lock asked for.
HandoffBegins(u) ==
  /\ pc[u] = "queued"
  /\ \A v \in 1 .. u - 1 : Over(v)
  /\ \/ /\ MayBeUnfit
        /\ pc' = [pc EXCEPT ![u] = "failed"]
        /\ UNCHANGED <<nextActivity, target, actLock>>
     \/ /\ nextActivity' = u
        /\ pc' = [pc EXCEPT ![u] = "drain"]
        /\ target' = [target EXCEPT ![u] = activity]
        /\ actLock' = [actLock EXCEPT ![activity] = Append(@, u)]
  /\ UNCHANGED <<agent, activity, started, early, closed, lock, callVars, actVars, speechVars>>

\* The application calls drain or aclose.
AppDrains ==
  /\ pc[App] = "idle" /\ calls < MaxCalls
  /\ calls' = calls + 1
  /\ pc' = [pc EXCEPT ![App] = "drain"]
  /\ target' = [target EXCEPT ![App] = activity]
  /\ actLock' = [actLock EXCEPT ![activity] = Append(@, App)]
  /\ UNCHANGED <<sessionVars, updates, asked, errors, actVars, speechVars>>

AppCloses ==
  /\ pc[App] = "idle" /\ calls < MaxCalls
  /\ calls' = calls + 1
  /\ pc' = [pc EXCEPT ![App] = "lock"]
  /\ lock' = Append(lock, App)
  /\ UNCHANGED <<agent, activity, nextActivity, started, early, closed, updates, asked, errors,
                 target, actLock, actVars, speechVars>>

\* _on_error for an error that is not recoverable, while no closing task runs.
OnError(a) ==
  /\ a \in listening
  /\ pc[Failing] = "idle" /\ errors < MaxErrors
  /\ errors' = errors + 1
  /\ pc' = [pc EXCEPT ![Failing] = "created"]
  /\ UNCHANGED <<sessionVars, updates, asked, calls, target, actLock, actVars, speechVars>>

\* drain_and_close starts with drain.
ClosingBegins ==
  /\ pc[Failing] = "created"
  /\ pc' = [pc EXCEPT ![Failing] = "drain"]
  /\ target' = [target EXCEPT ![Failing] = activity]
  /\ actLock' = [actLock EXCEPT ![activity] = Append(@, Failing)]
  /\ UNCHANGED <<sessionVars, callVars, actVars, speechVars>>
-------------------------------------------------------------------------------
Holds(p, a) == actLock[a] # <<>> /\ Head(actLock[a]) = p
Released(a) == [actLock EXCEPT ![a] = Tail(@)]

\* Mutant of AfterDrain: drain keeps the activity's lock.
AfterDrainKeepsLock(p) ==
  /\ pc' = [pc EXCEPT ![p] = IF p \in Updates THEN "close" ELSE IF p = App THEN "idle" ELSE "lock"]
  /\ lock' = IF p = Failing THEN Append(lock, p) ELSE lock
  /\ UNCHANGED actLock

\* What follows the return of drain: an update asks for the lock again to close the
\* activity, _closing_task asks for the session's lock, the application goes on.
AfterDrain(p) ==
  LET a == target[p] IN
  \/ /\ p \in Updates
     /\ pc' = [pc EXCEPT ![p] = "close"]
     /\ actLock' = [actLock EXCEPT ![a] = Append(Tail(@), p)]
     /\ UNCHANGED lock
  \/ /\ p = Failing
     /\ pc' = [pc EXCEPT ![p] = "lock"]
     /\ actLock' = Released(a)
     /\ lock' = Append(lock, p)
  \/ /\ p = App
     /\ pc' = [pc EXCEPT ![p] = "idle"]
     /\ actLock' = Released(a)
     /\ UNCHANGED lock

\* AgentActivity.drain with its lock.
Drain(p) ==
  LET a == target[p] IN
  /\ pc[p] = "drain" /\ Holds(p, a)
  /\ IF a \in draining
       THEN AfterDrain(p) /\ UNCHANGED <<draining, hooks>>
       ELSE /\ draining' = draining \cup {a}
            /\ hooks' = [hooks EXCEPT ![a] = @ \cup {"on_exit"}]
            /\ pc' = [pc EXCEPT ![p] = "drainWait"]
            /\ UNCHANGED <<lock, actLock>>
  /\ UNCHANGED <<agent, activity, nextActivity, started, early, closed, callVars, target, main,
                 listening, awaits, link, speechVars>>

DrainReturns(p) ==
  /\ pc[p] = "drainWait" /\ main[target[p]] = "ended"
  /\ AfterDrain(p)
  /\ UNCHANGED <<agent, activity, nextActivity, started, early, closed, callVars, target,
                 actVars, speechVars>>

\* _main_task was cancelled by an aclose without drain: the await of it raises
\* CancelledError, which ends the update, the closing task or the application's call.
DrainRaises(p) ==
  /\ pc[p] = "drainWait" /\ main[target[p]] = "cancelled"
  /\ pc' = [pc EXCEPT ![p] = IF p \in Updates THEN "failed" ELSE "idle"]
  /\ actLock' = Released(target[p])
  /\ UNCHANGED <<sessionVars, callVars, target, actVars, speechVars>>

\* _aclose_impl with the session's lock.
CloseSession(p) ==
  /\ pc[p] = "lock" /\ lock # <<>> /\ Head(lock) = p
  /\ closed' = TRUE
  /\ pc' = [pc EXCEPT ![p] = "close"]
  /\ target' = [target EXCEPT ![p] = activity]
  /\ actLock' = [actLock EXCEPT ![activity] = Append(@, p)]
  /\ UNCHANGED <<agent, activity, nextActivity, started, early, lock, callVars, actVars,
                 speechVars>>

\* AgentActivity.aclose with its lock: the handlers go first, the main task last.
CloseActivity(p) ==
  /\ pc[p] = "close" /\ Holds(p, target[p])
  /\ listening' = listening \ {target[p]}
  /\ pc' = [pc EXCEPT ![p] = "closing"]
  /\ UNCHANGED <<sessionVars, callVars, target, actLock, main, draining, hooks, awaits, link,
                 speechVars>>

CancelMain(a) == main' = [main EXCEPT ![a] = IF @ = "running" THEN "cancelled" ELSE @]

\* Mutant of HandsOver: the old activity unlinks its agent after the new one linked it.
HandsOverUnlinksLast(u) ==
  LET a == target[u] IN
  /\ pc[u] = "closing" /\ u \in Updates
  /\ CancelMain(a)
  /\ activity' = nextActivity /\ nextActivity' = 0
  /\ link' = [link EXCEPT ![asked[u]] = nextActivity, ![asked[a]] = 0]
  /\ actLock' = [Released(a) EXCEPT ![nextActivity] = Append(@, u)]
  /\ target' = [target EXCEPT ![u] = nextActivity]
  /\ pc' = [pc EXCEPT ![u] = "starting"]
  /\ UNCHANGED <<agent, started, early, closed, lock, callVars, draining, listening, hooks,
                 awaits, speechVars>>

\* aclose of the activity returns to an update, which starts the next activity.
HandsOver(u) ==
  LET a == target[u] IN
  /\ pc[u] = "closing" /\ u \in Updates
  /\ CancelMain(a)
  /\ activity' = nextActivity /\ nextActivity' = 0
  /\ link' = [link EXCEPT ![asked[a]] = 0, ![asked[u]] = nextActivity]
  /\ actLock' = [Released(a) EXCEPT ![nextActivity] = Append(@, u)]
  /\ target' = [target EXCEPT ![u] = nextActivity]
  /\ pc' = [pc EXCEPT ![u] = "starting"]
  /\ UNCHANGED <<agent, started, early, closed, lock, callVars, draining, listening, hooks,
                 awaits, speechVars>>

\* ... or to _aclose_impl, which stops the forwarding of audio and the room's IO.
ActivityClosed(c) ==
  LET a == target[c] IN
  /\ pc[c] = "closing" /\ c \in Closers
  /\ CancelMain(a)
  /\ link' = [link EXCEPT ![asked[a]] = 0]
  /\ actLock' = Released(a)
  /\ pc' = [pc EXCEPT ![c] = "leaving"]
  /\ UNCHANGED <<sessionVars, callVars, target, draining, listening, hooks, awaits, speechVars>>

SessionClosed(c) ==
  /\ pc[c] = "leaving"
  /\ lock' = Tail(lock)
  /\ pc' = [pc EXCEPT ![c] = "idle"]
  /\ UNCHANGED <<agent, activity, nextActivity, started, early, closed, callVars, target,
                 actLock, actVars, speechVars>>

\* AgentActivity.start has made the main task and on_enter, and returns.
ActivityStarts(u) ==
  LET a == target[u] IN
  /\ pc[u] = "starting"
  /\ main' = [main EXCEPT ![a] = "running"]
  /\ hooks' = [hooks EXCEPT ![a] = {"on_enter"}]
  /\ listening' = listening \cup {a}
  /\ actLock' = Released(a)
  /\ pc' = [pc EXCEPT ![u] = "done"]
  /\ started' = TRUE
  /\ lock' = IF started THEN lock ELSE Tail(lock)
  /\ UNCHANGED <<agent, activity, nextActivity, early, closed, callVars, target, draining,
                 awaits, link, speechVars>>

-------------------------------------------------------------------------------
\* Mutant of Routed: the current activity is given everything.
RoutedToCurrent == activity

\* say and generate_reply: to the next activity while the current one drains, and
\* refused if there is none.
Routed == IF activity \in draining THEN nextActivity ELSE activity

Schedules ==
  /\ Routed # 0 /\ said < MaxSpeeches
  /\ said' = said + 1
  /\ owner' = [owner EXCEPT ![said'] = Routed]
  /\ speech' = [speech EXCEPT ![said'] = "queued"]

Say == Schedules /\ UNCHANGED <<sessionVars, callVars, procVars, actVars>>

\* A hook says something and awaits it ("await session.say()").
HookSays(a, k) ==
  /\ k \in hooks[a] /\ awaits[a][k] = 0
  /\ link[asked[a]] # 0
  /\ Schedules
  /\ awaits' = [awaits EXCEPT ![a][k] = said']
  /\ UNCHANGED <<sessionVars, callVars, procVars, main, draining, listening, hooks, link>>

HookReturns(a, k) ==
  /\ k \in hooks[a]
  /\ awaits[a][k] # 0 => speech[awaits[a][k]] = "done"
  /\ hooks' = [hooks EXCEPT ![a] = @ \ {k}]
  /\ UNCHANGED <<sessionVars, callVars, procVars, main, draining, listening, awaits, link,
                 speechVars>>

\* _main_task plays the speeches one after the other ...
Plays(h) ==
  /\ speech[h] = "queued" /\ main[owner[h]] = "running"
  /\ \A g \in Speeches : owner[g] = owner[h] =>
       /\ speech[g] # "playing"
       /\ g < h => speech[g] = "done"
  /\ speech' = [speech EXCEPT ![h] = "playing"]
  /\ UNCHANGED <<sessionVars, callVars, procVars, actVars, said, owner>>

SpeechEnds(h) ==
  /\ speech[h] = "playing"
  /\ speech' = [speech EXCEPT ![h] = "done"]
  /\ UNCHANGED <<sessionVars, callVars, procVars, actVars, said, owner>>

\* Mutant of MainEnds: the speeches are forgotten.
MainEndsAfterHooks(a) ==
  /\ main[a] = "running" /\ a \in draining /\ hooks[a] = {}
  /\ main' = [main EXCEPT ![a] = "ended"]
  /\ UNCHANGED <<sessionVars, callVars, procVars, draining, listening, hooks, awaits, link,
                 speechVars>>

\* ... and ends when it drains and nothing is left to do.
MainEnds(a) ==
  /\ main[a] = "running" /\ a \in draining /\ ~Busy(a)
  /\ main' = [main EXCEPT ![a] = "ended"]
  /\ UNCHANGED <<sessionVars, callVars, procVars, draining, listening, hooks, awaits, link,
                 speechVars>>

-------------------------------------------------------------------------------
Step(p) ==
  \/ Drain(p) \/ DrainReturns(p) \/ DrainRaises(p)
  \/ CloseActivity(p)

UpdateStep(u) == HandoffBegins(u) \/ Step(u) \/ HandsOver(u) \/ ActivityStarts(u)

CloserStep(c) == CloseSession(c) \/ Step(c) \/ ActivityClosed(c) \/ SessionClosed(c)

ActivityStep(a) == MainEnds(a) \/ \E k \in Hooks : HookReturns(a, k)

\* What the event loop runs once it is ready, whatever the application does.
Runs ==
  \/ \E u \in Updates : UpdateStep(u) \/ ActivityStep(u)
  \/ ClosingBegins
  \/ \E c \in Closers : CloserStep(c)
  \/ \E h \in Speeches : Plays(h) \/ SpeechEnds(h)

Next ==
  \/ \E g \in Agents : UpdateAgent(g)
  \/ AppDrains \/ AppCloses
  \/ \E a \in Updates : OnError(a)
  \/ Say
  \/ \E a \in Updates, k \in Hooks : HookSays(a, k)
  \/ Runs

Spec == Init /\ [][Next]_vars

\* The awaits of start and aclose return, speeches come to their end, and hooks return
\* unless they await a speech that does not: what is ready does not stay so for ever.
FairSpec == Spec /\ WF_vars(Runs)

-------------------------------------------------------------------------------
\* The conversation has one agent: while the main task of an activity runs, that of
\* no other does, and every activity before it that was drained has left nothing
\* behind: no hook, and no speech queued or still playing over the next agent's.
OneAgentSpeaks ==
  \A a, b \in Updates : a # b /\ main[a] = "running" =>
    /\ main[b] # "running"
    /\ main[b] = "ended" => ~Busy(b)

\* The running agent can reach its session (Agent.session, the default nodes), also
\* when the same agent is handed the conversation again, until the session closes.
RunningAgentIsLinked ==
  main[activity] = "running" /\ ~closed => link[asked[activity]] = activity

\* When no handoff is under way the activity is that of the agent last asked for
\* (current_agent), unless that was before start had returned or an update failed.
LatestAgentRuns ==
  (\A u \in 1 .. updates : pc[u] = "done") /\ ~early => asked[activity] = agent

\* Every handoff comes to its end, drained speeches included, whatever else drains
\* or closes meanwhile, unless a hook of the agent that is left awaits a speech
\* which the session gave to the next agent.
HookAwaitsNext ==
  \E a \in Updates : \E k \in hooks[a] :
    awaits[a][k] # 0 /\ main[owner[awaits[a][k]]] = "none"

HandoffPending == \E u \in 1 .. updates : ~Over(u)
HandoffEnds == HandoffPending ~> ~HandoffPending \/ HookAwaitsNext

\* A session that has closed is silent: no agent runs once the caller has returned and no
\* handoff is under way ("AgentSession is closing due to unrecoverable error").
ClosedSessionIsSilent ==
  closed /\ (\A c \in Closers : pc[c] = "idle") /\ (\A u \in 1 .. updates : Over(u))
    => \A a \in Updates : main[a] # "running"

\* The session keeps to the promise of ActivityLife for every activity.
Phase(a) ==
  CASE main[a] = "cancelled" -> "cancelled"
    [] main[a] = "ended" -> "drained"
    [] main[a] \in {"none", "running"} /\ a \in draining -> "draining"
    [] OTHER -> "open"

Life == INSTANCE ActivityLife
          WITH Activities <- Updates,
               busy <- {a \in Updates : Busy(a)}, phase <- [a \in Updates |-> Phase(a)]
ActivitiesKeepLife == Life!Spec
===============================================================================
