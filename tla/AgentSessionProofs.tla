-------------------------- MODULE AgentSessionProofs --------------------------
(***************************************************************************)
(* One agent speaks at a time, whatever the application asks of its        *)
(* session and in whatever order, for any number of handoffs and speeches. *)
(* The handoffs are carried out one after the other, and the lock of an    *)
(* activity keeps whoever drains it apart from whoever closes it: that is  *)
(* also why the session keeps to the life its activities promise it.       *)
(***************************************************************************)
EXTENDS AgentSession, TLAPS

Begun(u) == pc[u] \notin {"none", "queued"}
Leaving  == {"drain", "drainWait", "close", "closing"}

\* Updates and closers go different ways, and updates are numbered as they are made.
Numbered ==
  /\ \A u \in Updates :
       /\ pc[u] \notin {"idle", "created", "lock", "leaving"}
       /\ pc[u] = "none" <=> u > updates
  /\ \A c \in Closers : pc[c] \notin {"none", "queued", "starting", "done", "failed"}

\* Updates are carried out one after the other.
OneByOne == \A u, v \in Updates : Begun(u) /\ v < u => Over(v)

\* What the update under way leaves, and what it starts.
Current ==
  /\ \A u \in Updates :
       /\ pc[u] \in Leaving => target[u] = activity /\ nextActivity = u
       /\ pc[u] = "starting" => target[u] = u /\ activity = u
       /\ pc[u] = "done" => u <= activity
  /\ pc[activity] \in {"starting", "done"}
  /\ nextActivity # 0 => pc[nextActivity] \in Leaving \cup {"failed"}
  /\ ~started => updates = 1 /\ pc[1] = "starting"

\* What is drained or closed was made current once.
Targets == \A p \in Procs : pc[target[p]] \in {"starting", "done"}

Serial == Numbered /\ OneByOne /\ Current /\ Targets

\* A main task is made by the start of its activity and runs only in the current one.
Mains ==
  \A a \in Updates :
    /\ main[a] # "none" <=> pc[a] = "done"
    /\ main[a] = "running" => a = activity

\* One that ended has left nothing to do.
Finished ==
  \A a \in Updates : main[a] = "ended" => a \in draining /\ hooks[a] = {} /\ Unplayed(a) = {}

\* The agent of the current activity is linked to it, and the last update is for the
\* agent last asked for.
Linked ==
  /\ ~closed => link[asked[activity]] = activity
  /\ \A c \in Closers : pc[c] \in {"close", "closing", "leaving"} => closed
  /\ ~early => asked[updates] = agent

\* Who holds the lock of an activity; nobody asks for it before the activity is started.
ActLocks ==
  /\ \A p \in Procs : pc[p] \in {"drainWait", "closing", "starting"} => Holds(p, target[p])
  /\ \A a \in Updates : pc[a] \notin {"starting", "done"} => actLock[a] = <<>>

\* Who holds the lock of the session.
SessionLock ==
  /\ \A c \in Closers : pc[c] \in {"close", "closing", "leaving"} => lock # <<>> /\ Head(lock) = c
  /\ ~started => lock # <<>> /\ Head(lock) = 1

Locks == ActLocks /\ SessionLock

\* A drain under way holds the lock of its activity until the main task is over.
Drains ==
  \A a \in draining :
    /\ pc[a] = "done"
    /\ main[a] = "running" => \E p \in Procs : pc[p] = "drainWait" /\ target[p] = a

\* Speeches are numbered as they are made.
Unsaid == \A h \in Speeches : h > said => speech[h] = "none"

IInv ==
  TypeOK /\ Serial /\ Mains /\ Finished /\ Linked /\ Locks /\ Drains /\ Unsaid

LEMMA Actors ==
  /\ Updates \subseteq Nat \ {0} /\ 0 \notin Updates /\ 1 \in Updates
  /\ App \in Closers /\ Failing \in Closers /\ App # Failing
  /\ \A c \in Closers : c = App \/ c = Failing
  /\ Updates \subseteq Procs /\ Closers \subseteq Procs
  /\ \A p \in Procs : p \in Updates \/ p \in Closers
BY SessionAssumption DEF Updates, Closers, Procs

LEMMA Apart == \A c \in Closers : c \notin Updates
<1>1. Updates \subseteq Nat  BY Actors
<1>. QED  BY <1>1, Actors, SessionAssumption

-------------------------------------------------------------------------------
LEMMA ReleasedType ==
  ASSUME TypeOK, NEW a \in Updates, actLock[a] # <<>>
  PROVE  Released(a) \in [Updates -> Seq(Procs)]
BY DEF TypeOK, Released

LEMMA SubRange == 1 .. MaxSpeeches \subseteq 0 .. MaxSpeeches
BY SessionAssumption

LEMMA SchedulesType ==
  ASSUME TypeOK, Schedules
  PROVE  /\ said' \in 1 .. MaxSpeeches
         /\ owner' \in [Speeches -> Updates]
         /\ speech' \in [Speeches -> {"none", "queued", "playing", "done"}]
<1>1. Routed \in Updates
  BY DEF Schedules, Routed, TypeOK
<1>2. said' \in 1 .. MaxSpeeches /\ said' \in Speeches
  BY SessionAssumption DEF Schedules, TypeOK, Speeches
<1>. QED  BY <1>1, <1>2 DEF Schedules, TypeOK

LEMMA AfterDrainType ==
  ASSUME TypeOK, NEW p \in Procs, actLock[target[p]] # <<>>, AfterDrain(p)
  PROVE  /\ pc' \in [Procs -> Places]
         /\ actLock' \in [Updates -> Seq(Procs)]
         /\ lock' \in Seq(Procs)
<1>. USE Actors DEF TypeOK, Released, Places
<1>1. pc' \in [Procs -> Places]
  BY DEF AfterDrain
<1>2. actLock' \in [Updates -> Seq(Procs)]
  <2>1. target[p] \in Updates /\ actLock[target[p]] \in Seq(Procs)
    OBVIOUS
  <2>2. Tail(actLock[target[p]]) \in Seq(Procs)
    BY <2>1
  <2>3. Append(Tail(actLock[target[p]]), p) \in Seq(Procs)
    BY <2>2
  <2>4. \E s \in Seq(Procs) : actLock' = [actLock EXCEPT ![target[p]] = s]
    BY <2>2, <2>3 DEF AfterDrain
  <2>. QED  BY <2>4
<1>3. lock' \in Seq(Procs)
  <2>1. lock' = lock \/ lock' = Append(lock, p)
    BY DEF AfterDrain
  <2>2. lock \in Seq(Procs) /\ Append(lock, p) \in Seq(Procs)
    OBVIOUS
  <2>. QED  BY <2>1, <2>2
<1>. QED  BY <1>1, <1>2, <1>3

LEMMA TypeNext ==
  ASSUME TypeOK, Serial, Locks, [Next]_vars
  PROVE  TypeOK'
<1>. USE SessionAssumption, Actors DEF TypeOK, sessionVars, callVars, procVars, actVars, speechVars
<1>1. ASSUME NEW g \in Agents, UpdateAgent(g) PROVE TypeOK'
  <2>1. CASE started
    <3>1. updates + 1 \in Updates  BY <1>1 DEF UpdateAgent, Updates
    <3>2. updates' \in Updates
      BY <1>1, <2>1, <3>1 DEF UpdateAgent
    <3>4. asked' \in [Updates -> Agents]
      <4>1. asked' = [asked EXCEPT ![updates + 1] = g]
        BY <1>1, <2>1 DEF UpdateAgent
      <4>. QED  BY <4>1
    <3>3. pc' \in [Procs -> Places]
      BY <1>1, <2>1, <3>1 DEF UpdateAgent, Places
    <3>. QED  BY <1>1, <2>1, <3>2, <3>3, <3>4 DEF UpdateAgent
  <2>2. CASE ~started
    BY <1>1, <2>2 DEF UpdateAgent
  <2>. QED  BY <2>1, <2>2
<1>2. CASE AppDrains
  <2>1. pc' \in [Procs -> Places]  BY <1>2 DEF AppDrains, Places
  <2>2. target' \in [Procs -> Updates]  BY <1>2 DEF AppDrains
  <2>3. actLock' \in [Updates -> Seq(Procs)]  BY <1>2 DEF AppDrains
  <2>4. calls' \in 0 .. MaxCalls  BY <1>2 DEF AppDrains
  <2>. QED  BY <1>2, <2>1, <2>2, <2>3, <2>4 DEF AppDrains
<1>3. CASE AppCloses
  <2>1. pc' \in [Procs -> Places]  BY <1>3 DEF AppCloses, Places
  <2>2. lock' \in Seq(Procs)  BY <1>3 DEF AppCloses
  <2>3. calls' \in 0 .. MaxCalls  BY <1>3 DEF AppCloses
  <2>. QED  BY <1>3, <2>1, <2>2, <2>3 DEF AppCloses
<1>4. ASSUME NEW a \in Updates, OnError(a) PROVE TypeOK'
  <2>1. pc' \in [Procs -> Places]  BY <1>4 DEF OnError, Places
  <2>2. errors' \in 0 .. MaxErrors  BY <1>4 DEF OnError
  <2>. QED  BY <1>4, <2>1, <2>2 DEF OnError
<1>5. CASE Say
  <2>1. said' \in 0 .. MaxSpeeches  BY <1>5, SchedulesType, SubRange DEF Say
  <2>. QED  BY <1>5, <2>1, SchedulesType DEF Say
<1>6. ASSUME NEW a \in Updates, NEW k \in Hooks, HookSays(a, k) PROVE TypeOK'
  <2>1. said' \in 0 .. MaxSpeeches  BY <1>6, SchedulesType, SubRange DEF HookSays
  <2>2. awaits' \in [Updates -> [Hooks -> 0 .. MaxSpeeches]]
    BY <1>6, <2>1 DEF HookSays
  <2>. QED  BY <1>6, <2>1, <2>2, SchedulesType DEF HookSays
<1>7. ASSUME NEW u \in Updates, HandoffBegins(u) PROVE TypeOK'
  <2>. u \in Procs  OBVIOUS
  <2>1. pc' \in [Procs -> Places]
    <3>1. \E s \in Places : pc' = [pc EXCEPT ![u] = s]
      BY <1>7 DEF HandoffBegins, Places
    <3>. QED  BY <3>1
  <2>2. nextActivity' \in {0} \cup Updates
    BY <1>7 DEF HandoffBegins
  <2>3. target' \in [Procs -> Updates]
    <3>1. target' = target \/ target' = [target EXCEPT ![u] = activity]
      BY <1>7 DEF HandoffBegins
    <3>. QED  BY <3>1
  <2>4. actLock' \in [Updates -> Seq(Procs)]
    <3>1. Append(actLock[activity], u) \in Seq(Procs)  OBVIOUS
    <3>2. actLock' = actLock \/ actLock' = [actLock EXCEPT ![activity] = Append(actLock[activity], u)]
      BY <1>7 DEF HandoffBegins
    <3>3. [actLock EXCEPT ![activity] = Append(actLock[activity], u)] \in [Updates -> Seq(Procs)]
      BY <3>1
    <3>4. CASE actLock' = actLock  BY <3>4
    <3>. QED  BY <3>2, <3>3, <3>4
  <2>. QED  BY <1>7, <2>1, <2>2, <2>3, <2>4 DEF HandoffBegins
<1>8. ASSUME NEW p \in Procs, Drain(p) PROVE TypeOK'
  <2>1. CASE target[p] \in draining
    BY <1>8, <2>1, AfterDrainType DEF Drain, Holds
  <2>2. CASE target[p] \notin draining
    <3>1. hooks' \in [Updates -> SUBSET Hooks]
      <4>1. hooks[target[p]] \cup {"on_exit"} \in SUBSET Hooks  BY DEF Hooks
      <4>2. \E s \in SUBSET Hooks : hooks' = [hooks EXCEPT ![target[p]] = s]
        BY <1>8, <2>2, <4>1 DEF Drain
      <4>. QED  BY <4>2
    <3>2. draining' = draining \cup {target[p]}
      BY <1>8, <2>2 DEF Drain
    <3>3. pc' \in [Procs -> Places]
      BY <1>8, <2>2 DEF Drain, Places
    <3>4. lock' = lock /\ actLock' = actLock /\ target' = target
      BY <1>8, <2>2 DEF Drain
    <3>5. UNCHANGED <<agent, activity, nextActivity, started, early, closed, callVars, main,
                     listening, awaits, link, speechVars>>
      BY <1>8 DEF Drain
    <3>. QED  BY <3>1, <3>2, <3>3, <3>4, <3>5
  <2>. QED  BY <2>1, <2>2
<1>9. ASSUME NEW p \in Procs, DrainReturns(p) PROVE TypeOK'
  BY <1>9, AfterDrainType DEF DrainReturns, Locks, ActLocks, SessionLock, Holds
<1>10. ASSUME NEW p \in Procs, DrainRaises(p) PROVE TypeOK'
  <2>1. actLock' \in [Updates -> Seq(Procs)]
    BY <1>10, ReleasedType DEF DrainRaises, Locks, ActLocks, SessionLock, Holds
  <2>2. pc' \in [Procs -> Places]
    BY <1>10 DEF DrainRaises, Places
  <2>. QED  BY <1>10, <2>1, <2>2 DEF DrainRaises
<1>11. ASSUME NEW p \in Procs, CloseActivity(p) PROVE TypeOK'
  BY <1>11 DEF CloseActivity, Places
<1>12. ASSUME NEW u \in Updates, HandsOver(u) PROVE TypeOK'
  <2>1. nextActivity \in Updates  BY <1>12 DEF HandsOver, Serial, Current, Leaving
  <2>2. Released(target[u]) \in [Updates -> Seq(Procs)]
    BY <1>12, ReleasedType DEF HandsOver, Locks, ActLocks, SessionLock, Holds
  <2>3. actLock' \in [Updates -> Seq(Procs)]
    BY <1>12, <2>1, <2>2 DEF HandsOver
  <2>4. main' \in [Updates -> {"none", "running", "ended", "cancelled"}]
    BY <1>12 DEF HandsOver, CancelMain
  <2>5. link' \in [Agents -> {0} \cup Updates] /\ target' \in [Procs -> Updates]
    BY <1>12, <2>1 DEF HandsOver
  <2>9. pc' \in [Procs -> Places]
    BY <1>12 DEF HandsOver, Places
  <2>. QED  BY <1>12, <2>1, <2>3, <2>4, <2>5, <2>9 DEF HandsOver
<1>13. ASSUME NEW u \in Updates, ActivityStarts(u) PROVE TypeOK'
  <2>1. actLock' \in [Updates -> Seq(Procs)]
    BY <1>13, ReleasedType DEF ActivityStarts, Locks, ActLocks, SessionLock, Holds
  <2>2. lock' \in Seq(Procs)
    BY <1>13 DEF ActivityStarts, Locks, ActLocks, SessionLock
  <2>3. hooks' \in [Updates -> SUBSET Hooks]
    BY <1>13 DEF ActivityStarts, Hooks
  <2>4. pc' \in [Procs -> Places]
    BY <1>13 DEF ActivityStarts, Places
  <2>5. main' \in [Updates -> {"none", "running", "ended", "cancelled"}]
    BY <1>13 DEF ActivityStarts
  <2>6. listening' \subseteq Updates /\ started' \in BOOLEAN
    BY <1>13 DEF ActivityStarts
  <2>. QED  BY <1>13, <2>1, <2>2, <2>3, <2>4, <2>5, <2>6 DEF ActivityStarts
<1>14. ASSUME NEW a \in Updates, MainEnds(a) PROVE TypeOK'
  BY <1>14 DEF MainEnds
<1>15. ASSUME NEW a \in Updates, NEW k \in Hooks, HookReturns(a, k) PROVE TypeOK'
  BY <1>15 DEF HookReturns
<1>16. CASE ClosingBegins
  <2>1. pc' \in [Procs -> Places]  BY <1>16 DEF ClosingBegins, Places
  <2>2. target' \in [Procs -> Updates]  BY <1>16 DEF ClosingBegins
  <2>3. actLock' \in [Updates -> Seq(Procs)]  BY <1>16 DEF ClosingBegins
  <2>. QED  BY <1>16, <2>1, <2>2, <2>3 DEF ClosingBegins
<1>17. ASSUME NEW c \in Closers, CloseSession(c) PROVE TypeOK'
  <2>1. lock # <<>> /\ actLock' \in [Updates -> Seq(Procs)]
    BY <1>17 DEF CloseSession
  <2>9. pc' \in [Procs -> Places]
    BY <1>17 DEF CloseSession, Places
  <2>. QED  BY <1>17, <2>1, <2>9 DEF CloseSession
<1>18. ASSUME NEW c \in Closers, ActivityClosed(c) PROVE TypeOK'
  <2>1. actLock' \in [Updates -> Seq(Procs)]
    BY <1>18, ReleasedType DEF ActivityClosed, Locks, ActLocks, SessionLock, Holds
  <2>2. main' \in [Updates -> {"none", "running", "ended", "cancelled"}]
    BY <1>18 DEF ActivityClosed, CancelMain
  <2>3. link' \in [Agents -> {0} \cup Updates]
    BY <1>18 DEF ActivityClosed
  <2>9. pc' \in [Procs -> Places]
    BY <1>18 DEF ActivityClosed, Places
  <2>. QED  BY <1>18, <2>1, <2>2, <2>3, <2>9 DEF ActivityClosed
<1>19. ASSUME NEW c \in Closers, SessionClosed(c) PROVE TypeOK'
  <2>1. lock' \in Seq(Procs)
    BY <1>19 DEF SessionClosed, Locks, ActLocks, SessionLock
  <2>9. pc' \in [Procs -> Places]
    BY <1>19 DEF SessionClosed, Places
  <2>. QED  BY <1>19, <2>1, <2>9 DEF SessionClosed
<1>20. ASSUME NEW h \in Speeches, Plays(h) PROVE TypeOK'
  BY <1>20 DEF Plays
<1>21. ASSUME NEW h \in Speeches, SpeechEnds(h) PROVE TypeOK'
  BY <1>21 DEF SpeechEnds
<1>22. CASE UNCHANGED vars
  BY <1>22 DEF vars, sessionVars, callVars, procVars, actVars, speechVars
<1>. QED
  BY <1>1, <1>2, <1>3, <1>4, <1>5, <1>6, <1>7, <1>8, <1>9,
     <1>10, <1>11, <1>12, <1>13, <1>14, <1>15, <1>16, <1>17, <1>18,
     <1>19, <1>20, <1>21, <1>22
     DEF Next, Runs, UpdateStep, CloserStep, Step, ActivityStep, Procs

\* How the steps that have several outcomes move the updates and the closers.
UpdateMove(g) ==
  /\ UNCHANGED <<activity, nextActivity, target, started>>
  /\ \/ /\ ~started /\ early'
        /\ UNCHANGED <<updates, asked, pc>>
     \/ /\ started /\ updates' = updates + 1 /\ updates + 1 \in Updates
        /\ pc[updates + 1] = "none"
        /\ pc' = [pc EXCEPT ![updates + 1] = "queued"]
        /\ asked' = [asked EXCEPT ![updates + 1] = g]
        /\ early' = early

HandoffMove(u) ==
  /\ pc[u] = "queued"
  /\ \A v \in Updates : v < u => pc[v] \in {"done", "failed"}
  /\ \/ pc' = [pc EXCEPT ![u] = "failed"] /\ UNCHANGED <<nextActivity, target>>
     \/ /\ nextActivity' = u
        /\ pc' = [pc EXCEPT ![u] = "drain"]
        /\ target' = [target EXCEPT ![u] = activity]
  /\ UNCHANGED <<activity, started, updates>>

DrainMove(p) ==
  /\ pc[p] \in {"drain", "drainWait"}
  /\ \/ pc' = [pc EXCEPT ![p] = "drainWait"]
     \/ p \in Updates /\ pc' = [pc EXCEPT ![p] = "close"]
     \/ p \in Updates /\ pc' = [pc EXCEPT ![p] = "failed"]
     \/ p \in Closers /\ pc' = [pc EXCEPT ![p] = "lock"]
     \/ p \in Closers /\ pc' = [pc EXCEPT ![p] = "idle"]
  /\ UNCHANGED <<activity, nextActivity, started, updates, target>>

HandsOverMove(u) ==
  /\ pc[u] = "closing" /\ target[u] = activity /\ nextActivity = u
  /\ activity' = u /\ nextActivity' = 0 /\ activity < u
  /\ pc' = [pc EXCEPT ![u] = "starting"]
  /\ target' = [target EXCEPT ![u] = u]
  /\ UNCHANGED <<started, updates, asked>>

LEMMA AfterDrainMoves ==
  ASSUME TypeOK, NEW p \in Procs, AfterDrain(p)
  PROVE  \/ p \in Updates /\ pc' = [pc EXCEPT ![p] = "close"]
         \/ p \in Closers /\ pc' = [pc EXCEPT ![p] = "lock"]
         \/ p \in Closers /\ pc' = [pc EXCEPT ![p] = "idle"]
BY Actors DEF AfterDrain

LEMMA DrainMoves ==
  ASSUME TypeOK, NEW p \in Procs, Drain(p) \/ DrainReturns(p) \/ DrainRaises(p)
  PROVE  DrainMove(p)
<1>. USE DEF DrainMove
<1>1. CASE Drain(p)
  <2>1. CASE target[p] \in draining
    BY <1>1, <2>1, AfterDrainMoves DEF Drain, callVars
  <2>2. CASE target[p] \notin draining
    BY <1>1, <2>2 DEF Drain, callVars
  <2>. QED  BY <2>1, <2>2
<1>2. CASE DrainReturns(p)
  BY <1>2, AfterDrainMoves DEF DrainReturns, callVars
<1>3. CASE DrainRaises(p)
  BY <1>3, Actors DEF DrainRaises, callVars, sessionVars
<1>. QED  BY <1>1, <1>2, <1>3

LEMMA UpdateMoves ==
  ASSUME TypeOK, Numbered, NEW g \in Agents, UpdateAgent(g)
  PROVE  UpdateMove(g)
<1>. USE DEF UpdateMove
<1>1. CASE started
  <2>1. updates' = updates + 1 /\ updates + 1 \in Updates
    BY <1>1, SessionAssumption DEF UpdateAgent, Updates, TypeOK
  <2>2. pc[updates + 1] = "none"
    BY <2>1 DEF Numbered, Updates, TypeOK
  <2>. QED  BY <1>1, <2>1, <2>2 DEF UpdateAgent
<1>2. CASE ~started
  BY <1>2 DEF UpdateAgent
<1>. QED  BY <1>1, <1>2

LEMMA HandoffMoves ==
  ASSUME TypeOK, NEW u \in Updates, HandoffBegins(u)
  PROVE  HandoffMove(u)
BY DEF HandoffBegins, HandoffMove, Over, Updates, callVars

LEMMA HandsOverMoves ==
  ASSUME TypeOK, OneByOne, Current, NEW u \in Updates, HandsOver(u)
  PROVE  HandsOverMove(u)
<1>. USE DEF HandsOverMove
<1>1. pc[u] = "closing" /\ target[u] = activity /\ nextActivity = u
  BY DEF HandsOver, Current, Leaving
<1>2. activity \in Updates /\ pc[activity] \in {"starting", "done"}
  BY DEF Current, TypeOK
<1>3. activity # u /\ ~(u < activity)
  BY <1>1, <1>2 DEF OneByOne, Begun, Over
<1>4. activity < u
  BY <1>2, <1>3 DEF Updates
<1>. QED  BY <1>1, <1>4 DEF HandsOver, callVars

LEMMA NumberedNext ==
  ASSUME TypeOK, Serial, [Next]_vars
  PROVE  Numbered'
<1>. USE Actors, Apart
<1>. /\ pc \in [Procs -> Places] /\ target \in [Procs -> Updates]
      /\ activity \in Updates /\ nextActivity \in {0} \cup Updates /\ updates \in Updates
  BY DEF TypeOK
<1>. Numbered  BY DEF Serial
<1>1. ASSUME NEW g \in Agents, UpdateAgent(g) PROVE Numbered'
  <2>1. UpdateMove(g)  BY <1>1, UpdateMoves DEF Serial
  <2>. QED  BY <2>1 DEF UpdateMove, Numbered, Updates
<1>2. CASE AppDrains
  BY <1>2 DEF AppDrains, Numbered, sessionVars, callVars, procVars, actVars, speechVars
<1>3. CASE AppCloses
  BY <1>3 DEF AppCloses, Numbered, sessionVars, callVars, procVars, actVars, speechVars
<1>4. ASSUME NEW a \in Updates, OnError(a) PROVE Numbered'
  BY <1>4 DEF OnError, Numbered, sessionVars, callVars, procVars, actVars, speechVars
<1>5. CASE Say
  BY <1>5 DEF Say, Numbered, sessionVars, callVars, procVars, actVars, speechVars
<1>6. ASSUME NEW a \in Updates, NEW k \in Hooks, HookSays(a, k) PROVE Numbered'
  BY <1>6 DEF HookSays, Numbered, sessionVars, callVars, procVars, actVars, speechVars
<1>7. ASSUME NEW u \in Updates, HandoffBegins(u) PROVE Numbered'
  <2>1. HandoffMove(u)  BY <1>7, HandoffMoves DEF Serial
  <2>. QED  BY <2>1 DEF HandoffMove, Numbered, Updates
<1>8. ASSUME NEW p \in Procs, Drain(p) PROVE Numbered'
  <2>1. DrainMove(p)  BY <1>8, DrainMoves DEF Serial
  <2>. QED  BY <2>1 DEF DrainMove, Numbered, Updates
<1>9. ASSUME NEW p \in Procs, DrainReturns(p) PROVE Numbered'
  <2>1. DrainMove(p)  BY <1>9, DrainMoves DEF Serial
  <2>. QED  BY <2>1 DEF DrainMove, Numbered, Updates
<1>10. ASSUME NEW p \in Procs, DrainRaises(p) PROVE Numbered'
  <2>1. DrainMove(p)  BY <1>10, DrainMoves DEF Serial
  <2>. QED  BY <2>1 DEF DrainMove, Numbered, Updates
<1>11. ASSUME NEW p \in Procs, CloseActivity(p) PROVE Numbered'
  BY <1>11 DEF CloseActivity, Numbered, sessionVars, callVars, procVars, actVars, speechVars
<1>12. ASSUME NEW u \in Updates, HandsOver(u) PROVE Numbered'
  <2>1. HandsOverMove(u)  BY <1>12, HandsOverMoves DEF Serial
  <2>. QED  BY <2>1 DEF HandsOverMove, Numbered, Updates
<1>13. ASSUME NEW u \in Updates, ActivityStarts(u) PROVE Numbered'
  BY <1>13 DEF ActivityStarts, Numbered, sessionVars, callVars, procVars, actVars, speechVars
<1>14. ASSUME NEW a \in Updates, MainEnds(a) PROVE Numbered'
  BY <1>14 DEF MainEnds, Numbered, sessionVars, callVars, procVars, actVars, speechVars
<1>15. ASSUME NEW a \in Updates, NEW k \in Hooks, HookReturns(a, k) PROVE Numbered'
  BY <1>15 DEF HookReturns, Numbered, sessionVars, callVars, procVars, actVars, speechVars
<1>16. CASE ClosingBegins
  BY <1>16 DEF ClosingBegins, Numbered, sessionVars, callVars, procVars, actVars, speechVars
<1>17. ASSUME NEW c \in Closers, CloseSession(c) PROVE Numbered'
  BY <1>17 DEF CloseSession, Numbered, sessionVars, callVars, procVars, actVars, speechVars
<1>18. ASSUME NEW c \in Closers, ActivityClosed(c) PROVE Numbered'
  BY <1>18 DEF ActivityClosed, Numbered, sessionVars, callVars, procVars, actVars, speechVars
<1>19. ASSUME NEW c \in Closers, SessionClosed(c) PROVE Numbered'
  BY <1>19 DEF SessionClosed, Numbered, sessionVars, callVars, procVars, actVars, speechVars
<1>20. ASSUME NEW h \in Speeches, Plays(h) PROVE Numbered'
  BY <1>20 DEF Plays, Numbered, sessionVars, callVars, procVars, actVars, speechVars
<1>21. ASSUME NEW h \in Speeches, SpeechEnds(h) PROVE Numbered'
  BY <1>21 DEF SpeechEnds, Numbered, sessionVars, callVars, procVars, actVars, speechVars
<1>22. CASE UNCHANGED vars
  BY <1>22 DEF vars, Numbered, sessionVars, callVars, procVars, actVars, speechVars
<1>. QED
  BY <1>1, <1>2, <1>3, <1>4, <1>5, <1>6, <1>7, <1>8, <1>9,
     <1>10, <1>11, <1>12, <1>13, <1>14, <1>15, <1>16, <1>17, <1>18,
     <1>19, <1>20, <1>21, <1>22
     DEF Next, Runs, UpdateStep, CloserStep, Step, ActivityStep, Procs

LEMMA OneByOneNext ==
  ASSUME TypeOK, Serial, [Next]_vars
  PROVE  OneByOne'
<1>. USE Actors, Apart
<1>. /\ pc \in [Procs -> Places] /\ target \in [Procs -> Updates]
      /\ activity \in Updates /\ nextActivity \in {0} \cup Updates /\ updates \in Updates
  BY DEF TypeOK
<1>. OneByOne  BY DEF Serial
<1>1. ASSUME NEW g \in Agents, UpdateAgent(g) PROVE OneByOne'
  <2>1. UpdateMove(g)  BY <1>1, UpdateMoves DEF Serial
  <2>. QED  BY <2>1 DEF UpdateMove, OneByOne, Begun, Over, Updates
<1>2. CASE AppDrains
  BY <1>2 DEF AppDrains, OneByOne, Begun, Over, sessionVars, callVars, procVars, actVars, speechVars
<1>3. CASE AppCloses
  BY <1>3 DEF AppCloses, OneByOne, Begun, Over, sessionVars, callVars, procVars, actVars, speechVars
<1>4. ASSUME NEW a \in Updates, OnError(a) PROVE OneByOne'
  BY <1>4 DEF OnError, OneByOne, Begun, Over, sessionVars, callVars, procVars, actVars, speechVars
<1>5. CASE Say
  BY <1>5 DEF Say, OneByOne, Begun, Over, sessionVars, callVars, procVars, actVars, speechVars
<1>6. ASSUME NEW a \in Updates, NEW k \in Hooks, HookSays(a, k) PROVE OneByOne'
  BY <1>6 DEF HookSays, OneByOne, Begun, Over, sessionVars, callVars, procVars, actVars, speechVars
<1>7. ASSUME NEW u \in Updates, HandoffBegins(u) PROVE OneByOne'
  <2>1. HandoffMove(u)  BY <1>7, HandoffMoves DEF Serial
  <2>. QED  BY <2>1 DEF HandoffMove, OneByOne, Begun, Over, Updates
<1>8. ASSUME NEW p \in Procs, Drain(p) PROVE OneByOne'
  <2>1. DrainMove(p)  BY <1>8, DrainMoves DEF Serial
  <2>. QED  BY <2>1 DEF DrainMove, OneByOne, Begun, Over, Updates
<1>9. ASSUME NEW p \in Procs, DrainReturns(p) PROVE OneByOne'
  <2>1. DrainMove(p)  BY <1>9, DrainMoves DEF Serial
  <2>. QED  BY <2>1 DEF DrainMove, OneByOne, Begun, Over, Updates
<1>10. ASSUME NEW p \in Procs, DrainRaises(p) PROVE OneByOne'
  <2>1. DrainMove(p)  BY <1>10, DrainMoves DEF Serial
  <2>. QED  BY <2>1 DEF DrainMove, OneByOne, Begun, Over, Updates
<1>11. ASSUME NEW p \in Procs, CloseActivity(p) PROVE OneByOne'
  BY <1>11 DEF CloseActivity, OneByOne, Begun, Over, sessionVars, callVars, procVars, actVars, speechVars
<1>12. ASSUME NEW u \in Updates, HandsOver(u) PROVE OneByOne'
  <2>1. HandsOverMove(u)  BY <1>12, HandsOverMoves DEF Serial
  <2>. QED  BY <2>1 DEF HandsOverMove, OneByOne, Begun, Over, Updates
<1>13. ASSUME NEW u \in Updates, ActivityStarts(u) PROVE OneByOne'
  BY <1>13 DEF ActivityStarts, OneByOne, Begun, Over, sessionVars, callVars, procVars, actVars, speechVars
<1>14. ASSUME NEW a \in Updates, MainEnds(a) PROVE OneByOne'
  BY <1>14 DEF MainEnds, OneByOne, Begun, Over, sessionVars, callVars, procVars, actVars, speechVars
<1>15. ASSUME NEW a \in Updates, NEW k \in Hooks, HookReturns(a, k) PROVE OneByOne'
  BY <1>15 DEF HookReturns, OneByOne, Begun, Over, sessionVars, callVars, procVars, actVars, speechVars
<1>16. CASE ClosingBegins
  BY <1>16 DEF ClosingBegins, OneByOne, Begun, Over, sessionVars, callVars, procVars, actVars, speechVars
<1>17. ASSUME NEW c \in Closers, CloseSession(c) PROVE OneByOne'
  BY <1>17 DEF CloseSession, OneByOne, Begun, Over, sessionVars, callVars, procVars, actVars, speechVars
<1>18. ASSUME NEW c \in Closers, ActivityClosed(c) PROVE OneByOne'
  BY <1>18 DEF ActivityClosed, OneByOne, Begun, Over, sessionVars, callVars, procVars, actVars, speechVars
<1>19. ASSUME NEW c \in Closers, SessionClosed(c) PROVE OneByOne'
  BY <1>19 DEF SessionClosed, OneByOne, Begun, Over, sessionVars, callVars, procVars, actVars, speechVars
<1>20. ASSUME NEW h \in Speeches, Plays(h) PROVE OneByOne'
  BY <1>20 DEF Plays, OneByOne, Begun, Over, sessionVars, callVars, procVars, actVars, speechVars
<1>21. ASSUME NEW h \in Speeches, SpeechEnds(h) PROVE OneByOne'
  BY <1>21 DEF SpeechEnds, OneByOne, Begun, Over, sessionVars, callVars, procVars, actVars, speechVars
<1>22. CASE UNCHANGED vars
  BY <1>22 DEF vars, OneByOne, Begun, Over, sessionVars, callVars, procVars, actVars, speechVars
<1>. QED
  BY <1>1, <1>2, <1>3, <1>4, <1>5, <1>6, <1>7, <1>8, <1>9,
     <1>10, <1>11, <1>12, <1>13, <1>14, <1>15, <1>16, <1>17, <1>18,
     <1>19, <1>20, <1>21, <1>22
     DEF Next, Runs, UpdateStep, CloserStep, Step, ActivityStep, Procs

LEMMA CurrentNext ==
  ASSUME TypeOK, Serial, [Next]_vars
  PROVE  Current'
<1>. USE Actors, Apart
<1>. /\ pc \in [Procs -> Places] /\ target \in [Procs -> Updates]
      /\ activity \in Updates /\ nextActivity \in {0} \cup Updates /\ updates \in Updates
  BY DEF TypeOK
<1>. Numbered /\ OneByOne  BY DEF Serial
<1>. Current  BY DEF Serial
<1>1. ASSUME NEW g \in Agents, UpdateAgent(g) PROVE Current'
  <2>1. UpdateMove(g)  BY <1>1, UpdateMoves DEF Serial
  <2>. QED  BY <2>1 DEF UpdateMove, Current, Numbered, OneByOne, Begun, Over, Leaving, Updates
<1>2. CASE AppDrains
  BY <1>2 DEF AppDrains, Current, Leaving, sessionVars, callVars, procVars, actVars, speechVars
<1>3. CASE AppCloses
  BY <1>3 DEF AppCloses, Current, Leaving, sessionVars, callVars, procVars, actVars, speechVars
<1>4. ASSUME NEW a \in Updates, OnError(a) PROVE Current'
  BY <1>4 DEF OnError, Current, Leaving, sessionVars, callVars, procVars, actVars, speechVars
<1>5. CASE Say
  BY <1>5 DEF Say, Current, Leaving, sessionVars, callVars, procVars, actVars, speechVars
<1>6. ASSUME NEW a \in Updates, NEW k \in Hooks, HookSays(a, k) PROVE Current'
  BY <1>6 DEF HookSays, Current, Leaving, sessionVars, callVars, procVars, actVars, speechVars
<1>7. ASSUME NEW u \in Updates, HandoffBegins(u) PROVE Current'
  <2>1. HandoffMove(u)  BY <1>7, HandoffMoves DEF Serial
  <2>. QED  BY <2>1 DEF HandoffMove, Current, Numbered, OneByOne, Begun, Over, Leaving, Updates
<1>8. ASSUME NEW p \in Procs, Drain(p) PROVE Current'
  <2>1. DrainMove(p)  BY <1>8, DrainMoves DEF Serial
  <2>. QED  BY <2>1 DEF DrainMove, Current, Numbered, OneByOne, Begun, Over, Leaving, Updates
<1>9. ASSUME NEW p \in Procs, DrainReturns(p) PROVE Current'
  <2>1. DrainMove(p)  BY <1>9, DrainMoves DEF Serial
  <2>. QED  BY <2>1 DEF DrainMove, Current, Numbered, OneByOne, Begun, Over, Leaving, Updates
<1>10. ASSUME NEW p \in Procs, DrainRaises(p) PROVE Current'
  <2>1. DrainMove(p)  BY <1>10, DrainMoves DEF Serial
  <2>. QED  BY <2>1 DEF DrainMove, Current, Numbered, OneByOne, Begun, Over, Leaving, Updates
<1>11. ASSUME NEW p \in Procs, CloseActivity(p) PROVE Current'
  BY <1>11 DEF CloseActivity, Current, Leaving, sessionVars, callVars, procVars, actVars, speechVars
<1>12. ASSUME NEW u \in Updates, HandsOver(u) PROVE Current'
  <2>1. HandsOverMove(u)  BY <1>12, HandsOverMoves DEF Serial
  <2>. QED  BY <2>1 DEF HandsOverMove, Current, Numbered, OneByOne, Begun, Over, Leaving, Updates
<1>13. ASSUME NEW u \in Updates, ActivityStarts(u) PROVE Current'
  BY <1>13 DEF ActivityStarts, Current, Leaving, sessionVars, callVars, procVars, actVars, speechVars
<1>14. ASSUME NEW a \in Updates, MainEnds(a) PROVE Current'
  BY <1>14 DEF MainEnds, Current, Leaving, sessionVars, callVars, procVars, actVars, speechVars
<1>15. ASSUME NEW a \in Updates, NEW k \in Hooks, HookReturns(a, k) PROVE Current'
  BY <1>15 DEF HookReturns, Current, Leaving, sessionVars, callVars, procVars, actVars, speechVars
<1>16. CASE ClosingBegins
  BY <1>16 DEF ClosingBegins, Current, Leaving, sessionVars, callVars, procVars, actVars, speechVars
<1>17. ASSUME NEW c \in Closers, CloseSession(c) PROVE Current'
  BY <1>17 DEF CloseSession, Current, Leaving, sessionVars, callVars, procVars, actVars, speechVars
<1>18. ASSUME NEW c \in Closers, ActivityClosed(c) PROVE Current'
  BY <1>18 DEF ActivityClosed, Current, Leaving, sessionVars, callVars, procVars, actVars, speechVars
<1>19. ASSUME NEW c \in Closers, SessionClosed(c) PROVE Current'
  BY <1>19 DEF SessionClosed, Current, Leaving, sessionVars, callVars, procVars, actVars, speechVars
<1>20. ASSUME NEW h \in Speeches, Plays(h) PROVE Current'
  BY <1>20 DEF Plays, Current, Leaving, sessionVars, callVars, procVars, actVars, speechVars
<1>21. ASSUME NEW h \in Speeches, SpeechEnds(h) PROVE Current'
  BY <1>21 DEF SpeechEnds, Current, Leaving, sessionVars, callVars, procVars, actVars, speechVars
<1>22. CASE UNCHANGED vars
  BY <1>22 DEF vars, Current, Leaving, sessionVars, callVars, procVars, actVars, speechVars
<1>. QED
  BY <1>1, <1>2, <1>3, <1>4, <1>5, <1>6, <1>7, <1>8, <1>9,
     <1>10, <1>11, <1>12, <1>13, <1>14, <1>15, <1>16, <1>17, <1>18,
     <1>19, <1>20, <1>21, <1>22
     DEF Next, Runs, UpdateStep, CloserStep, Step, ActivityStep, Procs

LEMMA TargetsNext ==
  ASSUME TypeOK, Serial, [Next]_vars
  PROVE  Targets'
<1>. USE Actors, Apart
<1>. /\ pc \in [Procs -> Places] /\ target \in [Procs -> Updates]
      /\ activity \in Updates /\ nextActivity \in {0} \cup Updates /\ updates \in Updates
  BY DEF TypeOK
<1>. Current  BY DEF Serial
<1>. Targets  BY DEF Serial
<1>1. ASSUME NEW g \in Agents, UpdateAgent(g) PROVE Targets'
  <2>1. UpdateMove(g)  BY <1>1, UpdateMoves DEF Serial
  <2>. QED  BY <2>1 DEF UpdateMove, Targets, Current, Updates
<1>2. CASE AppDrains
  BY <1>2 DEF AppDrains, Targets, Current, sessionVars, callVars, procVars, actVars, speechVars
<1>3. CASE AppCloses
  BY <1>3 DEF AppCloses, Targets, Current, sessionVars, callVars, procVars, actVars, speechVars
<1>4. ASSUME NEW a \in Updates, OnError(a) PROVE Targets'
  BY <1>4 DEF OnError, Targets, Current, sessionVars, callVars, procVars, actVars, speechVars
<1>5. CASE Say
  BY <1>5 DEF Say, Targets, Current, sessionVars, callVars, procVars, actVars, speechVars
<1>6. ASSUME NEW a \in Updates, NEW k \in Hooks, HookSays(a, k) PROVE Targets'
  BY <1>6 DEF HookSays, Targets, Current, sessionVars, callVars, procVars, actVars, speechVars
<1>7. ASSUME NEW u \in Updates, HandoffBegins(u) PROVE Targets'
  <2>1. HandoffMove(u)  BY <1>7, HandoffMoves DEF Serial
  <2>. QED  BY <2>1 DEF HandoffMove, Targets, Current, Updates
<1>8. ASSUME NEW p \in Procs, Drain(p) PROVE Targets'
  <2>1. DrainMove(p)  BY <1>8, DrainMoves DEF Serial
  <2>. QED  BY <2>1 DEF DrainMove, Targets, Current, Updates
<1>9. ASSUME NEW p \in Procs, DrainReturns(p) PROVE Targets'
  <2>1. DrainMove(p)  BY <1>9, DrainMoves DEF Serial
  <2>. QED  BY <2>1 DEF DrainMove, Targets, Current, Updates
<1>10. ASSUME NEW p \in Procs, DrainRaises(p) PROVE Targets'
  <2>1. DrainMove(p)  BY <1>10, DrainMoves DEF Serial
  <2>. QED  BY <2>1 DEF DrainMove, Targets, Current, Updates
<1>11. ASSUME NEW p \in Procs, CloseActivity(p) PROVE Targets'
  BY <1>11 DEF CloseActivity, Targets, Current, sessionVars, callVars, procVars, actVars, speechVars
<1>12. ASSUME NEW u \in Updates, HandsOver(u) PROVE Targets'
  <2>1. HandsOverMove(u)  BY <1>12, HandsOverMoves DEF Serial
  <2>. QED  BY <2>1 DEF HandsOverMove, Targets, Current, Updates
<1>13. ASSUME NEW u \in Updates, ActivityStarts(u) PROVE Targets'
  BY <1>13 DEF ActivityStarts, Targets, Current, sessionVars, callVars, procVars, actVars, speechVars
<1>14. ASSUME NEW a \in Updates, MainEnds(a) PROVE Targets'
  BY <1>14 DEF MainEnds, Targets, Current, sessionVars, callVars, procVars, actVars, speechVars
<1>15. ASSUME NEW a \in Updates, NEW k \in Hooks, HookReturns(a, k) PROVE Targets'
  BY <1>15 DEF HookReturns, Targets, Current, sessionVars, callVars, procVars, actVars, speechVars
<1>16. CASE ClosingBegins
  BY <1>16 DEF ClosingBegins, Targets, Current, sessionVars, callVars, procVars, actVars, speechVars
<1>17. ASSUME NEW c \in Closers, CloseSession(c) PROVE Targets'
  BY <1>17 DEF CloseSession, Targets, Current, sessionVars, callVars, procVars, actVars, speechVars
<1>18. ASSUME NEW c \in Closers, ActivityClosed(c) PROVE Targets'
  BY <1>18 DEF ActivityClosed, Targets, Current, sessionVars, callVars, procVars, actVars, speechVars
<1>19. ASSUME NEW c \in Closers, SessionClosed(c) PROVE Targets'
  BY <1>19 DEF SessionClosed, Targets, Current, sessionVars, callVars, procVars, actVars, speechVars
<1>20. ASSUME NEW h \in Speeches, Plays(h) PROVE Targets'
  BY <1>20 DEF Plays, Targets, Current, sessionVars, callVars, procVars, actVars, speechVars
<1>21. ASSUME NEW h \in Speeches, SpeechEnds(h) PROVE Targets'
  BY <1>21 DEF SpeechEnds, Targets, Current, sessionVars, callVars, procVars, actVars, speechVars
<1>22. CASE UNCHANGED vars
  BY <1>22 DEF vars, Targets, Current, sessionVars, callVars, procVars, actVars, speechVars
<1>. QED
  BY <1>1, <1>2, <1>3, <1>4, <1>5, <1>6, <1>7, <1>8, <1>9,
     <1>10, <1>11, <1>12, <1>13, <1>14, <1>15, <1>16, <1>17, <1>18,
     <1>19, <1>20, <1>21, <1>22
     DEF Next, Runs, UpdateStep, CloserStep, Step, ActivityStep, Procs

-------------------------------------------------------------------------------
\* The main tasks.
LEMMA MainsNext ==
  ASSUME TypeOK, Serial, Mains, [Next]_vars
  PROVE  Mains'
<1>. USE Actors, Apart
<1>. /\ pc \in [Procs -> Places] /\ target \in [Procs -> Updates]
      /\ activity \in Updates /\ nextActivity \in {0} \cup Updates /\ updates \in Updates
      /\ main \in [Updates -> {"none", "running", "ended", "cancelled"}]
  BY DEF TypeOK
<1>. Numbered /\ Current /\ Mains  BY DEF Serial
<1>1. ASSUME NEW g \in Agents, UpdateAgent(g) PROVE Mains'
  <2>1. UpdateMove(g)  BY <1>1, UpdateMoves DEF Serial
  <2>2. UNCHANGED <<main>>  BY <1>1 DEF UpdateAgent, sessionVars, callVars, procVars, actVars, speechVars
  <2>. QED  BY <2>1, <2>2 DEF UpdateMove, Mains, Updates
<1>2. CASE AppDrains
  BY <1>2 DEF AppDrains, Mains, sessionVars, callVars, procVars, actVars, speechVars
<1>3. CASE AppCloses
  BY <1>3 DEF AppCloses, Mains, sessionVars, callVars, procVars, actVars, speechVars
<1>4. ASSUME NEW a \in Updates, OnError(a) PROVE Mains'
  BY <1>4 DEF OnError, Mains, sessionVars, callVars, procVars, actVars, speechVars
<1>5. CASE Say
  BY <1>5 DEF Say, Mains, sessionVars, callVars, procVars, actVars, speechVars
<1>6. ASSUME NEW a \in Updates, NEW k \in Hooks, HookSays(a, k) PROVE Mains'
  BY <1>6 DEF HookSays, Mains, sessionVars, callVars, procVars, actVars, speechVars
<1>7. ASSUME NEW u \in Updates, HandoffBegins(u) PROVE Mains'
  <2>1. HandoffMove(u)  BY <1>7, HandoffMoves DEF Serial
  <2>2. UNCHANGED <<main>>  BY <1>7 DEF HandoffBegins, sessionVars, callVars, procVars, actVars, speechVars
  <2>3. UNCHANGED activity  BY <2>1 DEF HandoffMove
  <2>4. ASSUME NEW a \in Updates PROVE pc'[a] = "done" <=> pc[a] = "done"
    BY <2>1 DEF HandoffMove
  <2>. QED  BY <2>2, <2>3, <2>4 DEF Mains
<1>8. ASSUME NEW p \in Procs, Drain(p) PROVE Mains'
  <2>1. DrainMove(p)  BY <1>8, DrainMoves DEF Serial
  <2>2. UNCHANGED <<main>>  BY <1>8 DEF Drain, sessionVars, callVars, procVars, actVars, speechVars
  <2>. QED  BY <2>1, <2>2 DEF DrainMove, Mains, Updates
<1>9. ASSUME NEW p \in Procs, DrainReturns(p) PROVE Mains'
  <2>1. DrainMove(p)  BY <1>9, DrainMoves DEF Serial
  <2>2. UNCHANGED <<main>>  BY <1>9 DEF DrainReturns, sessionVars, callVars, procVars, actVars, speechVars
  <2>. QED  BY <2>1, <2>2 DEF DrainMove, Mains, Updates
<1>10. ASSUME NEW p \in Procs, DrainRaises(p) PROVE Mains'
  <2>1. DrainMove(p)  BY <1>10, DrainMoves DEF Serial
  <2>2. UNCHANGED <<main>>  BY <1>10 DEF DrainRaises, sessionVars, callVars, procVars, actVars, speechVars
  <2>. QED  BY <2>1, <2>2 DEF DrainMove, Mains, Updates
<1>11. ASSUME NEW p \in Procs, CloseActivity(p) PROVE Mains'
  BY <1>11 DEF CloseActivity, Mains, sessionVars, callVars, procVars, actVars, speechVars
<1>12. ASSUME NEW u \in Updates, HandsOver(u) PROVE Mains'
  <2>1. HandsOverMove(u)  BY <1>12, HandsOverMoves DEF Serial
  <2>2. CancelMain(activity)  BY <1>12, <2>1 DEF HandsOver, HandsOverMove
  <2>. QED  BY <2>1, <2>2 DEF HandsOverMove, CancelMain, Mains
<1>13. ASSUME NEW u \in Updates, ActivityStarts(u) PROVE Mains'
  BY <1>13 DEF ActivityStarts, Current, Mains, sessionVars, callVars, procVars, actVars, speechVars
<1>14. ASSUME NEW a \in Updates, MainEnds(a) PROVE Mains'
  BY <1>14 DEF MainEnds, Mains, sessionVars, callVars, procVars, actVars, speechVars
<1>15. ASSUME NEW a \in Updates, NEW k \in Hooks, HookReturns(a, k) PROVE Mains'
  BY <1>15 DEF HookReturns, Mains, sessionVars, callVars, procVars, actVars, speechVars
<1>16. CASE ClosingBegins
  BY <1>16 DEF ClosingBegins, Mains, sessionVars, callVars, procVars, actVars, speechVars
<1>17. ASSUME NEW c \in Closers, CloseSession(c) PROVE Mains'
  BY <1>17 DEF CloseSession, Mains, sessionVars, callVars, procVars, actVars, speechVars
<1>18. ASSUME NEW c \in Closers, ActivityClosed(c) PROVE Mains'
  BY <1>18 DEF ActivityClosed, CancelMain, Mains, sessionVars, callVars, procVars, actVars, speechVars
<1>19. ASSUME NEW c \in Closers, SessionClosed(c) PROVE Mains'
  BY <1>19 DEF SessionClosed, Mains, sessionVars, callVars, procVars, actVars, speechVars
<1>20. ASSUME NEW h \in Speeches, Plays(h) PROVE Mains'
  BY <1>20 DEF Plays, Mains, sessionVars, callVars, procVars, actVars, speechVars
<1>21. ASSUME NEW h \in Speeches, SpeechEnds(h) PROVE Mains'
  BY <1>21 DEF SpeechEnds, Mains, sessionVars, callVars, procVars, actVars, speechVars
<1>22. CASE UNCHANGED vars
  BY <1>22 DEF vars, Mains, sessionVars, callVars, procVars, actVars, speechVars
<1>. QED
  BY <1>1, <1>2, <1>3, <1>4, <1>5, <1>6, <1>7, <1>8, <1>9,
     <1>10, <1>11, <1>12, <1>13, <1>14, <1>15, <1>16, <1>17, <1>18,
     <1>19, <1>20, <1>21, <1>22
     DEF Next, Runs, UpdateStep, CloserStep, Step, ActivityStep, Procs

\* Nothing is scheduled on an activity that is over.
LEMMA RoutedIsAlive ==
  ASSUME TypeOK, Serial, Mains, Finished, Schedules
  PROVE  /\ Routed \in Updates /\ main[Routed] # "ended"
         /\ \A a \in Updates : a # Routed => Unplayed(a)' \subseteq Unplayed(a)
<1>1. Routed \in Updates
  BY DEF Schedules, Routed, TypeOK
<1>2. main[Routed] # "ended"
  <2>1. CASE activity \notin draining
    BY <2>1 DEF Routed, Finished, TypeOK
  <2>2. CASE activity \in draining
    <3>1. Routed = nextActivity /\ nextActivity # 0  BY <2>2 DEF Routed, Schedules
    <3>2. pc[nextActivity] # "done"  BY <3>1 DEF Serial, Current, Leaving
    <3>. QED  BY <1>1, <3>1, <3>2 DEF Mains
  <2>. QED  BY <2>1, <2>2
<1>3. ASSUME NEW a \in Updates, a # Routed, NEW h \in Unplayed(a)'
      PROVE  h \in Unplayed(a)
  <2>1. h \in Speeches /\ owner'[h] = a /\ speech'[h] \in {"queued", "playing"}
    BY <1>3 DEF Unplayed
  <2>2. h # said'
    BY <1>1, <1>3, <2>1 DEF Schedules, TypeOK
  <2>3. owner[h] = a /\ speech[h] \in {"queued", "playing"}
    BY <2>1, <2>2 DEF Schedules, TypeOK
  <2>. QED  BY <2>1, <2>3 DEF Unplayed
<1>. QED  BY <1>1, <1>2, <1>3

LEMMA FinishedNext ==
  ASSUME TypeOK, Serial, Mains, Finished, [Next]_vars
  PROVE  Finished'
<1>. USE Actors, Apart
<1>. /\ pc \in [Procs -> Places] /\ target \in [Procs -> Updates]
      /\ main \in [Updates -> {"none", "running", "ended", "cancelled"}]
      /\ hooks \in [Updates -> SUBSET Hooks] /\ draining \subseteq Updates
      /\ owner \in [Speeches -> Updates]
      /\ speech \in [Speeches -> {"none", "queued", "playing", "done"}]
  BY DEF TypeOK
<1>. Finished
  OBVIOUS
<1>1. ASSUME NEW g \in Agents, UpdateAgent(g) PROVE Finished'
  BY <1>1 DEF UpdateAgent, Finished, Unplayed, sessionVars, callVars, procVars, actVars, speechVars
<1>2. CASE AppDrains
  BY <1>2 DEF AppDrains, Finished, Unplayed, sessionVars, callVars, procVars, actVars, speechVars
<1>3. CASE AppCloses
  BY <1>3 DEF AppCloses, Finished, Unplayed, sessionVars, callVars, procVars, actVars, speechVars
<1>4. ASSUME NEW a \in Updates, OnError(a) PROVE Finished'
  BY <1>4 DEF OnError, Finished, Unplayed, sessionVars, callVars, procVars, actVars, speechVars
<1>5. CASE Say
  <2>1. Schedules /\ UNCHANGED <<main, draining, hooks>>  BY <1>5 DEF Say, actVars
  <2>. QED  BY <2>1, RoutedIsAlive DEF Finished
<1>6. ASSUME NEW a \in Updates, NEW k \in Hooks, HookSays(a, k) PROVE Finished'
  <2>1. Schedules /\ UNCHANGED <<main, draining, hooks>>  BY <1>6 DEF HookSays
  <2>. QED  BY <2>1, RoutedIsAlive DEF Finished
<1>7. ASSUME NEW u \in Updates, HandoffBegins(u) PROVE Finished'
  BY <1>7 DEF HandoffBegins, Finished, Unplayed, sessionVars, callVars, procVars, actVars, speechVars
<1>8. ASSUME NEW p \in Procs, Drain(p) PROVE Finished'
  <2>1. \A b \in Updates : Unplayed(b)' = Unplayed(b)  BY <1>8 DEF Drain, speechVars, Unplayed
  <2>. QED  BY <1>8, <2>1 DEF Drain, Finished
<1>9. ASSUME NEW p \in Procs, DrainReturns(p) PROVE Finished'
  BY <1>9 DEF DrainReturns, Finished, Unplayed, sessionVars, callVars, procVars, actVars, speechVars
<1>10. ASSUME NEW p \in Procs, DrainRaises(p) PROVE Finished'
  BY <1>10 DEF DrainRaises, Finished, Unplayed, sessionVars, callVars, procVars, actVars, speechVars
<1>11. ASSUME NEW p \in Procs, CloseActivity(p) PROVE Finished'
  BY <1>11 DEF CloseActivity, Finished, Unplayed, sessionVars, callVars, procVars, actVars, speechVars
<1>12. ASSUME NEW u \in Updates, HandsOver(u) PROVE Finished'
  BY <1>12 DEF HandsOver, CancelMain, Finished, Unplayed, sessionVars, callVars, procVars, actVars, speechVars
<1>13. ASSUME NEW u \in Updates, ActivityStarts(u) PROVE Finished'
  <2>1. main'[target[u]] = "running" /\ \A b \in Updates : b # target[u] =>
          main'[b] = main[b] /\ hooks'[b] = hooks[b]
    BY <1>13 DEF ActivityStarts
  <2>2. draining' = draining /\ \A b \in Updates : Unplayed(b)' = Unplayed(b)
    BY <1>13 DEF ActivityStarts, speechVars, Unplayed
  <2>. QED  BY <2>1, <2>2 DEF Finished
<1>14. ASSUME NEW a \in Updates, MainEnds(a) PROVE Finished'
  BY <1>14 DEF MainEnds, Busy, Finished, Unplayed, sessionVars, callVars, procVars, actVars, speechVars
<1>15. ASSUME NEW a \in Updates, NEW k \in Hooks, HookReturns(a, k) PROVE Finished'
  BY <1>15 DEF HookReturns, Finished, Unplayed, sessionVars, callVars, procVars, actVars, speechVars
<1>16. CASE ClosingBegins
  BY <1>16 DEF ClosingBegins, Finished, Unplayed, sessionVars, callVars, procVars, actVars, speechVars
<1>17. ASSUME NEW c \in Closers, CloseSession(c) PROVE Finished'
  BY <1>17 DEF CloseSession, Finished, Unplayed, sessionVars, callVars, procVars, actVars, speechVars
<1>18. ASSUME NEW c \in Closers, ActivityClosed(c) PROVE Finished'
  BY <1>18 DEF ActivityClosed, CancelMain, Finished, Unplayed, sessionVars, callVars, procVars, actVars, speechVars
<1>19. ASSUME NEW c \in Closers, SessionClosed(c) PROVE Finished'
  BY <1>19 DEF SessionClosed, Finished, Unplayed, sessionVars, callVars, procVars, actVars, speechVars
<1>20. ASSUME NEW h \in Speeches, Plays(h) PROVE Finished'
  <2>1. \A b \in Updates : Unplayed(b)' = Unplayed(b)
    BY <1>20 DEF Plays, Unplayed
  <2>. QED  BY <1>20, <2>1 DEF Plays, Finished, actVars
<1>21. ASSUME NEW h \in Speeches, SpeechEnds(h) PROVE Finished'
  <2>1. \A b \in Updates : Unplayed(b)' \subseteq Unplayed(b)
    BY <1>21 DEF SpeechEnds, Unplayed
  <2>. QED  BY <1>21, <2>1 DEF SpeechEnds, Finished, actVars
<1>22. CASE UNCHANGED vars
  BY <1>22 DEF vars, Finished, Unplayed, sessionVars, callVars, procVars, actVars, speechVars
<1>. QED
  BY <1>1, <1>2, <1>3, <1>4, <1>5, <1>6, <1>7, <1>8, <1>9,
     <1>10, <1>11, <1>12, <1>13, <1>14, <1>15, <1>16, <1>17, <1>18,
     <1>19, <1>20, <1>21, <1>22
     DEF Next, Runs, UpdateStep, CloserStep, Step, ActivityStep, Procs

-------------------------------------------------------------------------------
\* The links between agents and activities.
LEMMA LinkedNext ==
  ASSUME TypeOK, Serial, Linked, [Next]_vars
  PROVE  Linked'
<1>. USE Actors, Apart
<1>. /\ pc \in [Procs -> Places] /\ target \in [Procs -> Updates]
      /\ activity \in Updates /\ nextActivity \in {0} \cup Updates /\ updates \in Updates
      /\ asked \in [Updates -> Agents] /\ link \in [Agents -> {0} \cup Updates]
  BY DEF TypeOK
<1>. Numbered /\ Current /\ Linked
  BY DEF Serial
<1>1. ASSUME NEW g \in Agents, UpdateAgent(g) PROVE Linked'
  <2>1. UpdateMove(g)  BY <1>1, UpdateMoves DEF Serial
  <2>2. agent' = g /\ UNCHANGED <<link, closed>>  BY <1>1 DEF UpdateAgent, actVars
  <2>3. pc[updates + 1] = "none" => activity # updates + 1  BY DEF Current
  <2>. QED  BY <2>1, <2>2, <2>3 DEF UpdateMove, Linked
<1>2. CASE AppDrains
  BY <1>2 DEF AppDrains, Linked, sessionVars, callVars, procVars, actVars, speechVars
<1>3. CASE AppCloses
  BY <1>3 DEF AppCloses, Linked, sessionVars, callVars, procVars, actVars, speechVars
<1>4. ASSUME NEW a \in Updates, OnError(a) PROVE Linked'
  BY <1>4 DEF OnError, Linked, sessionVars, callVars, procVars, actVars, speechVars
<1>5. CASE Say
  BY <1>5 DEF Say, Linked, sessionVars, callVars, procVars, actVars, speechVars
<1>6. ASSUME NEW a \in Updates, NEW k \in Hooks, HookSays(a, k) PROVE Linked'
  BY <1>6 DEF HookSays, Linked, sessionVars, callVars, procVars, actVars, speechVars
<1>7. ASSUME NEW u \in Updates, HandoffBegins(u) PROVE Linked'
  <2>1. HandoffMove(u)  BY <1>7, HandoffMoves DEF Serial
  <2>2. UNCHANGED <<closed, agent, early, link, asked>>  BY <1>7 DEF HandoffBegins, sessionVars, callVars, procVars, actVars, speechVars
  <2>. QED  BY <2>1, <2>2 DEF HandoffMove, Linked
<1>8. ASSUME NEW p \in Procs, Drain(p) PROVE Linked'
  <2>1. DrainMove(p)  BY <1>8, DrainMoves DEF Serial
  <2>2. UNCHANGED <<closed, agent, early, link, asked>>  BY <1>8 DEF Drain, sessionVars, callVars, procVars, actVars, speechVars
  <2>. QED  BY <2>1, <2>2 DEF DrainMove, Linked
<1>9. ASSUME NEW p \in Procs, DrainReturns(p) PROVE Linked'
  <2>1. DrainMove(p)  BY <1>9, DrainMoves DEF Serial
  <2>2. UNCHANGED <<closed, agent, early, link, asked>>  BY <1>9 DEF DrainReturns, sessionVars, callVars, procVars, actVars, speechVars
  <2>. QED  BY <2>1, <2>2 DEF DrainMove, Linked
<1>10. ASSUME NEW p \in Procs, DrainRaises(p) PROVE Linked'
  <2>1. DrainMove(p)  BY <1>10, DrainMoves DEF Serial
  <2>2. UNCHANGED <<closed, agent, early, link, asked>>  BY <1>10 DEF DrainRaises, sessionVars, callVars, procVars, actVars, speechVars
  <2>. QED  BY <2>1, <2>2 DEF DrainMove, Linked
<1>11. ASSUME NEW p \in Procs, CloseActivity(p) PROVE Linked'
  BY <1>11 DEF CloseActivity, Linked, sessionVars, callVars, procVars, actVars, speechVars
<1>12. ASSUME NEW u \in Updates, HandsOver(u) PROVE Linked'
  <2>1. HandsOverMove(u)  BY <1>12, HandsOverMoves DEF Serial
  <2>2. link' = [link EXCEPT ![asked[activity]] = 0, ![asked[u]] = u]
    BY <1>12, <2>1 DEF HandsOver, HandsOverMove
  <2>3. UNCHANGED <<closed, agent, early>>  BY <1>12 DEF HandsOver
  <2>. QED  BY <2>1, <2>2, <2>3 DEF HandsOverMove, Linked
<1>13. ASSUME NEW u \in Updates, ActivityStarts(u) PROVE Linked'
  BY <1>13 DEF ActivityStarts, Linked, sessionVars, callVars, procVars, actVars, speechVars
<1>14. ASSUME NEW a \in Updates, MainEnds(a) PROVE Linked'
  BY <1>14 DEF MainEnds, Linked, sessionVars, callVars, procVars, actVars, speechVars
<1>15. ASSUME NEW a \in Updates, NEW k \in Hooks, HookReturns(a, k) PROVE Linked'
  BY <1>15 DEF HookReturns, Linked, sessionVars, callVars, procVars, actVars, speechVars
<1>16. CASE ClosingBegins
  BY <1>16 DEF ClosingBegins, Linked, sessionVars, callVars, procVars, actVars, speechVars
<1>17. ASSUME NEW c \in Closers, CloseSession(c) PROVE Linked'
  BY <1>17 DEF CloseSession, Linked, sessionVars, callVars, procVars, actVars, speechVars
<1>18. ASSUME NEW c \in Closers, ActivityClosed(c) PROVE Linked'
  BY <1>18 DEF ActivityClosed, Linked, sessionVars, callVars, procVars, actVars, speechVars
<1>19. ASSUME NEW c \in Closers, SessionClosed(c) PROVE Linked'
  BY <1>19 DEF SessionClosed, Linked, sessionVars, callVars, procVars, actVars, speechVars
<1>20. ASSUME NEW h \in Speeches, Plays(h) PROVE Linked'
  BY <1>20 DEF Plays, Linked, sessionVars, callVars, procVars, actVars, speechVars
<1>21. ASSUME NEW h \in Speeches, SpeechEnds(h) PROVE Linked'
  BY <1>21 DEF SpeechEnds, Linked, sessionVars, callVars, procVars, actVars, speechVars
<1>22. CASE UNCHANGED vars
  BY <1>22 DEF vars, Linked, sessionVars, callVars, procVars, actVars, speechVars
<1>. QED
  BY <1>1, <1>2, <1>3, <1>4, <1>5, <1>6, <1>7, <1>8, <1>9,
     <1>10, <1>11, <1>12, <1>13, <1>14, <1>15, <1>16, <1>17, <1>18,
     <1>19, <1>20, <1>21, <1>22
     DEF Next, Runs, UpdateStep, CloserStep, Step, ActivityStep, Procs

-------------------------------------------------------------------------------
\* The locks.
LEMMA QueueKeeps ==
  ASSUME TypeOK, NEW a \in Updates, NEW x \in Procs, actLock' = [actLock EXCEPT ![a] = Append(@, x)],
         NEW q \in Procs, NEW b \in Updates, Holds(q, b)
  PROVE  actLock'[b] # <<>> /\ Head(actLock'[b]) = q
<1>1. actLock[a] \in Seq(Procs) /\ actLock[b] \in Seq(Procs)  BY DEF TypeOK
<1>2. CASE b = a
  <2>1. actLock[a] # <<>> /\ Head(actLock[a]) = q /\ actLock'[a] = Append(actLock[a], x)
    BY <1>2 DEF Holds, TypeOK
  <2>2. Len(actLock[a]) > 0 /\ Len(Append(actLock[a], x)) = Len(actLock[a]) + 1
    BY <1>1, <2>1
  <2>3. Append(actLock[a], x)[1] = actLock[a][1]
    BY <1>1, <2>2
  <2>. QED  BY <1>1, <1>2, <2>1, <2>2, <2>3
<1>3. CASE b # a
  BY <1>3 DEF Holds, TypeOK
<1>. QED  BY <1>2, <1>3

LEMMA ReleaseKeeps ==
  ASSUME TypeOK, NEW a \in Updates, NEW p \in Procs, Holds(p, a),
         NEW q \in Procs, q # p, NEW b \in Updates, Holds(q, b),
         \A c \in Updates : c # a => actLock'[c] = actLock[c]
  PROVE  actLock'[b] # <<>> /\ Head(actLock'[b]) = q
<1>1. b # a
  BY DEF Holds
<1>. QED  BY <1>1 DEF Holds

\* p takes its place in the queue for the lock of a, or gives the lock back.
LockMove(p) ==
  \/ UNCHANGED actLock
  \/ \E a \in Updates : /\ pc[a] \in {"starting", "done"}
                        /\ actLock' = [actLock EXCEPT ![a] = Append(@, p)]
  \/ /\ Holds(p, target[p])
     /\ \A c \in Updates : c # target[p] => actLock'[c] = actLock[c]

LEMMA LockMoves ==
  ASSUME TypeOK, Targets, ActLocks, NEW p \in Procs, LockMove(p),
         \A q \in Procs : q # p => target'[q] = target[q] /\ (pc'[q] = pc[q] \/ pc'[q] = "queued"),
         pc'[p] \notin {"drainWait", "closing", "starting"},
         \A a \in Updates : pc[a] \in {"starting", "done"} => pc'[a] \in {"starting", "done"}
  PROVE  ActLocks'
<1>1. ASSUME NEW q \in Procs, pc'[q] \in {"drainWait", "closing", "starting"}
      PROVE  actLock'[target'[q]] # <<>> /\ Head(actLock'[target'[q]]) = q
  <2>1. q # p /\ target'[q] = target[q] /\ target[q] \in Updates /\ Holds(q, target[q])
    BY <1>1 DEF ActLocks, TypeOK
  <2>2. CASE UNCHANGED actLock
    BY <2>1, <2>2 DEF Holds
  <2>3. CASE \E a \in Updates : actLock' = [actLock EXCEPT ![a] = Append(@, p)]
    BY <2>1, <2>3, QueueKeeps
  <2>4. CASE Holds(p, target[p]) /\ \A c \in Updates : c # target[p] => actLock'[c] = actLock[c]
    <3>1. target[p] \in Updates  BY DEF TypeOK
    <3>. QED  BY <2>1, <2>4, <3>1, ReleaseKeeps
  <2>. QED  BY <2>2, <2>3, <2>4 DEF LockMove
<1>2. ASSUME NEW a \in Updates, pc'[a] \notin {"starting", "done"}
      PROVE  actLock'[a] = <<>>
  <2>1. pc[a] \notin {"starting", "done"} /\ actLock[a] = <<>> /\ target[p] # a
    BY <1>2 DEF ActLocks, Targets
  <2>. QED  BY <2>1 DEF LockMove, TypeOK
<1>. QED  BY <1>1, <1>2 DEF ActLocks, Holds

LEMMA ActLocksNext ==
  ASSUME TypeOK, Serial, ActLocks, [Next]_vars
  PROVE  ActLocks'
<1>. USE Actors, Apart
<1>. /\ pc \in [Procs -> Places] /\ target \in [Procs -> Updates]
      /\ activity \in Updates /\ actLock \in [Updates -> Seq(Procs)]
  BY DEF TypeOK
<1>. Targets /\ Current /\ ActLocks
  BY DEF Serial
<1>1. ASSUME NEW g \in Agents, UpdateAgent(g) PROVE ActLocks'
  <2>1. UpdateMove(g)  BY <1>1, UpdateMoves DEF Serial
  <2>2. UNCHANGED actLock  BY <1>1 DEF UpdateAgent
  <2>. QED  BY <2>1, <2>2 DEF UpdateMove, ActLocks, Holds
<1>2. CASE AppDrains
  <2>1. LockMove(App)
    BY <1>2 DEF AppDrains, LockMove, Current
  <2>2. /\ \A q \in Procs : q # App => target'[q] = target[q] /\ pc'[q] = pc[q]
        /\ pc'[App] \notin {"drainWait", "closing", "starting"}
        /\ \A a \in Updates : pc[a] \in {"starting", "done"} => pc'[a] \in {"starting", "done"}
    BY <1>2 DEF AppDrains
  <2>. QED  BY <2>1, <2>2, LockMoves
<1>3. CASE AppCloses
  BY <1>3 DEF AppCloses, ActLocks, Holds, sessionVars, callVars, procVars, actVars, speechVars
<1>4. ASSUME NEW a \in Updates, OnError(a) PROVE ActLocks'
  BY <1>4 DEF OnError, ActLocks, Holds, sessionVars, callVars, procVars, actVars, speechVars
<1>5. CASE Say
  BY <1>5 DEF Say, ActLocks, Holds, sessionVars, callVars, procVars, actVars, speechVars
<1>6. ASSUME NEW a \in Updates, NEW k \in Hooks, HookSays(a, k) PROVE ActLocks'
  BY <1>6 DEF HookSays, ActLocks, Holds, sessionVars, callVars, procVars, actVars, speechVars
<1>7. ASSUME NEW u \in Updates, HandoffBegins(u) PROVE ActLocks'
  <2>1. LockMove(u)
    BY <1>7 DEF HandoffBegins, LockMove, Current
  <2>2. /\ \A q \in Procs : q # u => target'[q] = target[q] /\ pc'[q] = pc[q]
        /\ pc'[u] \notin {"drainWait", "closing", "starting"}
        /\ \A a \in Updates : pc[a] \in {"starting", "done"} => pc'[a] \in {"starting", "done"}
    BY <1>7, HandoffMoves DEF HandoffMove
  <2>. QED  BY <2>1, <2>2, LockMoves
<1>8. ASSUME NEW p \in Procs, Drain(p) PROVE ActLocks'
  <2>1. CASE target[p] \in draining
    <3>1. LockMove(p)
      BY <1>8, <2>1 DEF Drain, AfterDrain, Released, LockMove
    <3>2. DrainMove(p) /\ pc'[p] # "drainWait"
      BY <1>8, <2>1, DrainMoves DEF Drain, AfterDrain
    <3>3. /\ \A q \in Procs : q # p => target'[q] = target[q] /\ pc'[q] = pc[q]
          /\ pc'[p] \notin {"drainWait", "closing", "starting"}
          /\ \A a \in Updates : pc[a] \in {"starting", "done"} => pc'[a] \in {"starting", "done"}
      BY <3>2 DEF DrainMove
    <3>. QED  BY <3>1, <3>3, LockMoves
  <2>2. CASE target[p] \notin draining
    BY <1>8, <2>2 DEF Drain, ActLocks, Holds
  <2>. QED  BY <2>1, <2>2
<1>9. ASSUME NEW p \in Procs, DrainReturns(p) PROVE ActLocks'
  <2>1. LockMove(p)
    BY <1>9 DEF DrainReturns, AfterDrain, Released, LockMove, ActLocks
  <2>2. DrainMove(p) /\ pc'[p] # "drainWait"
    BY <1>9, DrainMoves DEF DrainReturns, AfterDrain
  <2>3. /\ \A q \in Procs : q # p => target'[q] = target[q] /\ pc'[q] = pc[q]
        /\ pc'[p] \notin {"drainWait", "closing", "starting"}
        /\ \A a \in Updates : pc[a] \in {"starting", "done"} => pc'[a] \in {"starting", "done"}
    BY <2>2 DEF DrainMove
  <2>. QED  BY <2>1, <2>3, LockMoves
<1>10. ASSUME NEW p \in Procs, DrainRaises(p) PROVE ActLocks'
  <2>1. LockMove(p)
    BY <1>10 DEF DrainRaises, Released, LockMove, ActLocks
  <2>2. /\ \A q \in Procs : q # p => target'[q] = target[q] /\ pc'[q] = pc[q]
        /\ pc'[p] \notin {"drainWait", "closing", "starting"}
        /\ \A a \in Updates : pc[a] \in {"starting", "done"} => pc'[a] \in {"starting", "done"}
    BY <1>10 DEF DrainRaises, procVars
  <2>. QED  BY <2>1, <2>2, LockMoves
<1>11. ASSUME NEW p \in Procs, CloseActivity(p) PROVE ActLocks'
  BY <1>11 DEF CloseActivity, ActLocks, Holds, sessionVars, callVars, procVars, actVars, speechVars
<1>12. ASSUME NEW u \in Updates, HandsOver(u) PROVE ActLocks'
  <2>1. HandsOverMove(u)  BY <1>12, HandsOverMoves DEF Serial
  <2>2. Holds(u, activity) /\ activity # u /\ actLock[u] = <<>>
    BY <2>1 DEF HandsOverMove, ActLocks
  <2>3. actLock'[u] = Append(<<>>, u) /\ \A b \in Updates \ {u, activity} : actLock'[b] = actLock[b]
    <3>1. actLock' = [[actLock EXCEPT ![activity] = Tail(@)] EXCEPT ![u] = Append(@, u)]
      BY <1>12, <2>1 DEF HandsOver, HandsOverMove, Released
    <3>. QED  BY <2>2, <3>1
  <2>4. ASSUME NEW q \in Procs, q # u, pc'[q] \in {"drainWait", "closing", "starting"}
        PROVE  Holds(q, target[q])' /\ target'[q] = target[q]
    <3>1. Holds(q, target[q]) /\ target'[q] = target[q]
      BY <2>1, <2>4 DEF HandsOverMove, ActLocks
    <3>2. target[q] # activity /\ target[q] # u
      BY <2>2, <2>4, <3>1 DEF Holds
    <3>. QED  BY <2>3, <3>1, <3>2 DEF Holds
  <2>5. Holds(u, target[u])'
    <3>1. actLock'[u] = <<u>>  BY <2>3
    <3>2. target'[u] = u  BY <2>1 DEF HandsOverMove
    <3>3. actLock'[u] # <<>> /\ Head(actLock'[u]) = u  BY <3>1
    <3>. QED  BY <3>2, <3>3 DEF Holds
  <2>6. ASSUME NEW b \in Updates, pc'[b] \notin {"starting", "done"}
        PROVE  actLock'[b] = <<>>
    <3>1. b # u /\ b # activity /\ actLock[b] = <<>>
      BY <2>1, <2>6 DEF HandsOverMove, ActLocks, Current
    <3>. QED  BY <2>3, <3>1
  <2>. QED  BY <2>4, <2>5, <2>6 DEF ActLocks, Holds
<1>13. ASSUME NEW u \in Updates, ActivityStarts(u) PROVE ActLocks'
  <2>1. LockMove(u)
    BY <1>13 DEF ActivityStarts, Released, LockMove, ActLocks
  <2>2. /\ \A q \in Procs : q # u => target'[q] = target[q] /\ pc'[q] = pc[q]
        /\ pc'[u] \notin {"drainWait", "closing", "starting"}
        /\ \A a \in Updates : pc[a] \in {"starting", "done"} => pc'[a] \in {"starting", "done"}
    BY <1>13 DEF ActivityStarts
  <2>. QED  BY <2>1, <2>2, LockMoves
<1>14. ASSUME NEW a \in Updates, MainEnds(a) PROVE ActLocks'
  BY <1>14 DEF MainEnds, ActLocks, Holds, sessionVars, callVars, procVars, actVars, speechVars
<1>15. ASSUME NEW a \in Updates, NEW k \in Hooks, HookReturns(a, k) PROVE ActLocks'
  BY <1>15 DEF HookReturns, ActLocks, Holds, sessionVars, callVars, procVars, actVars, speechVars
<1>16. CASE ClosingBegins
  <2>1. LockMove(Failing)
    BY <1>16 DEF ClosingBegins, LockMove, Current
  <2>2. /\ \A q \in Procs : q # Failing => target'[q] = target[q] /\ pc'[q] = pc[q]
        /\ pc'[Failing] \notin {"drainWait", "closing", "starting"}
        /\ \A a \in Updates : pc[a] \in {"starting", "done"} => pc'[a] \in {"starting", "done"}
    BY <1>16 DEF ClosingBegins
  <2>. QED  BY <2>1, <2>2, LockMoves
<1>17. ASSUME NEW c \in Closers, CloseSession(c) PROVE ActLocks'
  <2>1. LockMove(c)
    BY <1>17 DEF CloseSession, LockMove, Current
  <2>2. /\ \A q \in Procs : q # c => target'[q] = target[q] /\ pc'[q] = pc[q]
        /\ pc'[c] \notin {"drainWait", "closing", "starting"}
        /\ \A a \in Updates : pc[a] \in {"starting", "done"} => pc'[a] \in {"starting", "done"}
    BY <1>17 DEF CloseSession
  <2>. QED  BY <2>1, <2>2, LockMoves
<1>18. ASSUME NEW c \in Closers, ActivityClosed(c) PROVE ActLocks'
  <2>1. LockMove(c)
    BY <1>18 DEF ActivityClosed, Released, LockMove, ActLocks
  <2>2. /\ \A q \in Procs : q # c => target'[q] = target[q] /\ pc'[q] = pc[q]
        /\ pc'[c] \notin {"drainWait", "closing", "starting"}
        /\ \A a \in Updates : pc[a] \in {"starting", "done"} => pc'[a] \in {"starting", "done"}
    BY <1>18 DEF ActivityClosed
  <2>. QED  BY <2>1, <2>2, LockMoves
<1>19. ASSUME NEW c \in Closers, SessionClosed(c) PROVE ActLocks'
  <2>1. LockMove(c)
    BY <1>19 DEF SessionClosed, LockMove
  <2>2. /\ \A q \in Procs : q # c => target'[q] = target[q] /\ pc'[q] = pc[q]
        /\ pc'[c] \notin {"drainWait", "closing", "starting"}
        /\ \A a \in Updates : pc[a] \in {"starting", "done"} => pc'[a] \in {"starting", "done"}
    BY <1>19 DEF SessionClosed
  <2>. QED  BY <2>1, <2>2, LockMoves
<1>20. ASSUME NEW h \in Speeches, Plays(h) PROVE ActLocks'
  BY <1>20 DEF Plays, ActLocks, Holds, sessionVars, callVars, procVars, actVars, speechVars
<1>21. ASSUME NEW h \in Speeches, SpeechEnds(h) PROVE ActLocks'
  BY <1>21 DEF SpeechEnds, ActLocks, Holds, sessionVars, callVars, procVars, actVars, speechVars
<1>22. CASE UNCHANGED vars
  BY <1>22 DEF vars, ActLocks, Holds, sessionVars, callVars, procVars, actVars, speechVars
<1>. QED
  BY <1>1, <1>2, <1>3, <1>4, <1>5, <1>6, <1>7, <1>8, <1>9,
     <1>10, <1>11, <1>12, <1>13, <1>14, <1>15, <1>16, <1>17, <1>18,
     <1>19, <1>20, <1>21, <1>22
     DEF Next, Runs, UpdateStep, CloserStep, Step, ActivityStep, Procs

LEMMA HeadStays ==
  ASSUME NEW s \in Seq(Procs), NEW x \in Procs, s # <<>>
  PROVE  Append(s, x) # <<>> /\ Head(Append(s, x)) = Head(s)
<1>1. Len(s) > 0 /\ Len(Append(s, x)) = Len(s) + 1
  OBVIOUS
<1>2. Append(s, x)[1] = s[1]
  BY <1>1
<1>. QED  BY <1>1, <1>2

LEMMA SessionLockNext ==
  ASSUME TypeOK, Serial, SessionLock, [Next]_vars
  PROVE  SessionLock'
<1>. USE Actors, Apart
<1>. /\ pc \in [Procs -> Places] /\ lock \in Seq(Procs)
  BY DEF TypeOK
<1>. Numbered /\ Current /\ SessionLock
  BY DEF Serial
<1>1. ASSUME NEW g \in Agents, UpdateAgent(g) PROVE SessionLock'
  <2>1. UpdateMove(g)  BY <1>1, UpdateMoves
  <2>2. UNCHANGED <<lock, started>>  BY <1>1 DEF UpdateAgent
  <2>. QED  BY <2>1, <2>2 DEF UpdateMove, SessionLock
<1>2. CASE AppDrains
  BY <1>2 DEF AppDrains, SessionLock, sessionVars, callVars, procVars, actVars, speechVars
<1>3. CASE AppCloses
  <2>1. lock # <<>> => lock' # <<>> /\ Head(lock') = Head(lock)
    BY <1>3, HeadStays DEF AppCloses
  <2>2. started' = started /\ pc' = [pc EXCEPT ![App] = "lock"]
    BY <1>3 DEF AppCloses
  <2>. QED  BY <2>1, <2>2 DEF SessionLock
<1>4. ASSUME NEW a \in Updates, OnError(a) PROVE SessionLock'
  BY <1>4 DEF OnError, SessionLock, sessionVars, callVars, procVars, actVars, speechVars
<1>5. CASE Say
  BY <1>5 DEF Say, SessionLock, sessionVars, callVars, procVars, actVars, speechVars
<1>6. ASSUME NEW a \in Updates, NEW k \in Hooks, HookSays(a, k) PROVE SessionLock'
  BY <1>6 DEF HookSays, SessionLock, sessionVars, callVars, procVars, actVars, speechVars
<1>7. ASSUME NEW u \in Updates, HandoffBegins(u) PROVE SessionLock'
  <2>1. HandoffMove(u) /\ lock' = lock  BY <1>7, HandoffMoves DEF HandoffBegins
  <2>. QED  BY <2>1 DEF HandoffMove, SessionLock
<1>8. ASSUME NEW p \in Procs, Drain(p) PROVE SessionLock'
  <2>1. lock' = lock \/ lock' = Append(lock, p)
    BY <1>8 DEF Drain, AfterDrain
  <2>2. DrainMove(p) /\ started' = started
    BY <1>8, DrainMoves DEF DrainMove
  <2>3. lock # <<>> => lock' # <<>> /\ Head(lock') = Head(lock)
    BY <2>1, HeadStays
  <2>. QED  BY <2>2, <2>3 DEF DrainMove, SessionLock
<1>9. ASSUME NEW p \in Procs, DrainReturns(p) PROVE SessionLock'
  <2>1. lock' = lock \/ lock' = Append(lock, p)
    BY <1>9 DEF DrainReturns, AfterDrain
  <2>2. DrainMove(p) /\ started' = started
    BY <1>9, DrainMoves DEF DrainMove
  <2>3. lock # <<>> => lock' # <<>> /\ Head(lock') = Head(lock)
    BY <2>1, HeadStays
  <2>. QED  BY <2>2, <2>3 DEF DrainMove, SessionLock
<1>10. ASSUME NEW p \in Procs, DrainRaises(p) PROVE SessionLock'
  <2>1. lock' = lock \/ lock' = Append(lock, p)
    BY <1>10 DEF DrainRaises, sessionVars
  <2>2. DrainMove(p) /\ started' = started
    BY <1>10, DrainMoves DEF DrainMove
  <2>3. lock # <<>> => lock' # <<>> /\ Head(lock') = Head(lock)
    BY <2>1, HeadStays
  <2>. QED  BY <2>2, <2>3 DEF DrainMove, SessionLock
<1>11. ASSUME NEW p \in Procs, CloseActivity(p) PROVE SessionLock'
  BY <1>11 DEF CloseActivity, SessionLock, sessionVars, callVars, procVars, actVars, speechVars
<1>12. ASSUME NEW u \in Updates, HandsOver(u) PROVE SessionLock'
  BY <1>12 DEF HandsOver, SessionLock, sessionVars, callVars, procVars, actVars, speechVars
<1>13. ASSUME NEW u \in Updates, ActivityStarts(u) PROVE SessionLock'
  <2>1. started' = TRUE /\ pc' = [pc EXCEPT ![u] = "done"]
    BY <1>13 DEF ActivityStarts
  <2>2. CASE started
    BY <1>13, <2>1, <2>2 DEF ActivityStarts, SessionLock
  <2>3. CASE ~started
    BY <2>1, <2>3 DEF SessionLock
  <2>. QED  BY <2>2, <2>3
<1>14. ASSUME NEW a \in Updates, MainEnds(a) PROVE SessionLock'
  BY <1>14 DEF MainEnds, SessionLock, sessionVars, callVars, procVars, actVars, speechVars
<1>15. ASSUME NEW a \in Updates, NEW k \in Hooks, HookReturns(a, k) PROVE SessionLock'
  BY <1>15 DEF HookReturns, SessionLock, sessionVars, callVars, procVars, actVars, speechVars
<1>16. CASE ClosingBegins
  BY <1>16 DEF ClosingBegins, SessionLock, sessionVars, callVars, procVars, actVars, speechVars
<1>17. ASSUME NEW c \in Closers, CloseSession(c) PROVE SessionLock'
  BY <1>17 DEF CloseSession, SessionLock, sessionVars, callVars, procVars, actVars, speechVars
<1>18. ASSUME NEW c \in Closers, ActivityClosed(c) PROVE SessionLock'
  BY <1>18 DEF ActivityClosed, SessionLock, sessionVars, callVars, procVars, actVars, speechVars
<1>19. ASSUME NEW c \in Closers, SessionClosed(c) PROVE SessionLock'
  <2>1. lock # <<>> /\ Head(lock) = c /\ c # 1
    BY <1>19 DEF SessionClosed, SessionLock
  <2>2. started /\ started' = started
    BY <1>19, <2>1 DEF SessionClosed, SessionLock
  <2>3. \A d \in Closers : d # c => pc'[d] \notin {"close", "closing", "leaving"}
    BY <1>19, <2>1 DEF SessionClosed, SessionLock
  <2>4. pc'[c] = "idle"
    BY <1>19 DEF SessionClosed
  <2>. QED  BY <2>2, <2>3, <2>4 DEF SessionLock
<1>20. ASSUME NEW h \in Speeches, Plays(h) PROVE SessionLock'
  BY <1>20 DEF Plays, SessionLock, sessionVars, callVars, procVars, actVars, speechVars
<1>21. ASSUME NEW h \in Speeches, SpeechEnds(h) PROVE SessionLock'
  BY <1>21 DEF SpeechEnds, SessionLock, sessionVars, callVars, procVars, actVars, speechVars
<1>22. CASE UNCHANGED vars
  BY <1>22 DEF vars, SessionLock, sessionVars, callVars, procVars, actVars, speechVars
<1>. QED
  BY <1>1, <1>2, <1>3, <1>4, <1>5, <1>6, <1>7, <1>8, <1>9,
     <1>10, <1>11, <1>12, <1>13, <1>14, <1>15, <1>16, <1>17, <1>18,
     <1>19, <1>20, <1>21, <1>22
     DEF Next, Runs, UpdateStep, CloserStep, Step, ActivityStep, Procs

-------------------------------------------------------------------------------
\* A drain under way.
LEMMA DrainsNext ==
  ASSUME TypeOK, Serial, ActLocks, Mains, Drains, [Next]_vars
  PROVE  Drains'
<1>. USE Actors, Apart
<1>. /\ pc \in [Procs -> Places] /\ target \in [Procs -> Updates]
      /\ main \in [Updates -> {"none", "running", "ended", "cancelled"}]
      /\ draining \subseteq Updates
  BY DEF TypeOK
<1>. Numbered /\ Current /\ Targets /\ Drains /\ Mains
  BY DEF Serial
<1>1. ASSUME NEW g \in Agents, UpdateAgent(g) PROVE Drains'
  <2>1. UpdateMove(g)  BY <1>1, UpdateMoves
  <2>2. UNCHANGED <<main, draining>>  BY <1>1 DEF UpdateAgent, actVars
  <2>. QED  BY <2>1, <2>2 DEF UpdateMove, Drains
<1>2. CASE AppDrains
  BY <1>2 DEF AppDrains, Drains, sessionVars, callVars, procVars, actVars, speechVars
<1>3. CASE AppCloses
  BY <1>3 DEF AppCloses, Drains, sessionVars, callVars, procVars, actVars, speechVars
<1>4. ASSUME NEW a \in Updates, OnError(a) PROVE Drains'
  BY <1>4 DEF OnError, Drains, sessionVars, callVars, procVars, actVars, speechVars
<1>5. CASE Say
  BY <1>5 DEF Say, Drains, sessionVars, callVars, procVars, actVars, speechVars
<1>6. ASSUME NEW a \in Updates, NEW k \in Hooks, HookSays(a, k) PROVE Drains'
  BY <1>6 DEF HookSays, Drains, sessionVars, callVars, procVars, actVars, speechVars
<1>7. ASSUME NEW u \in Updates, HandoffBegins(u) PROVE Drains'
  <2>1. HandoffMove(u)  BY <1>7, HandoffMoves
  <2>2. UNCHANGED <<main, draining>>  BY <1>7 DEF HandoffBegins, actVars
  <2>. QED  BY <2>1, <2>2 DEF HandoffMove, Drains
<1>8. ASSUME NEW p \in Procs, Drain(p) PROVE Drains'
  <2>1. DrainMove(p) /\ pc[p] = "drain" /\ main' = main  BY <1>8, DrainMoves DEF Drain
  <2>2. CASE target[p] \in draining
    <3>1. draining' = draining  BY <1>8, <2>2 DEF Drain
    <3>. QED  BY <2>1, <3>1 DEF DrainMove, Drains
  <2>3. CASE target[p] \notin draining
    <3>1. /\ draining' = draining \cup {target[p]} /\ Holds(p, target[p])
          /\ pc' = [pc EXCEPT ![p] = "drainWait"] /\ target' = target
      BY <1>8, <2>3 DEF Drain
    <3>2. pc[target[p]] = "done"
      <4>1. CASE pc[target[p]] = "starting"
        <5>1. target[target[p]] = target[p]  BY <4>1 DEF Current
        <5>2. Holds(target[p], target[p])  BY <4>1, <5>1 DEF ActLocks
        <5>3. target[p] = p  BY <3>1, <5>2 DEF Holds
        <5>. QED  BY <2>1, <4>1, <5>3
      <4>. QED  BY <4>1 DEF Targets
    <3>. QED  BY <2>1, <3>1, <3>2 DEF Drains
  <2>. QED  BY <2>2, <2>3
<1>9. ASSUME NEW p \in Procs, DrainReturns(p) PROVE Drains'
  <2>1. DrainMove(p) /\ main[target[p]] = "ended" /\ UNCHANGED <<main, draining>>
    BY <1>9, DrainMoves DEF DrainReturns, actVars
  <2>. QED  BY <2>1 DEF DrainMove, Drains
<1>10. ASSUME NEW p \in Procs, DrainRaises(p) PROVE Drains'
  <2>1. DrainMove(p) /\ main[target[p]] = "cancelled" /\ UNCHANGED <<main, draining>>
    BY <1>10, DrainMoves DEF DrainRaises, actVars
  <2>. QED  BY <2>1 DEF DrainMove, Drains
<1>11. ASSUME NEW p \in Procs, CloseActivity(p) PROVE Drains'
  BY <1>11 DEF CloseActivity, Drains, sessionVars, callVars, procVars, actVars, speechVars
<1>12. ASSUME NEW u \in Updates, HandsOver(u) PROVE Drains'
  <2>1. HandsOverMove(u)  BY <1>12, HandsOverMoves DEF Serial
  <2>2. CancelMain(activity) /\ draining' = draining
    BY <1>12, <2>1 DEF HandsOver, HandsOverMove
  <2>. QED  BY <2>1, <2>2 DEF HandsOverMove, CancelMain, Drains
<1>13. ASSUME NEW u \in Updates, ActivityStarts(u) PROVE Drains'
  BY <1>13 DEF ActivityStarts, Current, Drains
<1>14. ASSUME NEW a \in Updates, MainEnds(a) PROVE Drains'
  BY <1>14 DEF MainEnds, Drains, sessionVars, callVars, procVars, actVars, speechVars
<1>15. ASSUME NEW a \in Updates, NEW k \in Hooks, HookReturns(a, k) PROVE Drains'
  BY <1>15 DEF HookReturns, Drains, sessionVars, callVars, procVars, actVars, speechVars
<1>16. CASE ClosingBegins
  BY <1>16 DEF ClosingBegins, Drains, sessionVars, callVars, procVars, actVars, speechVars
<1>17. ASSUME NEW c \in Closers, CloseSession(c) PROVE Drains'
  BY <1>17 DEF CloseSession, Drains, sessionVars, callVars, procVars, actVars, speechVars
<1>18. ASSUME NEW c \in Closers, ActivityClosed(c) PROVE Drains'
  BY <1>18 DEF ActivityClosed, CancelMain, Drains
<1>19. ASSUME NEW c \in Closers, SessionClosed(c) PROVE Drains'
  BY <1>19 DEF SessionClosed, Drains, sessionVars, callVars, procVars, actVars, speechVars
<1>20. ASSUME NEW h \in Speeches, Plays(h) PROVE Drains'
  BY <1>20 DEF Plays, Drains, sessionVars, callVars, procVars, actVars, speechVars
<1>21. ASSUME NEW h \in Speeches, SpeechEnds(h) PROVE Drains'
  BY <1>21 DEF SpeechEnds, Drains, sessionVars, callVars, procVars, actVars, speechVars
<1>22. CASE UNCHANGED vars
  BY <1>22 DEF vars, Drains, sessionVars, callVars, procVars, actVars, speechVars
<1>. QED
  BY <1>1, <1>2, <1>3, <1>4, <1>5, <1>6, <1>7, <1>8, <1>9,
     <1>10, <1>11, <1>12, <1>13, <1>14, <1>15, <1>16, <1>17, <1>18,
     <1>19, <1>20, <1>21, <1>22
     DEF Next, Runs, UpdateStep, CloserStep, Step, ActivityStep, Procs

LEMMA UnsaidNext ==
  ASSUME TypeOK, Unsaid, [Next]_vars
  PROVE  Unsaid'
<1>. USE Actors, Apart
<1>. /\ said \in 0 .. MaxSpeeches
      /\ speech \in [Speeches -> {"none", "queued", "playing", "done"}]
  BY DEF TypeOK
<1>. Unsaid
  OBVIOUS
<1>1. ASSUME NEW g \in Agents, UpdateAgent(g) PROVE Unsaid'
  BY <1>1 DEF UpdateAgent, Unsaid, Speeches, sessionVars, callVars, procVars, actVars, speechVars
<1>2. CASE AppDrains
  BY <1>2 DEF AppDrains, Unsaid, Speeches, sessionVars, callVars, procVars, actVars, speechVars
<1>3. CASE AppCloses
  BY <1>3 DEF AppCloses, Unsaid, Speeches, sessionVars, callVars, procVars, actVars, speechVars
<1>4. ASSUME NEW a \in Updates, OnError(a) PROVE Unsaid'
  BY <1>4 DEF OnError, Unsaid, Speeches, sessionVars, callVars, procVars, actVars, speechVars
<1>5. CASE Say
  BY <1>5 DEF Say, Schedules, Unsaid, Speeches
<1>6. ASSUME NEW a \in Updates, NEW k \in Hooks, HookSays(a, k) PROVE Unsaid'
  BY <1>6 DEF HookSays, Schedules, Unsaid, Speeches
<1>7. ASSUME NEW u \in Updates, HandoffBegins(u) PROVE Unsaid'
  BY <1>7 DEF HandoffBegins, Unsaid, Speeches, sessionVars, callVars, procVars, actVars, speechVars
<1>8. ASSUME NEW p \in Procs, Drain(p) PROVE Unsaid'
  BY <1>8 DEF Drain, Unsaid, Speeches, sessionVars, callVars, procVars, actVars, speechVars
<1>9. ASSUME NEW p \in Procs, DrainReturns(p) PROVE Unsaid'
  BY <1>9 DEF DrainReturns, Unsaid, Speeches, sessionVars, callVars, procVars, actVars, speechVars
<1>10. ASSUME NEW p \in Procs, DrainRaises(p) PROVE Unsaid'
  BY <1>10 DEF DrainRaises, Unsaid, Speeches, sessionVars, callVars, procVars, actVars, speechVars
<1>11. ASSUME NEW p \in Procs, CloseActivity(p) PROVE Unsaid'
  BY <1>11 DEF CloseActivity, Unsaid, Speeches, sessionVars, callVars, procVars, actVars, speechVars
<1>12. ASSUME NEW u \in Updates, HandsOver(u) PROVE Unsaid'
  BY <1>12 DEF HandsOver, Unsaid, Speeches, sessionVars, callVars, procVars, actVars, speechVars
<1>13. ASSUME NEW u \in Updates, ActivityStarts(u) PROVE Unsaid'
  BY <1>13 DEF ActivityStarts, Unsaid, Speeches, sessionVars, callVars, procVars, actVars, speechVars
<1>14. ASSUME NEW a \in Updates, MainEnds(a) PROVE Unsaid'
  BY <1>14 DEF MainEnds, Unsaid, Speeches, sessionVars, callVars, procVars, actVars, speechVars
<1>15. ASSUME NEW a \in Updates, NEW k \in Hooks, HookReturns(a, k) PROVE Unsaid'
  BY <1>15 DEF HookReturns, Unsaid, Speeches, sessionVars, callVars, procVars, actVars, speechVars
<1>16. CASE ClosingBegins
  BY <1>16 DEF ClosingBegins, Unsaid, Speeches, sessionVars, callVars, procVars, actVars, speechVars
<1>17. ASSUME NEW c \in Closers, CloseSession(c) PROVE Unsaid'
  BY <1>17 DEF CloseSession, Unsaid, Speeches, sessionVars, callVars, procVars, actVars, speechVars
<1>18. ASSUME NEW c \in Closers, ActivityClosed(c) PROVE Unsaid'
  BY <1>18 DEF ActivityClosed, Unsaid, Speeches, sessionVars, callVars, procVars, actVars, speechVars
<1>19. ASSUME NEW c \in Closers, SessionClosed(c) PROVE Unsaid'
  BY <1>19 DEF SessionClosed, Unsaid, Speeches, sessionVars, callVars, procVars, actVars, speechVars
<1>20. ASSUME NEW h \in Speeches, Plays(h) PROVE Unsaid'
  BY <1>20 DEF Plays, Unsaid, Speeches, sessionVars, callVars, procVars, actVars, speechVars
<1>21. ASSUME NEW h \in Speeches, SpeechEnds(h) PROVE Unsaid'
  BY <1>21 DEF SpeechEnds, Unsaid, Speeches, sessionVars, callVars, procVars, actVars, speechVars
<1>22. CASE UNCHANGED vars
  BY <1>22 DEF vars, Unsaid, Speeches, sessionVars, callVars, procVars, actVars, speechVars
<1>. QED
  BY <1>1, <1>2, <1>3, <1>4, <1>5, <1>6, <1>7, <1>8, <1>9,
     <1>10, <1>11, <1>12, <1>13, <1>14, <1>15, <1>16, <1>17, <1>18,
     <1>19, <1>20, <1>21, <1>22
     DEF Next, Runs, UpdateStep, CloserStep, Step, ActivityStep, Procs

-------------------------------------------------------------------------------
LEMMA Initially ==
  ASSUME Init
  PROVE  IInv
<1>. USE Actors, Apart, SessionAssumption
<1>1. TypeOK
  <2>1. pc \in [Procs -> Places] /\ target \in [Procs -> Updates]  BY DEF Init, Places
  <2>2. lock \in Seq(Procs) /\ actLock \in [Updates -> Seq(Procs)]  BY DEF Init
  <2>3. 0 \in 0 .. MaxSpeeches /\ 0 \in 0 .. MaxCalls /\ 0 \in 0 .. MaxErrors  OBVIOUS
  <2>4. /\ main \in [Updates -> {"none", "running", "ended", "cancelled"}]
        /\ hooks \in [Updates -> SUBSET Hooks] /\ draining \subseteq Updates /\ listening \subseteq Updates
        /\ awaits \in [Updates -> [Hooks -> 0 .. MaxSpeeches]]
        /\ link \in [Agents -> {0} \cup Updates]
    BY <2>3 DEF Init
  <2>5. /\ owner \in [Speeches -> Updates]
        /\ speech \in [Speeches -> {"none", "queued", "playing", "done"}]
    BY DEF Init
  <2>6. /\ agent \in Agents /\ activity \in Updates /\ nextActivity \in {0} \cup Updates
        /\ started \in BOOLEAN /\ early \in BOOLEAN /\ closed \in BOOLEAN
    BY DEF Init
  <2>7. updates \in Updates /\ asked \in [Updates -> Agents]  BY DEF Init
  <2>8. calls \in 0 .. MaxCalls /\ errors \in 0 .. MaxErrors /\ said \in 0 .. MaxSpeeches
    BY <2>3 DEF Init
  <2>. QED  BY <2>1, <2>2, <2>4, <2>5, <2>6, <2>7, <2>8 DEF TypeOK
<1>. /\ pc[1] = "starting" /\ activity = 1 /\ updates = 1 /\ nextActivity = 0 /\ ~started
     /\ \A u \in Updates : u # 1 => pc[u] = "none"
     /\ \A c \in Closers : pc[c] = "idle"
     /\ \A p \in Procs : target[p] = 1
  BY DEF Init
<1>2. Serial
  <2>1. Numbered  BY DEF Numbered, Updates
  <2>2. OneByOne  BY DEF OneByOne, Begun, Over, Updates
  <2>3. Current  BY DEF Current, Leaving
  <2>4. Targets  BY DEF Targets
  <2>. QED  BY <2>1, <2>2, <2>3, <2>4 DEF Serial
<1>3. Mains /\ Finished
  BY DEF Init, Mains, Finished
<1>4. Linked
  BY DEF Init, Linked
<1>5. Locks
  <2>1. /\ lock = <<1>> /\ actLock[1] = <<1>>
        /\ \A u \in Updates : u # 1 => actLock[u] = <<>>
    BY DEF Init
  <2>2. <<1>> # <<>> /\ Head(<<1>>) = 1  OBVIOUS
  <2>3. ActLocks  BY <2>1, <2>2 DEF ActLocks, Holds
  <2>4. SessionLock  BY <2>1 DEF SessionLock
  <2>. QED  BY <2>3, <2>4 DEF Locks
<1>6. Drains
  BY DEF Init, Drains
<1>7. Unsaid
  BY DEF Init, Unsaid
<1>. QED  BY <1>1, <1>2, <1>3, <1>4, <1>5, <1>6, <1>7 DEF IInv

LEMMA Inductive ==
  ASSUME IInv, [Next]_vars
  PROVE  IInv'
<1>. USE DEF IInv
<1>1. TypeOK'  BY TypeNext
<1>2. Numbered' /\ OneByOne' /\ Current' /\ Targets'
  BY NumberedNext, OneByOneNext, CurrentNext, TargetsNext
<1>3. Mains' /\ Finished'  BY MainsNext, FinishedNext
<1>4. Linked'  BY LinkedNext
<1>5. ActLocks' /\ SessionLock'  BY ActLocksNext, SessionLockNext DEF Locks
<1>6. Drains'  BY DrainsNext DEF Locks
<1>7. Unsaid'  BY UnsaidNext
<1>. QED  BY <1>1, <1>2, <1>3, <1>4, <1>5, <1>6, <1>7 DEF Serial, Locks

-------------------------------------------------------------------------------
\* Every variable of the session keeps its type; in particular no lock is given back by a
\* task that does not hold it.
THEOREM TypeCorrect == Spec => []TypeOK
<1>1. IInv => TypeOK  BY DEF IInv
<1>. QED  BY <1>1, Initially, Inductive, PTL DEF Spec

\* No two agents speak at a time, and one that was drained has said all it had to say before
\* the next one begins, in whatever order agents are changed, drained, closed or fail.
THEOREM OneAgentAtATime == Spec => []OneAgentSpeaks
<1>1. IInv => OneAgentSpeaks
  BY DEF IInv, Mains, Finished, OneAgentSpeaks, Busy
<1>. QED  BY <1>1, Initially, Inductive, PTL DEF Spec

\* The agent that runs in an open session is linked to it, also when it follows itself.
THEOREM AgentIsLinked == Spec => []RunningAgentIsLinked
<1>1. IInv => RunningAgentIsLinked
  BY DEF IInv, Linked, RunningAgentIsLinked
<1>. QED  BY <1>1, Initially, Inductive, PTL DEF Spec

\* When every handoff is done, the agent that was asked for last is the one that runs.
THEOREM LastAgentWins == Spec => []LatestAgentRuns
<1>1. ASSUME IInv, \A u \in 1 .. updates : pc[u] = "done", ~early
      PROVE  asked[activity] = agent
  <2>1. updates \in Updates /\ activity \in Updates  BY <1>1 DEF IInv, TypeOK
  <2>2. pc[updates] = "done"  BY <1>1, <2>1 DEF Updates
  <2>3. updates <= activity  BY <1>1, <2>1, <2>2 DEF IInv, Serial, Current
  <2>4. ~(activity > updates)  BY <1>1, <2>1 DEF IInv, Serial, Current, Numbered
  <2>5. activity = updates  BY <2>1, <2>3, <2>4 DEF Updates
  <2>. QED  BY <1>1, <2>5 DEF IInv, Linked
<1>2. IInv => LatestAgentRuns
  BY <1>1 DEF LatestAgentRuns
<1>. QED  BY <1>2, Initially, Inductive, PTL DEF Spec

-------------------------------------------------------------------------------
\* The refinement of ActivityLife.
busyNow  == {a \in Updates : Busy(a)}
phaseNow == [a \in Updates |-> Phase(a)]

LEMMA PhaseIs ==
  ASSUME TypeOK, Mains, Finished, NEW a \in Updates
  PROVE  /\ Phase(a) = "drained" <=> main[a] = "ended"
         /\ Phase(a) = "cancelled" <=> main[a] = "cancelled"
         /\ Phase(a) = "draining" <=> main[a] \in {"none", "running"} /\ a \in draining
         /\ Phase(a) = "open" <=> main[a] \in {"none", "running"} /\ a \notin draining
<1>1. main[a] \in {"none", "running", "ended", "cancelled"}
  BY DEF TypeOK
<1>2. CASE main[a] = "cancelled"
  BY <1>2 DEF Phase
<1>3. CASE main[a] = "ended"
  BY <1>3 DEF Phase
<1>4. CASE main[a] \in {"none", "running"} /\ a \in draining
  BY <1>4 DEF Phase
<1>5. CASE main[a] \in {"none", "running"} /\ a \notin draining
  BY <1>5 DEF Phase
<1>. QED  BY <1>1, <1>2, <1>3, <1>4, <1>5

\* A step that begins or ends work of one activity, and no other change.
LEMMA WorkStep ==
  ASSUME NEW a \in Updates, UNCHANGED phaseNow,
         phaseNow[a] # "drained", phaseNow[a] = "draining" => a \in busyNow,
         \A b \in Updates : b # a => (b \in busyNow' <=> b \in busyNow)
  PROVE  Life!Next
<1>1. busyNow' \subseteq Updates /\ busyNow \subseteq Updates
  BY DEF busyNow
<1>2. busyNow' = busyNow \cup {a} \/ busyNow' = busyNow \ {a}
  BY <1>1
<1>3. Life!Work(a)
  BY <1>2 DEF Life!Work, busyNow, phaseNow
<1>. QED  BY <1>3 DEF Life!Next

\* A step that changes neither the main tasks nor who drains changes no phase.
LEMMA SamePhase ==
  ASSUME UNCHANGED <<main, draining>>
  PROVE  UNCHANGED phaseNow
BY DEF phaseNow, Phase

LEMMA SameLife ==
  ASSUME UNCHANGED <<main, draining, hooks, owner>>,
         \A h \in Speeches : speech[h] \in {"queued", "playing"} <=> speech'[h] \in {"queued", "playing"}
  PROVE  UNCHANGED <<busyNow, phaseNow>>
<1>1. \A a \in Updates : Unplayed(a)' = Unplayed(a)
  BY DEF Unplayed
<1>2. UNCHANGED busyNow
  BY <1>1 DEF busyNow, Busy
<1>. QED  BY <1>2, SamePhase

\* What is scheduled is work of the activity it is routed to.
LEMMA ScheduledLife ==
  ASSUME IInv, Schedules, UNCHANGED <<main, draining, hooks>>
  PROVE  Life!Next
<1>1. Routed \in Updates /\ main[Routed] # "ended"
  BY RoutedIsAlive DEF IInv
<1>2. Routed \notin draining
  <2>1. CASE activity \in draining
    <3>1. Routed = nextActivity /\ nextActivity # 0  BY <2>1 DEF Routed, Schedules
    <3>2. pc[nextActivity] # "done"  BY <3>1 DEF IInv, Serial, Current, Leaving
    <3>. QED  BY <1>1, <3>1, <3>2 DEF IInv, Drains
  <2>. QED  BY <2>1 DEF Routed
<1>3. phaseNow[Routed] \notin {"drained", "draining"}
  BY <1>1, <1>2, PhaseIs DEF IInv, phaseNow
<1>4. ASSUME NEW b \in Updates, b # Routed
      PROVE  Unplayed(b)' = Unplayed(b)
  <2>1. said' = said + 1 /\ said' \in Speeches /\ speech[said'] = "none"
    <3>1. said \in 0 .. MaxSpeeches /\ said < MaxSpeeches /\ said' = said + 1
      BY DEF IInv, TypeOK, Schedules
    <3>2. said' \in Speeches /\ said' > said  BY <3>1, SessionAssumption DEF Speeches
    <3>. QED  BY <3>1, <3>2 DEF IInv, Unsaid
  <2>2. /\ owner' = [owner EXCEPT ![said'] = Routed] /\ speech' = [speech EXCEPT ![said'] = "queued"]
        /\ owner \in [Speeches -> Updates]
        /\ speech \in [Speeches -> {"none", "queued", "playing", "done"}]
    BY DEF Schedules, IInv, TypeOK
  <2>3. \A h \in Speeches : h # said' => owner'[h] = owner[h] /\ speech'[h] = speech[h]
    BY <2>1, <2>2
  <2>4. owner'[said'] # b
    BY <1>4, <2>1, <2>2
  <2>. QED  BY <2>1, <2>3, <2>4 DEF Unplayed
<1>5. \A b \in Updates : b # Routed => (b \in busyNow' <=> b \in busyNow)
  BY <1>4 DEF busyNow, Busy
<1>. QED  BY <1>1, <1>3, <1>5, SamePhase, WorkStep

\* Closing an activity cancels its main task, which nobody drains any more.
LEMMA CancelledLife ==
  ASSUME IInv, NEW p \in Procs, pc[p] = "closing", NEW a \in Updates, a = target[p],
         CancelMain(a), UNCHANGED <<draining, hooks, speechVars>>
  PROVE  Life!Next \/ UNCHANGED <<busyNow, phaseNow>>
<1>1. a \in Updates /\ main \in [Updates -> {"none", "running", "ended", "cancelled"}]
  BY DEF IInv, TypeOK
<1>2. UNCHANGED busyNow
  BY DEF busyNow, Busy, Unplayed, speechVars
<1>3. CASE main[a] # "running"
  <2>1. main' = main  BY <1>1, <1>3 DEF CancelMain
  <2>. QED  BY <1>2, <2>1, SamePhase
<1>4. CASE main[a] = "running"
  <2>1. a \notin draining
    <3>1. ASSUME a \in draining PROVE FALSE
      <4>1. PICK q \in Procs : pc[q] = "drainWait" /\ target[q] = a
        BY <1>4, <3>1 DEF IInv, Drains
      <4>2. Holds(q, a) /\ Holds(p, a)
        BY <4>1 DEF IInv, Locks, ActLocks
      <4>. QED  BY <4>1, <4>2 DEF Holds
    <3>. QED  BY <3>1
  <2>2. main' = [main EXCEPT ![a] = "cancelled"]
    BY <1>4 DEF CancelMain
  <2>3. Phase(a) = "open"
    BY <1>1, <1>4, <2>1, PhaseIs DEF IInv
  <2>4. main'[a] = "cancelled" /\ \A b \in Updates : b # a => main'[b] = main[b]
    BY <1>1, <2>2
  <2>5. Phase(a)' = "cancelled" /\ \A b \in Updates : b # a => Phase(b)' = Phase(b)
    BY <2>4 DEF Phase
  <2>6. phaseNow' = [phaseNow EXCEPT ![a] = "cancelled"] /\ phaseNow[a] = "open"
    BY <1>1, <2>3, <2>5 DEF phaseNow
  <2>7. Life!Cancel(a)
    BY <1>2, <2>6 DEF Life!Cancel, busyNow, phaseNow
  <2>. QED  BY <1>1, <2>7 DEF Life!Next
<1>. QED  BY <1>3, <1>4

\* The first drain of an activity starts its on_exit; of a closed one it is work that nobody awaits.
LEMMA DrainedLife ==
  ASSUME IInv, NEW a \in Updates, a \notin draining, UNCHANGED <<main, owner, speech>>,
         draining' = draining \cup {a}, hooks' = [hooks EXCEPT ![a] = @ \cup {"on_exit"}]
  PROVE  Life!Next
<1>2. hooks'[a] # {} /\ \A b \in Updates : b # a => hooks'[b] = hooks[b]
  BY DEF IInv, TypeOK
<1>3. \A b \in Updates : Unplayed(b)' = Unplayed(b)
  BY DEF Unplayed
<1>4. Busy(a)'
  BY <1>2 DEF Busy
<1>5. \A b \in Updates : b # a => (Busy(b)' <=> Busy(b))
  BY <1>2, <1>3 DEF Busy
<1>6. \A b \in Updates : b # a => Phase(b)' = Phase(b)
  BY DEF Phase
<1>7. main[a] # "ended" /\ main[a] \in {"none", "running", "ended", "cancelled"}
  BY DEF IInv, Finished, TypeOK
<1>8. a \in busyNow' /\ \A b \in Updates : b # a => (b \in busyNow' <=> b \in busyNow)
  BY <1>4, <1>5 DEF busyNow
<1>9. CASE main[a] = "cancelled"
  <2>1. Phase(a) = "cancelled" /\ Phase(a)' = "cancelled"
    BY <1>9 DEF Phase
  <2>2. UNCHANGED phaseNow /\ phaseNow[a] = "cancelled"
    BY <1>6, <2>1 DEF phaseNow
  <2>. QED  BY <1>8, <2>2, WorkStep
<1>10. CASE main[a] \in {"none", "running"}
  <2>1. Phase(a) = "open"
    BY <1>10, PhaseIs DEF IInv
  <2>2. Phase(a)' = "draining"
    BY <1>10 DEF Phase
  <2>3. phaseNow' = [phaseNow EXCEPT ![a] = "draining"] /\ phaseNow[a] = "open"
    BY <1>6, <2>1, <2>2 DEF phaseNow
  <2>4. busyNow' \subseteq Updates /\ busyNow \subseteq Updates
    BY DEF busyNow
  <2>5. busyNow' = busyNow \cup {a}
    BY <1>8, <2>4
  <2>6. Life!StartDrain(a)
    BY <2>3, <2>5 DEF Life!StartDrain, busyNow, phaseNow
  <2>. QED  BY <2>6 DEF Life!Next
<1>. QED  BY <1>7, <1>9, <1>10

LEMMA LifeNext ==
  ASSUME IInv, [Next]_vars
  PROVE  Life!Next \/ UNCHANGED <<busyNow, phaseNow>>
<1>. USE Actors, Apart
<1>1. ASSUME NEW g \in Agents, UpdateAgent(g) PROVE Life!Next \/ UNCHANGED <<busyNow, phaseNow>>
  <2>1. UNCHANGED <<main, draining, hooks, owner, speech>>
    BY <1>1 DEF UpdateAgent, sessionVars, callVars, procVars, actVars, speechVars
  <2>. QED  BY <2>1, SameLife
<1>2. CASE AppDrains
  <2>1. UNCHANGED <<main, draining, hooks, owner, speech>>
    BY <1>2 DEF AppDrains, sessionVars, callVars, procVars, actVars, speechVars
  <2>. QED  BY <2>1, SameLife
<1>3. CASE AppCloses
  <2>1. UNCHANGED <<main, draining, hooks, owner, speech>>
    BY <1>3 DEF AppCloses, sessionVars, callVars, procVars, actVars, speechVars
  <2>. QED  BY <2>1, SameLife
<1>4. ASSUME NEW a \in Updates, OnError(a) PROVE Life!Next \/ UNCHANGED <<busyNow, phaseNow>>
  <2>1. UNCHANGED <<main, draining, hooks, owner, speech>>
    BY <1>4 DEF OnError, sessionVars, callVars, procVars, actVars, speechVars
  <2>. QED  BY <2>1, SameLife
<1>5. CASE Say
  BY <1>5, ScheduledLife DEF Say, actVars
<1>6. ASSUME NEW a \in Updates, NEW k \in Hooks, HookSays(a, k) PROVE Life!Next \/ UNCHANGED <<busyNow, phaseNow>>
  BY <1>6, ScheduledLife DEF HookSays
<1>7. ASSUME NEW u \in Updates, HandoffBegins(u) PROVE Life!Next \/ UNCHANGED <<busyNow, phaseNow>>
  <2>1. UNCHANGED <<main, draining, hooks, owner, speech>>
    BY <1>7 DEF HandoffBegins, sessionVars, callVars, procVars, actVars, speechVars
  <2>. QED  BY <2>1, SameLife
<1>8. ASSUME NEW p \in Procs, Drain(p) PROVE Life!Next \/ UNCHANGED <<busyNow, phaseNow>>
  <2>0. target[p] \in Updates  BY DEF IInv, TypeOK
  <2>1. CASE target[p] \in draining
    <3>1. UNCHANGED <<main, draining, hooks, owner, speech>>  BY <1>8, <2>1 DEF Drain, speechVars
    <3>. QED  BY <3>1, SameLife
  <2>2. CASE target[p] \notin draining
    <3>1. /\ UNCHANGED <<main, owner, speech>>
          /\ draining' = draining \cup {target[p]}
          /\ hooks' = [hooks EXCEPT ![target[p]] = @ \cup {"on_exit"}]
      BY <1>8, <2>2 DEF Drain, speechVars
    <3>. QED  BY <2>0, <2>2, <3>1, DrainedLife
  <2>. QED  BY <2>1, <2>2
<1>9. ASSUME NEW p \in Procs, DrainReturns(p) PROVE Life!Next \/ UNCHANGED <<busyNow, phaseNow>>
  <2>1. UNCHANGED <<main, draining, hooks, owner, speech>>
    BY <1>9 DEF DrainReturns, sessionVars, callVars, procVars, actVars, speechVars
  <2>. QED  BY <2>1, SameLife
<1>10. ASSUME NEW p \in Procs, DrainRaises(p) PROVE Life!Next \/ UNCHANGED <<busyNow, phaseNow>>
  <2>1. UNCHANGED <<main, draining, hooks, owner, speech>>
    BY <1>10 DEF DrainRaises, sessionVars, callVars, procVars, actVars, speechVars
  <2>. QED  BY <2>1, SameLife
<1>11. ASSUME NEW p \in Procs, CloseActivity(p) PROVE Life!Next \/ UNCHANGED <<busyNow, phaseNow>>
  <2>1. UNCHANGED <<main, draining, hooks, owner, speech>>
    BY <1>11 DEF CloseActivity, sessionVars, callVars, procVars, actVars, speechVars
  <2>. QED  BY <2>1, SameLife
<1>12. ASSUME NEW u \in Updates, HandsOver(u) PROVE Life!Next \/ UNCHANGED <<busyNow, phaseNow>>
  <2>1. target[u] \in Updates  BY DEF IInv, TypeOK
  <2>. QED  BY <1>12, <2>1, CancelledLife DEF HandsOver
<1>13. ASSUME NEW u \in Updates, ActivityStarts(u) PROVE Life!Next \/ UNCHANGED <<busyNow, phaseNow>>
  <2>1. target[u] = u /\ main[u] = "none" /\ u \notin draining
    BY <1>13 DEF ActivityStarts, IInv, Serial, Current, Mains, Drains, TypeOK
  <2>2. /\ main' = [main EXCEPT ![u] = "running"] /\ draining' = draining
        /\ hooks' = [hooks EXCEPT ![u] = {"on_enter"}]
    BY <1>13, <2>1 DEF ActivityStarts
  <2>3. main'[u] = "running" /\ \A b \in Updates : b # u => main'[b] = main[b] /\ hooks'[b] = hooks[b]
    BY <2>2 DEF IInv, TypeOK
  <2>4. \A b \in Updates : Phase(b)' = Phase(b)
    BY <2>1, <2>2, <2>3 DEF Phase
  <2>5. UNCHANGED phaseNow  BY <2>4 DEF phaseNow
  <2>6. phaseNow[u] = "open"  BY <2>1, PhaseIs DEF phaseNow, IInv
  <2>7. \A b \in Updates : Unplayed(b)' = Unplayed(b)  BY <1>13 DEF ActivityStarts, Unplayed, speechVars
  <2>8. \A b \in Updates : b # u => (b \in busyNow' <=> b \in busyNow)
    BY <2>3, <2>7 DEF busyNow, Busy
  <2>. QED  BY <2>5, <2>6, <2>8, WorkStep
<1>14. ASSUME NEW a \in Updates, MainEnds(a) PROVE Life!Next \/ UNCHANGED <<busyNow, phaseNow>>
  <2>1. main[a] = "running" /\ a \in draining /\ ~Busy(a)  BY <1>14 DEF MainEnds
  <2>2. Phase(a) = "draining"  BY <2>1, PhaseIs DEF IInv
  <2>3. main'[a] = "ended" /\ draining' = draining /\ \A b \in Updates : b # a => main'[b] = main[b]
    BY <1>14 DEF MainEnds, IInv, TypeOK
  <2>4. Phase(a)' = "drained" /\ \A b \in Updates : b # a => Phase(b)' = Phase(b)
    BY <2>3 DEF Phase
  <2>5. phaseNow' = [phaseNow EXCEPT ![a] = "drained"] /\ phaseNow[a] = "draining"
    BY <2>2, <2>4 DEF phaseNow
  <2>6. UNCHANGED busyNow /\ a \notin busyNow
    BY <1>14, <2>1 DEF MainEnds, busyNow, Busy, Unplayed, speechVars
  <2>7. Life!Drained(a)  BY <2>5, <2>6 DEF Life!Drained, busyNow, phaseNow
  <2>. QED  BY <2>7 DEF Life!Next
<1>15. ASSUME NEW a \in Updates, NEW k \in Hooks, HookReturns(a, k) PROVE Life!Next \/ UNCHANGED <<busyNow, phaseNow>>
  <2>1. UNCHANGED phaseNow  BY <1>15, SamePhase DEF HookReturns
  <2>2. Busy(a) /\ hooks[a] # {}  BY <1>15 DEF HookReturns, Busy
  <2>3. phaseNow[a] # "drained"  BY <2>2, PhaseIs DEF phaseNow, IInv, Finished
  <2>4. \A b \in Updates : b # a => Busy(b)' = Busy(b)
    <3>1. \A b \in Updates : b # a => hooks'[b] = hooks[b]  BY <1>15 DEF HookReturns, IInv, TypeOK
    <3>2. \A b \in Updates : Unplayed(b)' = Unplayed(b)  BY <1>15 DEF HookReturns, Unplayed, speechVars
    <3>. QED  BY <3>1, <3>2 DEF Busy
  <2>5. /\ a \in busyNow
        /\ \A b \in Updates : b # a => (b \in busyNow' <=> b \in busyNow)
    BY <2>2, <2>4 DEF busyNow
  <2>. QED  BY <2>1, <2>3, <2>5, WorkStep
<1>16. CASE ClosingBegins
  <2>1. UNCHANGED <<main, draining, hooks, owner, speech>>
    BY <1>16 DEF ClosingBegins, sessionVars, callVars, procVars, actVars, speechVars
  <2>. QED  BY <2>1, SameLife
<1>17. ASSUME NEW c \in Closers, CloseSession(c) PROVE Life!Next \/ UNCHANGED <<busyNow, phaseNow>>
  <2>1. UNCHANGED <<main, draining, hooks, owner, speech>>
    BY <1>17 DEF CloseSession, sessionVars, callVars, procVars, actVars, speechVars
  <2>. QED  BY <2>1, SameLife
<1>18. ASSUME NEW c \in Closers, ActivityClosed(c) PROVE Life!Next \/ UNCHANGED <<busyNow, phaseNow>>
  <2>1. target[c] \in Updates  BY DEF IInv, TypeOK, Procs
  <2>. QED  BY <1>18, <2>1, CancelledLife DEF ActivityClosed
<1>19. ASSUME NEW c \in Closers, SessionClosed(c) PROVE Life!Next \/ UNCHANGED <<busyNow, phaseNow>>
  <2>1. UNCHANGED <<main, draining, hooks, owner, speech>>
    BY <1>19 DEF SessionClosed, sessionVars, callVars, procVars, actVars, speechVars
  <2>. QED  BY <2>1, SameLife
<1>20. ASSUME NEW h \in Speeches, Plays(h) PROVE Life!Next \/ UNCHANGED <<busyNow, phaseNow>>
  <2>1. UNCHANGED <<main, draining, hooks, owner>>  BY <1>20 DEF Plays, actVars
  <2>2. \A g \in Speeches : speech[g] \in {"queued", "playing"} <=> speech'[g] \in {"queued", "playing"}
    BY <1>20 DEF Plays, IInv, TypeOK
  <2>. QED  BY <2>1, <2>2, SameLife
<1>21. ASSUME NEW h \in Speeches, SpeechEnds(h) PROVE Life!Next \/ UNCHANGED <<busyNow, phaseNow>>
  <2>1. UNCHANGED <<phaseNow, hooks, owner>>  BY <1>21, SamePhase DEF SpeechEnds, actVars
  <2>2. owner[h] \in Updates /\ h \in Unplayed(owner[h])
    BY <1>21 DEF SpeechEnds, Unplayed, IInv, TypeOK
  <2>3. phaseNow[owner[h]] # "drained"  BY <2>2, PhaseIs DEF phaseNow, IInv, Finished
  <2>4. \A b \in Updates : b # owner[h] => Unplayed(b)' = Unplayed(b)
    BY <1>21, <2>1 DEF SpeechEnds, Unplayed, IInv, TypeOK
  <2>5. owner[h] \in busyNow  BY <2>2 DEF busyNow, Busy
  <2>6. \A b \in Updates : b # owner[h] => (b \in busyNow' <=> b \in busyNow)
    BY <2>1, <2>4 DEF busyNow, Busy
  <2>. QED  BY <2>1, <2>2, <2>3, <2>5, <2>6, WorkStep
<1>22. CASE UNCHANGED vars
  BY <1>22, SameLife DEF vars, sessionVars, callVars, procVars, actVars, speechVars
<1>. QED
  BY <1>1, <1>2, <1>3, <1>4, <1>5, <1>6, <1>7, <1>8, <1>9,
     <1>10, <1>11, <1>12, <1>13, <1>14, <1>15, <1>16, <1>17, <1>18,
     <1>19, <1>20, <1>21, <1>22
     DEF Next, Runs, UpdateStep, CloserStep, Step, ActivityStep, Procs

LEMMA LifeInit ==
  ASSUME Init
  PROVE  Life!Init
<1>1. \A a \in Updates : main[a] = "none" /\ a \notin draining
  BY DEF Init
<1>2. phaseNow = [a \in Updates |-> "open"]
  BY <1>1 DEF phaseNow, Phase
<1>3. busyNow \in SUBSET Updates
  BY DEF busyNow
<1>. QED  BY <1>2, <1>3 DEF Life!Init, busyNow, phaseNow

\* The session treats every activity as the life of ActivityLife says it may: what it schedules,
\* drains, cancels and hands over is a step of that life, or none.
THEOREM KeepsToLife == Spec => ActivitiesKeepLife
<1>1. IInv /\ [Next]_vars => [Life!Next]_<<busyNow, phaseNow>>
  BY LifeNext
<1>. QED
  BY <1>1, Initially, Inductive, LifeInit, PTL
  DEF Spec, ActivitiesKeepLife, Life!Spec, busyNow, phaseNow
===============================================================================
