---------------------------- MODULE ProcPoolProofs ----------------------------
(***************************************************************************)
(* Proofs about ProcPool, for any jobs, targets, processes and failures.   *)
(* What the pool keeps in several places has to agree: the executors, the  *)
(* queue of warmed processes, the spawn and monitor tasks and the          *)
(* processes themselves.  Each part of the invariant relates two of them.  *)
(* Towards its callers the pool keeps PoolLife, and of its processes it    *)
(* supposes what ProcLife says and no more.                                *)
(***************************************************************************)
EXTENDS ProcPool, FiniteSetTheorems, SequenceTheorems, TLAPS

\* The processes to come are unused.
Fresh == \A p \in Procs : p > spawned <=> spawn[p] = "unused"

\* launch_job counts those that wait in it.
Asking  == {j \in Jobs : job[j] \in {"waiting", "woken"}}
Counted == jobsWaiting = Cardinality(Asking)

\* Each job waits once for a process.
Queued ==
  /\ \A i \in 1 .. Len(getters) : job[getters[i]] = "waiting"
  /\ \A i, k \in 1 .. Len(getters) : getters[i] = getters[k] => i = k

\* What is in the queue is ready and free, and in it once.
Warmed ==
  /\ \A i \in 1 .. Len(warm) : spawn[warm[i]] = "ready" /\ runningJob[warm[i]] = NoJob
  /\ \A i, k \in 1 .. Len(warm) : warm[i] = warm[k] => i = k

\* A job that has a process does not wait for one, and is on no other.
Taken ==
  \A p \in Procs : runningJob[p] # NoJob =>
    /\ spawn[p] = "ready"
    /\ job[runningJob[p]] \notin {"new", "waiting", "woken"}
    /\ \A q \in Procs : runningJob[q] = runningJob[p] => q = p

\* A spawn task is in the set until it is done, a job is woken by one that is.
Pending ==
  /\ \A p \in Procs :
       spawn[p] \in {"created", "sem", "starting", "initializing"} => p \in spawnTasks
  /\ \A j \in Jobs : waker[j] # 0 => spawn[waker[j]] = "ready"

\* A process exists from the end of start, and its executor is in the list before.
Starting ==
  /\ \A p \in Procs : child[p] # "none" <=> spawn[p] \in {"initializing", "ready", "failed", "unsent"}
  /\ \A p \in Procs : spawn[p] \in {"sem", "starting"} => Listed(p)

\* A process whose spawn task has left it is watched until it is dead.
Watched ==
  \A p \in Procs : spawn[p] \in {"ready", "failed", "unsent"} => p \in monitors \/ child[p] = "dead"

InStart(p) == spawn[p] \in {"starting", "initializing"}
Lives(p)   == child[p] \in {"alive", "exiting"}

\* What each await of _main_task after its cancellation leaves to the next one.
Closing ==
  /\ closed <=> main # "loop"
  /\ main = "joining" => \A p \in Procs : InStart(p) => p \in toJoin
  /\ main = "monitoring" =>
       \A p \in Procs : ~InStart(p) /\ (Lives(p) => p \in monitors \cap toJoin)
  /\ main = "closed" =>
       \/ \E p \in Procs : spawn[p] = "raised"
       \/ \A p \in Procs : ~InStart(p) /\ ~Lives(p)

IInv ==
  /\ TypeOK /\ Fresh /\ Counted /\ Queued /\ Warmed /\ Taken
  /\ Pending /\ Starting /\ LiveIsListed /\ Watched /\ Closing

-------------------------------------------------------------------------------
LEMMA Glued ==
  ASSUME NEW a \in Seq(Procs), NEW b \in Seq(Procs), NEW c \in Seq(Procs), c = a \o b
  PROVE  /\ Len(c) = Len(a) + Len(b)
         /\ \A k \in 1 .. Len(a) : c[k] = a[k]
         /\ \A k \in 1 .. Len(b) : c[k + Len(a)] = b[k]
OBVIOUS

\* list.remove keeps every other element.
Without(s, i) == SubSeq(s, 1, i - 1) \o SubSeq(s, i + 1, Len(s))

LEMMA Removed ==
  ASSUME NEW s \in Seq(Procs), NEW i \in 1 .. Len(s)
  PROVE  /\ Without(s, i) \in Seq(Procs)
         /\ \A k \in 1 .. Len(s) : s[k] # s[i] =>
              \E l \in 1 .. Len(Without(s, i)) : Without(s, i)[l] = s[k]
<1>. DEFINE a == SubSeq(s, 1, i - 1)
            b == SubSeq(s, i + 1, Len(s))
            c == a \o b
<1>0. Len(s) \in Nat /\ i \in Int /\ i - 1 \in Int /\ i + 1 \in Int
  OBVIOUS
<1>1. a \in Seq(Procs) /\ Len(a) = i - 1 /\ \A k \in 1 .. i - 1 : a[k] = s[k]
  BY <1>0, SubSeqProperties
<1>2. b \in Seq(Procs) /\ Len(b) = Len(s) - i /\ \A k \in 1 .. Len(s) - i : b[k] = s[k + i]
  BY <1>0, SubSeqProperties
<1>3. c \in Seq(Procs)
  BY <1>1, <1>2, ConcatProperties
<1>4. c = a \o b
  OBVIOUS
<1>5. Without(s, i) = c
  BY DEF Without
<1>. HIDE DEF a, b, c
<1>6. /\ Len(c) = Len(a) + Len(b)
      /\ \A k \in 1 .. Len(a) : c[k] = a[k]
      /\ \A k \in 1 .. Len(b) : c[k + Len(a)] = b[k]
  BY <1>1, <1>2, <1>3, <1>4, Glued
<1>7. \A k \in 1 .. Len(s) : s[k] # s[i] => \E l \in 1 .. Len(c) : c[l] = s[k]
  <2>. SUFFICES ASSUME NEW k \in 1 .. Len(s), s[k] # s[i]
                PROVE  \E l \in 1 .. Len(c) : c[l] = s[k]
    OBVIOUS
  <2>1. CASE k < i
    <3>1. k \in 1 .. Len(c) /\ c[k] = s[k]
      BY <1>0, <1>1, <1>2, <1>6, <2>1
    <3>. QED  BY <3>1
  <2>2. CASE k > i
    <3>1. k - 1 \in 1 .. Len(c) /\ k - i \in 1 .. Len(b)
      BY <1>0, <1>1, <1>2, <1>6, <2>2
    <3>2. c[(k - i) + Len(a)] = b[k - i]
      BY <1>6, <3>1
    <3>3. b[k - i] = s[k] /\ (k - i) + Len(a) = k - 1
      BY <1>0, <1>1, <1>2, <2>2
    <3>. QED  BY <3>1, <3>2, <3>3
  <2>3. k # i
    OBVIOUS
  <2>. QED  BY <1>0, <2>1, <2>2, <2>3
<1>. QED  BY <1>3, <1>5, <1>7

LEMMA Unlisted ==
  ASSUME executors \in Seq(Procs), NEW p \in Procs, Unlist(p)
  PROVE  /\ executors' \in Seq(Procs)
         /\ \A q \in Procs : q # p /\ Listed(q) => Listed(q)'
<1>1. PICK i \in 1 .. Len(executors) :
        executors[i] = p /\ executors' = Without(executors, i)
  BY DEF Unlist, Without
<1>2. /\ executors' \in Seq(Procs)
      /\ \A k \in 1 .. Len(executors) : executors[k] # executors[i] =>
           \E l \in 1 .. Len(executors') : executors'[l] = executors[k]
  BY <1>1, Removed
<1>. QED  BY <1>1, <1>2 DEF Listed

LEMMA Entered ==
  ASSUME executors \in Seq(Procs), NEW p \in Procs, executors' = Append(executors, p)
  PROVE  /\ executors' \in Seq(Procs)
         /\ \A q \in Procs : Listed(q) => Listed(q)'
         /\ Listed(p)'
<1>1. /\ executors' \in Seq(Procs) /\ Len(executors') = Len(executors) + 1
      /\ \A i \in 1 .. Len(executors) : executors'[i] = executors[i]
      /\ executors'[Len(executors) + 1] = p
  OBVIOUS
<1>2. Len(executors) \in Nat
  OBVIOUS
<1>3. 1 .. Len(executors) \subseteq 1 .. Len(executors') /\ Len(executors) + 1 \in 1 .. Len(executors')
  BY <1>1, <1>2
<1>. QED  BY <1>1, <1>3 DEF Listed

\* New spawn tasks are those of the next unused processes.
LEMMA Created ==
  ASSUME Fresh, spawned \in 0 .. MaxProcs, NEW n \in Nat, CreateSpawnTasks(n)
  PROVE  /\ spawned' \in 0 .. MaxProcs /\ spawned' >= spawned
         /\ \E new \in SUBSET {p \in Procs : spawn[p] = "unused"} :
              /\ new = {p \in Procs : p > spawned /\ p <= spawned'}
              /\ spawn' = [p \in Procs |-> IF p \in new THEN "created" ELSE spawn[p]]
              /\ spawnTasks' = spawnTasks \cup new
<1>. DEFINE new  == {p \in Procs : p > spawned /\ p <= spawned + n}
            last == IF spawned + n < MaxProcs THEN spawned + n ELSE MaxProcs
<1>1. MaxProcs \in Nat
  BY PoolAssumption
<1>2. new = (spawned + 1) .. last /\ last \in Nat /\ last >= spawned
  BY <1>1 DEF Procs
<1>3. Cardinality(new) = last - spawned
  <2>1. spawned + 1 \in Int /\ last \in Int  BY <1>1
  <2>2. Cardinality((spawned + 1) .. last) = IF spawned + 1 > last THEN 0 ELSE last - (spawned + 1) + 1
    BY <2>1, FS_Interval
  <2>3. spawned \in Nat /\ last \in Nat /\ last >= spawned  BY <1>1, <1>2
  <2>4. Cardinality(new) = Cardinality((spawned + 1) .. last)  BY <1>2
  <2>. HIDE DEF new, last
  <2>. QED  BY <2>2, <2>3, <2>4
<1>4. spawned' = last
  <2>1. spawned' = spawned + Cardinality(new)  BY DEF CreateSpawnTasks
  <2>2. spawned \in Nat /\ last \in Nat  BY <1>1, <1>2
  <2>. QED  BY <1>3, <2>1, <2>2
<1>5. new = {p \in Procs : p > spawned /\ p <= spawned'}
  BY <1>1, <1>4 DEF Procs
<1>6. new \in SUBSET {p \in Procs : spawn[p] = "unused"}
  BY DEF Fresh
<1>7. /\ spawn' = [p \in Procs |-> IF p \in new THEN "created" ELSE spawn[p]]
      /\ spawnTasks' = spawnTasks \cup new
  BY DEF CreateSpawnTasks
<1>8. spawned' \in 0 .. MaxProcs /\ spawned' >= spawned
  BY <1>1, <1>2, <1>4
<1>. QED  BY <1>5, <1>6, <1>7, <1>8

\* MainTick creates a natural number of them.
LEMMA TickCreates ==
  ASSUME TypeOK, MainTick
  PROVE  IdleWanted - IdleComing \in Nat
<1>1. target \in Nat /\ DefaultIdle \in Nat /\ IdleComing < IdleWanted /\ warm \in Seq(Procs)
  BY PoolAssumption DEF TypeOK, MainTick
<1>2. IdleWanted \in Nat
  BY <1>1 DEF IdleWanted, LeastOf
<1>3. IsFiniteSet(Procs) /\ spawnTasks \in SUBSET Procs
  BY PoolAssumption, FS_Interval DEF Procs, TypeOK
<1>4. Cardinality(spawnTasks) \in Nat
  BY <1>3, FS_Subset, FS_CardinalityType
<1>5. IdleComing \in Nat
  BY <1>1, <1>4 DEF IdleComing
<1>. QED  BY <1>1, <1>2, <1>5

Creates ==
  \E new \in SUBSET {p \in Procs : spawn[p] = "unused"} :
    /\ spawn' = [p \in Procs |-> IF p \in new THEN "created" ELSE spawn[p]]
    /\ spawnTasks' = spawnTasks \cup new

LEMMA TickMoves ==
  ASSUME TypeOK, Fresh, MainTick
  PROVE  Creates
<1>1. spawned \in 0 .. MaxProcs /\ CreateSpawnTasks(IdleWanted - IdleComing)
  BY DEF TypeOK, MainTick
<1>. QED  BY <1>1, TickCreates, Created DEF Creates

LEMMA LaunchMoves ==
  ASSUME TypeOK, Fresh, NEW j \in Jobs, LaunchJob(j)
  PROVE  Creates \/ UNCHANGED <<spawn, spawnTasks>>
<1>1. CASE CreateSpawnTasks(1)
  <2>1. spawned \in 0 .. MaxProcs  BY DEF TypeOK
  <2>. QED  BY <1>1, <2>1, Created DEF Creates
<1>2. CASE UNCHANGED <<spawn, spawnTasks>>
  BY <1>2
<1>. QED  BY <1>1, <1>2 DEF LaunchJob

-------------------------------------------------------------------------------
\* What a step may touch: nothing of the processes and of the jobs, or nothing of the jobs.
Aside == UNCHANGED <<warm, getters, jobsWaiting, procVars, jobVars>>

StaysReady == \A p \in Procs : spawn[p] = "ready" => spawn'[p] = "ready"
Steady     == StaysReady /\ UNCHANGED <<warm, getters, jobsWaiting, jobVars>>

LEMMA Steps ==
  ASSUME [Next]_vars
  PROVE  \/ Aside
         \/ \E j \in Jobs : LaunchJob(j) \/ ResumeLaunch(j)
         \/ \E p \in Procs : SpawnStep(p) \/ JobEnds(p) \/ ChildExits(p) \/ ChildCrashes(p)
         \/ MainTick
         \/ \E p \in Procs : AcloseProc(p)
<1>. USE DEF poolVars, procVars, jobVars, closeVars, drainVars, Aside
<1>1. ASSUME MainCancelled \/ MainGathersSpawns \/ MainGathersMonitors \/ MainReturns
      PROVE  Aside
  BY <1>1 DEF MainCancelled, MainGathersSpawns, MainGathersMonitors, MainReturns
<1>2. ASSUME NEW p \in Procs, AcloseProcReturns(p)
      PROVE  Aside
  BY <1>2 DEF AcloseProcReturns
<1>3. ASSUME Aclose \/ Drain \/ DrainResumes \/ UNCHANGED vars
      PROVE  Aside
  BY <1>3 DEF Aclose, Drain, DrainResumes, vars
<1>4. ASSUME NEW n \in Targets, SetTarget(n)
      PROVE  Aside
  BY <1>4 DEF SetTarget
<1>. HIDE DEF Aside
<1>. QED  BY <1>1, <1>2, <1>3, <1>4 DEF Next, MainStep

LEMMA CreatesReady ==
  ASSUME TypeOK, Creates \/ UNCHANGED <<spawn, spawnTasks>>
  PROVE  StaysReady
BY DEF Creates, StaysReady

\* The steps that neither hand out a process nor end one.
LEMMA SteadySteps ==
  ASSUME TypeOK, Fresh, [Next]_vars
  PROVE  \/ Steady
         \/ \E j \in Jobs : LaunchJob(j) \/ ResumeLaunch(j)
         \/ \E p \in Procs : InitOk(p) \/ ChildExits(p) \/ ChildCrashes(p)
<1>. spawn \in [Procs -> SpawnStates]  BY DEF TypeOK
<1>. USE DEF poolVars, procVars, jobVars, closeVars, drainVars, Steady
<1>1. CASE Aside
  BY <1>1 DEF Aside, StaysReady
<1>2. ASSUME NEW p \in Procs, \/ SpawnEnter(p) \/ SpawnAcquire(p) \/ StartOk(p) \/ StartDies(p)
                              \/ StartRaises(p) \/ InitFails(p)
      PROVE  Steady
  <2>1. spawn[p] # "ready" /\ \E s \in SpawnStates : spawn' = [spawn EXCEPT ![p] = s]
    BY <1>2 DEF SpawnEnter, SpawnAcquire, StartOk, StartDies, StartRaises, InitFails, SpawnStates
  <2>2. StaysReady  BY <2>1 DEF StaysReady
  <2>. QED
    BY <1>2, <2>2 DEF SpawnEnter, SpawnAcquire, StartOk, StartDies, StartRaises, InitFails
<1>3. ASSUME NEW p \in Procs, Discard(p) \/ MonitorEnds(p) \/ JobEnds(p) \/ AcloseProc(p)
      PROVE  Steady
  BY <1>3 DEF Discard, MonitorEnds, JobEnds, AcloseProc, StaysReady
<1>4. CASE MainTick
  <2>1. StaysReady  BY <1>4, TickMoves, CreatesReady
  <2>. QED  BY <1>4, <2>1 DEF MainTick
<1>. HIDE DEF Steady
<1>. QED  BY <1>1, <1>2, <1>3, <1>4, Steps DEF SpawnStep

-------------------------------------------------------------------------------
\* Processes, their executors and their spawn tasks.
LEMMA CreatesStarting ==
  ASSUME TypeOK, Starting, UNCHANGED <<child, executors>>,
         Creates \/ UNCHANGED <<spawn, spawnTasks>>
  PROVE  Starting'
<1>1. \A p \in Procs : spawn'[p] # spawn[p] => spawn[p] = "unused" /\ spawn'[p] = "created"
  BY DEF Creates
<1>. QED  BY <1>1 DEF Starting, Listed

LEMMA StartingNext ==
  ASSUME TypeOK, Fresh, Starting, [Next]_vars
  PROVE  Starting'
<1>. /\ spawn \in [Procs -> SpawnStates] /\ child \in [Procs -> {"none", "alive", "exiting", "dead"}]
     /\ executors \in Seq(Procs)
  BY DEF TypeOK
<1>. USE DEF poolVars, procVars, jobVars, closeVars, drainVars
<1>1. CASE Aside
  BY <1>1 DEF Aside, Starting, Listed
<1>2. ASSUME NEW j \in Jobs, LaunchJob(j) PROVE Starting'
  <2>1. UNCHANGED <<child, executors, monitors, main, closed, toJoin>>
    BY <1>2 DEF LaunchJob, closeVars
  <2>2. Creates \/ UNCHANGED <<spawn, spawnTasks>>
    BY <1>2, LaunchMoves
  <2>. QED  BY <2>1, <2>2, CreatesStarting
<1>3. ASSUME NEW j \in Jobs, ResumeLaunch(j) PROVE Starting'
  BY <1>3 DEF ResumeLaunch, Starting, Listed
<1>4. ASSUME NEW p \in Procs, SpawnEnter(p) PROVE Starting'
  <2>1. executors' = Append(executors, p) /\ spawn' = [spawn EXCEPT ![p] = "sem"] /\ child' = child
    BY <1>4 DEF SpawnEnter
  <2>2. spawn[p] = "created"  BY <1>4 DEF SpawnEnter
  <2>3. Listed(p)' /\ \A q \in Procs : Listed(q) => Listed(q)'  BY <2>1, Entered
  <2>. QED  BY <2>1, <2>2, <2>3 DEF Starting
<1>5. ASSUME NEW p \in Procs, SpawnAcquire(p) PROVE Starting'
  <2>1. spawn[p] = "sem" /\ child' = child  BY <1>5 DEF SpawnAcquire
  <2>2. CASE closed
    <3>1. spawn' = [spawn EXCEPT ![p] = "skipped"] /\ Unlist(p)  BY <1>5, <2>2 DEF SpawnAcquire
    <3>2. \A q \in Procs : q # p /\ Listed(q) => Listed(q)'  BY <3>1, Unlisted
    <3>. QED  BY <2>1, <3>1, <3>2 DEF Starting
  <2>3. CASE ~closed
    <3>1. spawn' = [spawn EXCEPT ![p] = "starting"] /\ executors' = executors
      BY <1>5, <2>3 DEF SpawnAcquire
    <3>. QED  BY <2>1, <3>1 DEF Starting, Listed
  <2>. QED  BY <2>2, <2>3
<1>6. ASSUME NEW p \in Procs, StartOk(p) PROVE Starting'
  BY <1>6 DEF StartOk, Starting, Listed
<1>7. ASSUME NEW p \in Procs, StartDies(p) PROVE Starting'
  BY <1>7 DEF StartDies, Starting, Listed
<1>8. ASSUME NEW p \in Procs, StartRaises(p) PROVE Starting'
  BY <1>8 DEF StartRaises, Starting, Listed
<1>9. ASSUME NEW p \in Procs, InitOk(p) PROVE Starting'
  BY <1>9 DEF InitOk, Starting, Listed
<1>10. ASSUME NEW p \in Procs, InitFails(p) PROVE Starting'
  BY <1>10 DEF InitFails, Starting, Listed
<1>11. ASSUME NEW p \in Procs, Discard(p) PROVE Starting'
  BY <1>11 DEF Discard, Starting, Listed
<1>12. ASSUME NEW p \in Procs, MonitorEnds(p) PROVE Starting'
  <2>1. child[p] = "dead" /\ Unlist(p) /\ UNCHANGED <<spawn, child>>  BY <1>12 DEF MonitorEnds, Joins
  <2>2. \A q \in Procs : q # p /\ Listed(q) => Listed(q)'  BY <2>1, Unlisted
  <2>. QED  BY <2>1, <2>2 DEF Starting
<1>13. ASSUME NEW p \in Procs, JobEnds(p) PROVE Starting'
  BY <1>13 DEF JobEnds, Starting, Listed
<1>14. ASSUME NEW p \in Procs, ChildExits(p) PROVE Starting'
  BY <1>14 DEF ChildExits, Starting, Listed, Ended
<1>15. ASSUME NEW p \in Procs, ChildCrashes(p) PROVE Starting'
  BY <1>15 DEF ChildCrashes, Starting, Listed, Ended
<1>16. CASE MainTick
  <2>1. UNCHANGED <<child, executors, monitors, main, closed, toJoin>>
    BY <1>16 DEF MainTick
  <2>2. Creates
    BY <1>16, TickMoves
  <2>. QED  BY <2>1, <2>2, CreatesStarting
<1>17. ASSUME NEW p \in Procs, AcloseProc(p) PROVE Starting'
  BY <1>17 DEF AcloseProc, Starting, Listed
<1>. QED
  BY <1>1, <1>2, <1>3, <1>4, <1>5, <1>6, <1>7, <1>8, <1>9, <1>10, <1>11, <1>12, <1>13,
     <1>14, <1>15, <1>16, <1>17,
     Steps
  DEF SpawnStep

LEMMA CreatesLive ==
  ASSUME LiveIsListed, UNCHANGED <<child, executors>>
  PROVE  LiveIsListed'
BY DEF LiveIsListed, Listed

LEMMA LiveIsListedNext ==
  ASSUME TypeOK, Fresh, Starting, LiveIsListed, [Next]_vars
  PROVE  LiveIsListed'
<1>. /\ spawn \in [Procs -> SpawnStates] /\ child \in [Procs -> {"none", "alive", "exiting", "dead"}]
     /\ executors \in Seq(Procs)
  BY DEF TypeOK
<1>. USE DEF poolVars, procVars, jobVars, closeVars, drainVars
<1>1. CASE Aside
  BY <1>1 DEF Aside, LiveIsListed, Listed
<1>2. ASSUME NEW j \in Jobs, LaunchJob(j) PROVE LiveIsListed'
  <2>1. UNCHANGED <<child, executors, monitors, main, closed, toJoin>>
    BY <1>2 DEF LaunchJob, closeVars
  <2>2. Creates \/ UNCHANGED <<spawn, spawnTasks>>
    BY <1>2, LaunchMoves
  <2>. QED  BY <2>1, <2>2, CreatesLive
<1>3. ASSUME NEW j \in Jobs, ResumeLaunch(j) PROVE LiveIsListed'
  BY <1>3 DEF ResumeLaunch, LiveIsListed, Listed
<1>4. ASSUME NEW p \in Procs, SpawnEnter(p) PROVE LiveIsListed'
  <2>1. executors' = Append(executors, p) /\ child' = child  BY <1>4 DEF SpawnEnter
  <2>2. \A q \in Procs : Listed(q) => Listed(q)'  BY <2>1, Entered
  <2>. QED  BY <2>1, <2>2 DEF LiveIsListed
<1>5. ASSUME NEW p \in Procs, SpawnAcquire(p) PROVE LiveIsListed'
  <2>1. spawn[p] = "sem" /\ child' = child  BY <1>5 DEF SpawnAcquire
  <2>2. CASE closed
    <3>1. Unlist(p)  BY <1>5, <2>2 DEF SpawnAcquire
    <3>2. \A q \in Procs : q # p /\ Listed(q) => Listed(q)'  BY <3>1, Unlisted
    <3>3. child[p] = "none"  BY <2>1 DEF Starting
    <3>. QED  BY <2>1, <3>2, <3>3 DEF LiveIsListed
  <2>3. CASE ~closed
    <3>1. executors' = executors  BY <1>5, <2>3 DEF SpawnAcquire
    <3>. QED  BY <2>1, <3>1 DEF LiveIsListed, Listed
  <2>. QED  BY <2>2, <2>3
<1>6. ASSUME NEW p \in Procs, StartOk(p) PROVE LiveIsListed'
  BY <1>6 DEF StartOk, LiveIsListed, Listed, Starting
<1>7. ASSUME NEW p \in Procs, StartDies(p) PROVE LiveIsListed'
  BY <1>7 DEF StartDies, LiveIsListed, Listed, Starting
<1>8. ASSUME NEW p \in Procs, StartRaises(p) PROVE LiveIsListed'
  BY <1>8 DEF StartRaises, LiveIsListed, Listed
<1>9. ASSUME NEW p \in Procs, InitOk(p) PROVE LiveIsListed'
  BY <1>9 DEF InitOk, LiveIsListed, Listed
<1>10. ASSUME NEW p \in Procs, InitFails(p) PROVE LiveIsListed'
  BY <1>10 DEF InitFails, LiveIsListed, Listed, Starting
<1>11. ASSUME NEW p \in Procs, Discard(p) PROVE LiveIsListed'
  BY <1>11 DEF Discard, LiveIsListed, Listed
<1>12. ASSUME NEW p \in Procs, MonitorEnds(p) PROVE LiveIsListed'
  <2>1. child[p] = "dead" /\ Unlist(p) /\ child' = child  BY <1>12 DEF MonitorEnds, Joins
  <2>2. \A q \in Procs : q # p /\ Listed(q) => Listed(q)'  BY <2>1, Unlisted
  <2>. QED  BY <2>1, <2>2 DEF LiveIsListed
<1>13. ASSUME NEW p \in Procs, JobEnds(p) PROVE LiveIsListed'
  BY <1>13 DEF JobEnds, LiveIsListed, Listed
<1>14. ASSUME NEW p \in Procs, ChildExits(p) PROVE LiveIsListed'
  BY <1>14 DEF ChildExits, LiveIsListed, Listed, Ended
<1>15. ASSUME NEW p \in Procs, ChildCrashes(p) PROVE LiveIsListed'
  BY <1>15 DEF ChildCrashes, LiveIsListed, Listed, Ended
<1>16. CASE MainTick
  <2>1. UNCHANGED <<child, executors, monitors, main, closed, toJoin>>
    BY <1>16 DEF MainTick
  <2>2. Creates
    BY <1>16, TickMoves
  <2>. QED  BY <2>1, <2>2, CreatesLive
<1>17. ASSUME NEW p \in Procs, AcloseProc(p) PROVE LiveIsListed'
  BY <1>17 DEF AcloseProc, LiveIsListed, Listed
<1>. QED
  BY <1>1, <1>2, <1>3, <1>4, <1>5, <1>6, <1>7, <1>8, <1>9, <1>10, <1>11, <1>12, <1>13,
     <1>14, <1>15, <1>16, <1>17,
     Steps
  DEF SpawnStep

LEMMA CreatesWatched ==
  ASSUME TypeOK, Watched, UNCHANGED <<child, monitors>>,
         Creates \/ UNCHANGED <<spawn, spawnTasks>>
  PROVE  Watched'
<1>1. \A p \in Procs : spawn'[p] # spawn[p] => spawn'[p] = "created"
  BY DEF Creates
<1>. QED  BY <1>1 DEF Watched

LEMMA WatchedNext ==
  ASSUME TypeOK, Fresh, Watched, [Next]_vars
  PROVE  Watched'
<1>. /\ spawn \in [Procs -> SpawnStates] /\ child \in [Procs -> {"none", "alive", "exiting", "dead"}]
     /\ executors \in Seq(Procs)
  BY DEF TypeOK
<1>. USE DEF poolVars, procVars, jobVars, closeVars, drainVars
<1>1. CASE Aside
  BY <1>1 DEF Aside, Watched
<1>2. ASSUME NEW j \in Jobs, LaunchJob(j) PROVE Watched'
  <2>1. UNCHANGED <<child, executors, monitors, main, closed, toJoin>>
    BY <1>2 DEF LaunchJob, closeVars
  <2>2. Creates \/ UNCHANGED <<spawn, spawnTasks>>
    BY <1>2, LaunchMoves
  <2>. QED  BY <2>1, <2>2, CreatesWatched
<1>3. ASSUME NEW j \in Jobs, ResumeLaunch(j) PROVE Watched'
  BY <1>3 DEF ResumeLaunch, Watched
<1>4. ASSUME NEW p \in Procs, SpawnEnter(p) PROVE Watched'
  BY <1>4 DEF SpawnEnter, Watched
<1>5. ASSUME NEW p \in Procs, SpawnAcquire(p) PROVE Watched'
  BY <1>5 DEF SpawnAcquire, Watched
<1>6. ASSUME NEW p \in Procs, StartOk(p) PROVE Watched'
  BY <1>6 DEF StartOk, Watched
<1>7. ASSUME NEW p \in Procs, StartDies(p) PROVE Watched'
  BY <1>7 DEF StartDies, Watched
<1>8. ASSUME NEW p \in Procs, StartRaises(p) PROVE Watched'
  BY <1>8 DEF StartRaises, Watched
<1>9. ASSUME NEW p \in Procs, InitOk(p) PROVE Watched'
  BY <1>9 DEF InitOk, Watched
<1>10. ASSUME NEW p \in Procs, InitFails(p) PROVE Watched'
  BY <1>10 DEF InitFails, Watched
<1>11. ASSUME NEW p \in Procs, Discard(p) PROVE Watched'
  BY <1>11 DEF Discard, Watched
<1>12. ASSUME NEW p \in Procs, MonitorEnds(p) PROVE Watched'
  BY <1>12 DEF MonitorEnds, Joins, Watched
<1>13. ASSUME NEW p \in Procs, JobEnds(p) PROVE Watched'
  BY <1>13 DEF JobEnds, Watched
<1>14. ASSUME NEW p \in Procs, ChildExits(p) PROVE Watched'
  BY <1>14 DEF ChildExits, Watched, Ended
<1>15. ASSUME NEW p \in Procs, ChildCrashes(p) PROVE Watched'
  BY <1>15 DEF ChildCrashes, Watched, Ended
<1>16. CASE MainTick
  <2>1. UNCHANGED <<child, executors, monitors, main, closed, toJoin>>
    BY <1>16 DEF MainTick
  <2>2. Creates
    BY <1>16, TickMoves
  <2>. QED  BY <2>1, <2>2, CreatesWatched
<1>17. ASSUME NEW p \in Procs, AcloseProc(p) PROVE Watched'
  BY <1>17 DEF AcloseProc, Watched
<1>. QED
  BY <1>1, <1>2, <1>3, <1>4, <1>5, <1>6, <1>7, <1>8, <1>9, <1>10, <1>11, <1>12, <1>13,
     <1>14, <1>15, <1>16, <1>17,
     Steps
  DEF SpawnStep

LEMMA CreatesClosing ==
  ASSUME TypeOK, Closing, UNCHANGED <<child, monitors, main, closed, toJoin>>,
         Creates \/ UNCHANGED <<spawn, spawnTasks>>
  PROVE  Closing'
<1>1. \A p \in Procs : spawn'[p] # spawn[p] => spawn[p] = "unused" /\ spawn'[p] = "created"
  BY DEF Creates
<1>2. \A p \in Procs : (InStart(p)' <=> InStart(p)) /\ (Lives(p)' <=> Lives(p))
  BY <1>1 DEF InStart, Lives
<1>3. (\E p \in Procs : spawn[p] = "raised") => \E p \in Procs : spawn'[p] = "raised"
  BY <1>1
<1>. QED  BY <1>2, <1>3 DEF Closing

LEMMA ClosingNext ==
  ASSUME TypeOK, Fresh, Pending, Starting, Watched, Closing, [Next]_vars
  PROVE  Closing'
<1>. /\ spawn \in [Procs -> SpawnStates] /\ child \in [Procs -> {"none", "alive", "exiting", "dead"}]
     /\ executors \in Seq(Procs)
  BY DEF TypeOK
<1>. closed \in BOOLEAN  BY DEF TypeOK
<1>. USE DEF poolVars, procVars, jobVars, closeVars, drainVars
<1>1. ASSUME NEW j \in Jobs, LaunchJob(j) PROVE Closing'
  <2>1. UNCHANGED <<child, executors, monitors, main, closed, toJoin>>
    BY <1>1 DEF LaunchJob, closeVars
  <2>2. Creates \/ UNCHANGED <<spawn, spawnTasks>>
    BY <1>1, LaunchMoves
  <2>. QED  BY <2>1, <2>2, CreatesClosing
<1>2. ASSUME NEW j \in Jobs, ResumeLaunch(j) PROVE Closing'
  BY <1>2 DEF ResumeLaunch, Closing, InStart, Lives
<1>3. ASSUME NEW n \in Targets, SetTarget(n) PROVE Closing'
  BY <1>3 DEF SetTarget, Closing, InStart, Lives
<1>4. ASSUME NEW p \in Procs, SpawnEnter(p) PROVE Closing'
  BY <1>4 DEF SpawnEnter, Closing, InStart, Lives
<1>5. ASSUME NEW p \in Procs, SpawnAcquire(p) PROVE Closing'
  BY <1>5 DEF SpawnAcquire, Closing, InStart, Lives
<1>6. ASSUME NEW p \in Procs, StartOk(p) PROVE Closing'
  BY <1>6 DEF StartOk, Closing, InStart, Lives
<1>7. ASSUME NEW p \in Procs, StartRaises(p) PROVE Closing'
  BY <1>7 DEF StartRaises, Closing, InStart, Lives
<1>8. ASSUME NEW p \in Procs, InitOk(p) PROVE Closing'
  BY <1>8 DEF InitOk, Closing, InStart, Lives
<1>9. ASSUME NEW p \in Procs, InitFails(p) PROVE Closing'
  BY <1>9 DEF InitFails, Closing, InStart, Lives
<1>10. ASSUME NEW p \in Procs, Discard(p) PROVE Closing'
  BY <1>10 DEF Discard, Closing, InStart, Lives
<1>11. ASSUME NEW p \in Procs, MonitorEnds(p) PROVE Closing'
  BY <1>11 DEF MonitorEnds, Joins, Closing, InStart, Lives
<1>12. ASSUME NEW p \in Procs, JobEnds(p) PROVE Closing'
  BY <1>12 DEF JobEnds, Closing, InStart, Lives
<1>13. ASSUME NEW p \in Procs, ChildExits(p) PROVE Closing'
  BY <1>13 DEF ChildExits, Closing, InStart, Lives, Ended
<1>14. ASSUME NEW p \in Procs, ChildCrashes(p) PROVE Closing'
  BY <1>14 DEF ChildCrashes, Closing, InStart, Lives, Ended
<1>15. CASE MainTick
  <2>1. UNCHANGED <<child, executors, monitors, main, closed, toJoin>>
    BY <1>15 DEF MainTick, poolVars, closeVars
  <2>2. Creates
    BY <1>15, TickMoves
  <2>. QED  BY <2>1, <2>2, CreatesClosing
<1>16. CASE MainCancelled
  BY <1>16 DEF MainCancelled, Closing, InStart, Lives
<1>17. CASE MainGathersSpawns
  <2>1. main' = "joining" /\ toJoin' = spawnTasks /\ main # "loop" /\ UNCHANGED <<closed, spawn>>
    BY <1>17 DEF MainGathersSpawns, poolVars, procVars
  <2>2. \A p \in Procs : InStart(p) => p \in spawnTasks
    BY DEF InStart, Pending
  <2>. QED  BY <2>1, <2>2 DEF Closing, InStart
<1>18. CASE MainGathersMonitors
  <2>1. main = "joining" /\ UNCHANGED <<closed, spawn, child, monitors>>
    BY <1>18 DEF MainGathersMonitors, poolVars, procVars
  <2>2. CASE main' = "closed" /\ \E p \in toJoin : spawn[p] = "raised"
    <3>1. \E p \in Procs : spawn[p] = "raised"  BY <2>2 DEF TypeOK
    <3>. QED  BY <2>1, <2>2, <3>1 DEF Closing
  <2>3. CASE main' = "monitoring" /\ toJoin' = monitors /\ \A p \in toJoin : TaskDone(p)
    <3>1. \A p \in Procs : ~InStart(p)
      BY <2>1, <2>3 DEF Closing, InStart, TaskDone
    <3>2. \A p \in Procs : Lives(p) => p \in monitors
      BY <3>1 DEF Lives, InStart, Starting, Watched
    <3>. QED  BY <2>1, <2>3, <3>1, <3>2 DEF Closing, InStart, Lives
  <2>. QED  BY <1>18, <2>2, <2>3 DEF MainGathersMonitors
<1>19. CASE MainReturns
  BY <1>19 DEF MainReturns, Closing, InStart, Lives
<1>20. ASSUME NEW p \in Procs, AcloseProc(p) PROVE Closing'
  BY <1>20 DEF AcloseProc, Closing, InStart, Lives
<1>21. ASSUME NEW p \in Procs, AcloseProcReturns(p) PROVE Closing'
  BY <1>21 DEF AcloseProcReturns, Closing, InStart, Lives
<1>22. CASE Aclose
  BY <1>22 DEF Aclose, Closing, InStart, Lives
<1>23. CASE Drain
  BY <1>23 DEF Drain, Closing, InStart, Lives
<1>24. CASE DrainResumes
  BY <1>24 DEF DrainResumes, Closing, InStart, Lives
<1>25. CASE UNCHANGED vars
  BY <1>25 DEF vars, Closing, InStart, Lives
<1>26. ASSUME NEW p \in Procs, StartDies(p) PROVE Closing'
  BY <1>26 DEF StartDies, Closing, InStart, Lives
<1>. QED
  BY <1>1, <1>2, <1>3, <1>4, <1>5, <1>6, <1>7, <1>8, <1>9,
     <1>10, <1>11, <1>12, <1>13, <1>14, <1>15, <1>16, <1>17, <1>18,
     <1>19, <1>20, <1>21, <1>22, <1>23, <1>24, <1>25, <1>26
  DEF Next, SpawnStep, MainStep

-------------------------------------------------------------------------------
\* Spawn tasks, jobs and the queue of warmed processes.
LEMMA FreshAgain ==
  ASSUME TypeOK, Fresh, NEW n \in Nat, CreateSpawnTasks(n)
  PROVE  Fresh'
<1>1. MaxProcs \in Nat /\ spawned \in 0 .. MaxProcs /\ spawn \in [Procs -> SpawnStates]
  BY PoolAssumption DEF TypeOK
<1>2. PICK new \in SUBSET {p \in Procs : spawn[p] = "unused"} :
        /\ new = {p \in Procs : p > spawned /\ p <= spawned'}
        /\ spawn' = [p \in Procs |-> IF p \in new THEN "created" ELSE spawn[p]]
  BY <1>1, Created
<1>3. spawned' \in 0 .. MaxProcs /\ spawned' >= spawned
  BY <1>1, Created
<1>4. ASSUME NEW p \in Procs PROVE p > spawned' <=> spawn'[p] = "unused"
  <2>1. p \in Nat  BY <1>1 DEF Procs
  <2>2. spawn'[p] = "unused" <=> p \notin new /\ spawn[p] = "unused"  BY <1>2
  <2>3. p \in new <=> p > spawned /\ p <= spawned'  BY <1>2
  <2>4. spawn[p] = "unused" <=> p > spawned  BY DEF Fresh
  <2>. QED  BY <1>1, <1>3, <2>1, <2>2, <2>3, <2>4
<1>. QED  BY <1>4 DEF Fresh

LEMMA FreshNext ==
  ASSUME TypeOK, Fresh, [Next]_vars
  PROVE  Fresh'
<1>. /\ spawn \in [Procs -> SpawnStates] /\ child \in [Procs -> {"none", "alive", "exiting", "dead"}]
     /\ executors \in Seq(Procs)
  BY DEF TypeOK
<1>. USE DEF poolVars, procVars, jobVars, closeVars, drainVars
<1>1. CASE Aside
  BY <1>1 DEF Aside, Fresh
<1>2. ASSUME NEW j \in Jobs, LaunchJob(j) PROVE Fresh'
  <2>0. spawned \in 0 .. MaxProcs  BY DEF TypeOK
  <2>1. CASE CreateSpawnTasks(1)
    BY <2>0, <2>1, Created, FreshAgain
  <2>2. CASE UNCHANGED <<spawned, spawn>>
    BY <2>2 DEF Fresh
  <2>. QED  BY <1>2, <2>1, <2>2 DEF LaunchJob
<1>3. ASSUME NEW j \in Jobs, ResumeLaunch(j) PROVE Fresh'
  BY <1>3 DEF ResumeLaunch, Fresh
<1>4. ASSUME NEW p \in Procs, SpawnEnter(p) PROVE Fresh'
  BY <1>4 DEF SpawnEnter, Fresh
<1>5. ASSUME NEW p \in Procs, SpawnAcquire(p) PROVE Fresh'
  BY <1>5 DEF SpawnAcquire, Fresh
<1>6. ASSUME NEW p \in Procs, StartOk(p) PROVE Fresh'
  BY <1>6 DEF StartOk, Fresh
<1>7. ASSUME NEW p \in Procs, StartDies(p) PROVE Fresh'
  BY <1>7 DEF StartDies, Fresh
<1>8. ASSUME NEW p \in Procs, StartRaises(p) PROVE Fresh'
  BY <1>8 DEF StartRaises, Fresh
<1>9. ASSUME NEW p \in Procs, InitOk(p) PROVE Fresh'
  BY <1>9 DEF InitOk, Fresh
<1>10. ASSUME NEW p \in Procs, InitFails(p) PROVE Fresh'
  BY <1>10 DEF InitFails, Fresh
<1>11. ASSUME NEW p \in Procs, Discard(p) PROVE Fresh'
  BY <1>11 DEF Discard, Fresh
<1>12. ASSUME NEW p \in Procs, MonitorEnds(p) PROVE Fresh'
  BY <1>12 DEF MonitorEnds, Fresh
<1>13. ASSUME NEW p \in Procs, JobEnds(p) PROVE Fresh'
  BY <1>13 DEF JobEnds, Fresh
<1>14. ASSUME NEW p \in Procs, ChildExits(p) PROVE Fresh'
  BY <1>14 DEF ChildExits, Fresh
<1>15. ASSUME NEW p \in Procs, ChildCrashes(p) PROVE Fresh'
  BY <1>15 DEF ChildCrashes, Fresh
<1>16. CASE MainTick
  <2>1. spawned \in 0 .. MaxProcs /\ CreateSpawnTasks(IdleWanted - IdleComing)
    BY <1>16 DEF TypeOK, MainTick
  <2>2. IdleWanted - IdleComing \in Nat  BY <1>16, TickCreates
  <2>. QED  BY <2>1, <2>2, FreshAgain
<1>17. ASSUME NEW p \in Procs, AcloseProc(p) PROVE Fresh'
  BY <1>17 DEF AcloseProc, Fresh
<1>. QED
  BY <1>1, <1>2, <1>3, <1>4, <1>5, <1>6, <1>7, <1>8, <1>9, <1>10, <1>11, <1>12, <1>13,
     <1>14, <1>15, <1>16, <1>17,
     Steps
  DEF SpawnStep

LEMMA CreatesPending ==
  ASSUME TypeOK, Pending, UNCHANGED waker,
         Creates \/ UNCHANGED <<spawn, spawnTasks>>
  PROVE  Pending'
<1>1. \A p \in Procs : spawn'[p] # spawn[p] => spawn[p] = "unused" /\ p \in spawnTasks'
  BY DEF Creates
<1>2. spawnTasks \subseteq spawnTasks'
  BY DEF Creates
<1>3. \A j \in Jobs : waker[j] \in Procs \cup {0}
  BY DEF TypeOK
<1>4. ASSUME NEW j \in Jobs, waker[j] # 0 PROVE spawn'[waker[j]] = "ready"
  <2>1. spawn[waker[j]] = "ready" /\ waker[j] \in Procs  BY <1>3, <1>4 DEF Pending
  <2>. QED  BY <1>1, <2>1
<1>. QED  BY <1>1, <1>2, <1>4 DEF Pending

LEMMA PendingNext ==
  ASSUME TypeOK, Fresh, Pending, [Next]_vars
  PROVE  Pending'
<1>. /\ spawn \in [Procs -> SpawnStates] /\ child \in [Procs -> {"none", "alive", "exiting", "dead"}]
     /\ executors \in Seq(Procs)
  BY DEF TypeOK
<1>. waker \in [Jobs -> Procs \cup {0}]
  BY DEF TypeOK
<1>. USE DEF poolVars, procVars, jobVars, closeVars, drainVars
<1>1. CASE Aside
  BY <1>1 DEF Aside, Pending
<1>2. ASSUME NEW j \in Jobs, LaunchJob(j) PROVE Pending'
  <2>1. UNCHANGED waker  BY <1>2 DEF LaunchJob
  <2>. QED  BY <1>2, <2>1, LaunchMoves, CreatesPending
<1>3. ASSUME NEW j \in Jobs, ResumeLaunch(j) PROVE Pending'
  <2>1. /\ waker' = [waker EXCEPT ![j] = 0]
        /\ spawnTasks' = spawnTasks \ {waker[j]} /\ spawn' = spawn
    BY <1>3 DEF ResumeLaunch
  <2>2. \A p \in Procs : p = waker[j] => p # 0
    BY PoolAssumption DEF Procs
  <2>. QED  BY <2>1, <2>2 DEF Pending
<1>4. ASSUME NEW p \in Procs, SpawnEnter(p) PROVE Pending'
  BY <1>4 DEF SpawnEnter, Pending
<1>5. ASSUME NEW p \in Procs, SpawnAcquire(p) PROVE Pending'
  BY <1>5 DEF SpawnAcquire, Pending
<1>6. ASSUME NEW p \in Procs, StartOk(p) PROVE Pending'
  BY <1>6 DEF StartOk, Pending
<1>7. ASSUME NEW p \in Procs, StartDies(p) PROVE Pending'
  BY <1>7 DEF StartDies, Pending
<1>8. ASSUME NEW p \in Procs, StartRaises(p) PROVE Pending'
  BY <1>8 DEF StartRaises, Pending
<1>9. ASSUME NEW p \in Procs, InitOk(p) PROVE Pending'
  <2>1. spawn[p] = "initializing" /\ spawn' = [spawn EXCEPT ![p] = "ready"]
    BY <1>9 DEF InitOk
  <2>2. UNCHANGED spawnTasks  BY <1>9 DEF InitOk
  <2>3. \A j \in Jobs : waker'[j] # waker[j] => waker'[j] = p
    BY <1>9 DEF InitOk
  <2>. QED  BY <2>1, <2>2, <2>3 DEF Pending
<1>10. ASSUME NEW p \in Procs, InitFails(p) PROVE Pending'
  BY <1>10 DEF InitFails, Pending
<1>11. ASSUME NEW p \in Procs, Discard(p) PROVE Pending'
  BY <1>11 DEF Discard, TaskDone, Pending, jobVars
<1>12. ASSUME NEW p \in Procs, MonitorEnds(p) PROVE Pending'
  BY <1>12 DEF MonitorEnds, Pending
<1>13. ASSUME NEW p \in Procs, JobEnds(p) PROVE Pending'
  BY <1>13 DEF JobEnds, Pending
<1>14. ASSUME NEW p \in Procs, ChildExits(p) PROVE Pending'
  BY <1>14 DEF ChildExits, Pending
<1>15. ASSUME NEW p \in Procs, ChildCrashes(p) PROVE Pending'
  BY <1>15 DEF ChildCrashes, Pending
<1>16. CASE MainTick
  <2>1. UNCHANGED waker  BY <1>16 DEF MainTick, jobVars
  <2>. QED  BY <1>16, <2>1, TickMoves, CreatesPending
<1>17. ASSUME NEW p \in Procs, AcloseProc(p) PROVE Pending'
  BY <1>17 DEF AcloseProc, Pending
<1>. QED
  BY <1>1, <1>2, <1>3, <1>4, <1>5, <1>6, <1>7, <1>8, <1>9, <1>10, <1>11, <1>12, <1>13,
     <1>14, <1>15, <1>16, <1>17,
     Steps
  DEF SpawnStep

\* What becomes of a job that runs or of one whose process ended does not touch those that wait.
Settled == \A j \in Jobs : job'[j] = job[j] \/ {job[j], job'[j]} \cap {"new", "waiting", "woken"} = {}

LEMMA EndedSettles ==
  ASSUME TypeOK, NEW p \in Procs, NEW how \in {"finished", "failed"}, Ended(p, how)
  PROVE  Settled /\ job' \in [Jobs -> JobStates]
BY DEF Ended, Settled, JobStates, TypeOK

LEMMA SettledQueued ==
  ASSUME TypeOK, Queued, Settled, UNCHANGED getters
  PROVE  Queued'
<1>1. \A i \in 1 .. Len(getters) : getters[i] \in Jobs
  BY DEF TypeOK
<1>. QED  BY <1>1 DEF Queued, Settled

LEMMA JoinsQueue ==
  ASSUME TypeOK, Queued, NEW j \in Jobs, job[j] # "waiting",
         getters' = Append(getters, j), job' = [job EXCEPT ![j] = "waiting"]
  PROVE  Queued'
<1>. getters \in Seq(Jobs) /\ job \in [Jobs -> JobStates]
  BY DEF TypeOK
<1>1. /\ Len(getters') = Len(getters) + 1 /\ Len(getters) \in Nat
      /\ \A i \in 1 .. Len(getters) : getters'[i] = getters[i] /\ getters[i] \in Jobs
      /\ getters'[Len(getters) + 1] = j
  OBVIOUS
<1>2. \A i \in 1 .. Len(getters) : getters[i] # j
  BY DEF Queued
<1>3. \A i \in 1 .. Len(getters') : i \in 1 .. Len(getters) \/ i = Len(getters) + 1
  BY <1>1
<1>4. \A i \in 1 .. Len(getters') : job'[getters'[i]] = "waiting"
  BY <1>1, <1>2, <1>3 DEF Queued
<1>5. \A i, k \in 1 .. Len(getters') : getters'[i] = getters'[k] => i = k
  BY <1>1, <1>2, <1>3 DEF Queued
<1>. QED  BY <1>4, <1>5 DEF Queued

LEMMA AssignedQueued ==
  ASSUME TypeOK, Queued, NEW j \in Jobs, job[j] # "waiting", NEW p, Assign(j, p),
         UNCHANGED getters
  PROVE  Queued'
<1>. getters \in Seq(Jobs) /\ job \in [Jobs -> JobStates]
  BY DEF TypeOK
<1>1. \A k \in Jobs : k # j => job'[k] = job[k]
  BY DEF Assign
<1>2. \A i \in 1 .. Len(getters) : getters[i] \in Jobs /\ getters[i] # j
  BY DEF Queued
<1>. QED  BY <1>1, <1>2 DEF Queued

LEMMA QueuedNext ==
  ASSUME TypeOK, Fresh, Queued, [Next]_vars
  PROVE  Queued'
<1>. /\ job \in [Jobs -> JobStates] /\ getters \in Seq(Jobs) /\ warm \in Seq(Procs)
     /\ runningJob \in [Procs -> Jobs \cup {NoJob}] /\ NoJob \notin Jobs
  BY PoolAssumption DEF TypeOK
<1>1. CASE Steady
  BY <1>1 DEF Steady, Queued, jobVars
<1>2. ASSUME NEW j \in Jobs, LaunchJob(j) PROVE Queued'
  <2>1. job[j] # "waiting"  BY <1>2 DEF LaunchJob
  <2>2. CASE warm # <<>>
    <3>1. Assign(j, Head(warm)) /\ UNCHANGED getters  BY <1>2, <2>2 DEF LaunchJob
    <3>. QED  BY <2>1, <3>1, AssignedQueued
  <2>3. CASE warm = <<>>
    <3>1. getters' = Append(getters, j) /\ job' = [job EXCEPT ![j] = "waiting"]
      BY <1>2, <2>3 DEF LaunchJob
    <3>. QED  BY <2>1, <3>1, JoinsQueue
  <2>. QED  BY <2>2, <2>3
<1>3. ASSUME NEW j \in Jobs, ResumeLaunch(j) PROVE Queued'
  <2>1. job[j] # "waiting"  BY <1>3 DEF ResumeLaunch
  <2>2. CASE warm # <<>>
    <3>1. Assign(j, Head(warm)) /\ UNCHANGED getters  BY <1>3, <2>2 DEF ResumeLaunch
    <3>. QED  BY <2>1, <3>1, AssignedQueued
  <2>3. CASE warm = <<>>
    <3>1. getters' = Append(getters, j) /\ job' = [job EXCEPT ![j] = "waiting"]
      BY <1>3, <2>3 DEF ResumeLaunch
    <3>. QED  BY <2>1, <3>1, JoinsQueue
  <2>. QED  BY <2>2, <2>3
<1>4. ASSUME NEW p \in Procs, InitOk(p) PROVE Queued'
  <2>1. CASE getters = <<>>
    BY <1>4, <2>1 DEF InitOk, Queued
  <2>2. CASE getters # <<>>
    <3>1. getters' = Tail(getters) /\ job' = [job EXCEPT ![Head(getters)] = "woken"]
      BY <1>4, <2>2 DEF InitOk
    <3>2. /\ Head(getters) = getters[1] /\ Len(getters') = Len(getters) - 1 /\ Len(getters) \in Nat
          /\ \A i \in 1 .. Len(getters') : getters'[i] = getters[i + 1]
      BY <2>2, <3>1
    <3>3. \A i \in 1 .. Len(getters') : i + 1 \in 1 .. Len(getters) /\ i + 1 # 1
      BY <3>2
    <3>4. 1 \in 1 .. Len(getters)  BY <2>2, <3>2
    <3>5. \A i \in 1 .. Len(getters') : getters'[i] # Head(getters) /\ getters'[i] \in Jobs
      BY <3>2, <3>3, <3>4 DEF Queued
    <3>6. \A i \in 1 .. Len(getters') : job'[getters'[i]] = "waiting"
      BY <3>1, <3>2, <3>3, <3>5 DEF Queued
    <3>7. \A i, k \in 1 .. Len(getters') : getters'[i] = getters'[k] => i = k
      BY <3>2, <3>3 DEF Queued
    <3>. QED  BY <3>6, <3>7 DEF Queued
  <2>. QED  BY <2>1, <2>2
<1>5. ASSUME NEW p \in Procs, ChildExits(p) PROVE Queued'
  <2>1. Settled  BY <1>5, EndedSettles DEF ChildExits
  <2>. QED  BY <1>5, <2>1, SettledQueued DEF ChildExits, poolVars
<1>6. ASSUME NEW p \in Procs, ChildCrashes(p) PROVE Queued'
  <2>1. Settled  BY <1>6, EndedSettles DEF ChildCrashes
  <2>. QED  BY <1>6, <2>1, SettledQueued DEF ChildCrashes, poolVars
<1>. QED  BY <1>1, <1>2, <1>3, <1>4, <1>5, <1>6, SteadySteps

LEMMA SameWarmed ==
  ASSUME TypeOK, Warmed, StaysReady, UNCHANGED <<warm, runningJob>>
  PROVE  Warmed'
<1>1. \A i \in 1 .. Len(warm) : warm[i] \in Procs
  BY DEF TypeOK
<1>. QED  BY <1>1 DEF Warmed, StaysReady

\* The head of the queue is handed out.
LEMMA HeadAssigned ==
  ASSUME TypeOK, Warmed, Taken, StaysReady, warm # <<>>, NEW j \in Jobs,
         job[j] \in {"new", "waiting", "woken"}, Assign(j, Head(warm)), warm' = Tail(warm)
  PROVE  Warmed' /\ Taken'
<1>. /\ job \in [Jobs -> JobStates] /\ warm \in Seq(Procs) /\ spawn \in [Procs -> SpawnStates]
     /\ runningJob \in [Procs -> Jobs \cup {NoJob}] /\ NoJob \notin Jobs
  BY PoolAssumption DEF TypeOK
<1>1. /\ Head(warm) = warm[1] /\ Head(warm) \in Procs
      /\ Len(warm') = Len(warm) - 1 /\ Len(warm) \in Nat /\ 1 \in 1 .. Len(warm)
      /\ \A i \in 1 .. Len(warm') : warm'[i] = warm[i + 1]
  OBVIOUS
<1>2. \A i \in 1 .. Len(warm') : i + 1 \in 1 .. Len(warm) /\ i + 1 # 1
  BY <1>1
<1>3. spawn[Head(warm)] = "ready" /\ runningJob[Head(warm)] = NoJob
  BY <1>1 DEF Warmed
<1>4. \A i \in 1 .. Len(warm') : warm'[i] # Head(warm) /\ warm'[i] \in Procs
  BY <1>1, <1>2 DEF Warmed
<1>5. runningJob' = [runningJob EXCEPT ![Head(warm)] = j]
  BY DEF Assign
<1>6. job'[j] \in {"running", "lost"} /\ \A k \in Jobs : k # j => job'[k] = job[k]
  BY DEF Assign
<1>7. Warmed'
  <2>1. \A i \in 1 .. Len(warm') : spawn'[warm'[i]] = "ready" /\ runningJob'[warm'[i]] = NoJob
    BY <1>1, <1>2, <1>4, <1>5 DEF Warmed, StaysReady
  <2>2. \A i, k \in 1 .. Len(warm') : warm'[i] = warm'[k] => i = k
    BY <1>1, <1>2 DEF Warmed
  <2>. QED  BY <2>1, <2>2 DEF Warmed
<1>8. Taken'
  <2>1. runningJob'[Head(warm)] = j /\ spawn'[Head(warm)] = "ready"
    BY <1>1, <1>3, <1>5 DEF StaysReady
  <2>2. \A p \in Procs : p # Head(warm) => runningJob'[p] = runningJob[p]
    BY <1>5
  <2>3. \A p \in Procs : runningJob[p] # j
    BY DEF Taken
  <2>. QED  BY <1>6, <2>1, <2>2, <2>3 DEF Taken, StaysReady
<1>. QED  BY <1>7, <1>8

LEMMA WarmedNext ==
  ASSUME TypeOK, Fresh, Warmed, Taken, [Next]_vars
  PROVE  Warmed'
<1>. /\ warm \in Seq(Procs) /\ spawn \in [Procs -> SpawnStates]
     /\ runningJob \in [Procs -> Jobs \cup {NoJob}]
  BY DEF TypeOK
<1>1. CASE Steady
  BY <1>1, SameWarmed DEF Steady, jobVars
<1>2. ASSUME NEW j \in Jobs, LaunchJob(j) PROVE Warmed'
  <2>1. StaysReady  BY <1>2, LaunchMoves, CreatesReady
  <2>2. CASE warm # <<>>
    BY <1>2, <2>1, <2>2, HeadAssigned DEF LaunchJob
  <2>3. CASE warm = <<>>
    BY <1>2, <2>1, <2>3, SameWarmed DEF LaunchJob
  <2>. QED  BY <2>2, <2>3
<1>3. ASSUME NEW j \in Jobs, ResumeLaunch(j) PROVE Warmed'
  <2>1. StaysReady  BY <1>3 DEF ResumeLaunch, StaysReady
  <2>2. CASE warm # <<>>
    BY <1>3, <2>1, <2>2, HeadAssigned DEF ResumeLaunch
  <2>3. CASE warm = <<>>
    BY <1>3, <2>1, <2>3, SameWarmed DEF ResumeLaunch
  <2>. QED  BY <2>2, <2>3
<1>4. ASSUME NEW p \in Procs, InitOk(p) PROVE Warmed'
  <2>1. /\ spawn[p] = "initializing" /\ spawn' = [spawn EXCEPT ![p] = "ready"]
        /\ warm' = Append(warm, p) /\ runningJob' = runningJob
    BY <1>4 DEF InitOk
  <2>2. runningJob[p] = NoJob  BY <2>1 DEF Taken
  <2>3. /\ Len(warm') = Len(warm) + 1 /\ Len(warm) \in Nat
        /\ \A i \in 1 .. Len(warm) : warm'[i] = warm[i] /\ warm[i] \in Procs
        /\ warm'[Len(warm) + 1] = p
    BY <2>1
  <2>4. \A i \in 1 .. Len(warm) : warm[i] # p
    BY <2>1 DEF Warmed
  <2>5. \A i \in 1 .. Len(warm') : i \in 1 .. Len(warm) \/ i = Len(warm) + 1
    BY <2>3
  <2>6. \A i \in 1 .. Len(warm') : spawn'[warm'[i]] = "ready" /\ runningJob'[warm'[i]] = NoJob
    BY <2>1, <2>2, <2>3, <2>5 DEF Warmed
  <2>7. \A i, k \in 1 .. Len(warm') : warm'[i] = warm'[k] => i = k
    BY <2>3, <2>4, <2>5 DEF Warmed
  <2>. QED  BY <2>6, <2>7 DEF Warmed
<1>5. ASSUME NEW p \in Procs, ChildExits(p) PROVE Warmed'
  <2>1. StaysReady  BY <1>5 DEF ChildExits, StaysReady
  <2>2. UNCHANGED <<warm, runningJob>>  BY <1>5 DEF ChildExits, poolVars
  <2>. QED  BY <2>1, <2>2, SameWarmed
<1>6. ASSUME NEW p \in Procs, ChildCrashes(p) PROVE Warmed'
  <2>1. StaysReady  BY <1>6 DEF ChildCrashes, StaysReady
  <2>2. UNCHANGED <<warm, runningJob>>  BY <1>6 DEF ChildCrashes, poolVars
  <2>. QED  BY <2>1, <2>2, SameWarmed
<1>. QED  BY <1>1, <1>2, <1>3, <1>4, <1>5, <1>6, SteadySteps

\* A job that waits for a process may be woken, and one that is over may be over.
LEMMA SameTaken ==
  ASSUME TypeOK, Taken, StaysReady, UNCHANGED runningJob,
         \A j \in Jobs : \/ job'[j] = job[j]
                         \/ job[j] \in {"new", "waiting", "woken"}
                         \/ job'[j] \notin {"new", "waiting", "woken"}
  PROVE  Taken'
<1>1. \A p \in Procs : runningJob[p] # NoJob => runningJob[p] \in Jobs
  BY DEF TypeOK
<1>. QED  BY <1>1 DEF Taken, StaysReady

LEMMA TakenNext ==
  ASSUME TypeOK, Fresh, Queued, Warmed, Taken, [Next]_vars
  PROVE  Taken'
<1>. /\ warm \in Seq(Procs) /\ spawn \in [Procs -> SpawnStates]
     /\ runningJob \in [Procs -> Jobs \cup {NoJob}]
  BY DEF TypeOK
<1>. /\ job \in [Jobs -> JobStates] /\ getters \in Seq(Jobs) /\ warm \in Seq(Procs)
     /\ runningJob \in [Procs -> Jobs \cup {NoJob}] /\ NoJob \notin Jobs
  BY PoolAssumption DEF TypeOK
<1>1. CASE Steady
  BY <1>1, SameTaken DEF Steady, jobVars
<1>2. ASSUME NEW j \in Jobs, LaunchJob(j) PROVE Taken'
  <2>1. StaysReady  BY <1>2, LaunchMoves, CreatesReady
  <2>2. CASE warm # <<>>
    BY <1>2, <2>1, <2>2, HeadAssigned DEF LaunchJob
  <2>3. CASE warm = <<>>
    <3>1. job[j] \in {"new", "waiting", "woken"} /\ job' = [job EXCEPT ![j] = "waiting"]
          /\ runningJob' = runningJob
      BY <1>2, <2>3 DEF LaunchJob
    <3>2. \A k \in Jobs : job'[k] = job[k] \/ job[k] \in {"new", "waiting", "woken"}  BY <3>1
    <3>. QED  BY <2>1, <3>1, <3>2, SameTaken
  <2>. QED  BY <2>2, <2>3
<1>3. ASSUME NEW j \in Jobs, ResumeLaunch(j) PROVE Taken'
  <2>1. StaysReady  BY <1>3 DEF ResumeLaunch, StaysReady
  <2>2. CASE warm # <<>>
    BY <1>3, <2>1, <2>2, HeadAssigned DEF ResumeLaunch
  <2>3. CASE warm = <<>>
    <3>1. job[j] \in {"new", "waiting", "woken"} /\ job' = [job EXCEPT ![j] = "waiting"]
          /\ runningJob' = runningJob
      BY <1>3, <2>3 DEF ResumeLaunch
    <3>2. \A k \in Jobs : job'[k] = job[k] \/ job[k] \in {"new", "waiting", "woken"}  BY <3>1
    <3>. QED  BY <2>1, <3>1, <3>2, SameTaken
  <2>. QED  BY <2>2, <2>3
<1>4. ASSUME NEW p \in Procs, InitOk(p) PROVE Taken'
  <2>1. StaysReady /\ runningJob' = runningJob  BY <1>4 DEF InitOk, StaysReady
  <2>2. CASE getters = <<>>
    BY <1>4, <2>1, <2>2, SameTaken DEF InitOk
  <2>3. CASE getters # <<>>
    <3>1. job' = [job EXCEPT ![Head(getters)] = "woken"]  BY <1>4, <2>3 DEF InitOk
    <3>2. Head(getters) = getters[1] /\ 1 \in 1 .. Len(getters)  BY <2>3
    <3>3. job[Head(getters)] = "waiting"  BY <3>2 DEF Queued
    <3>4. \A k \in Jobs : job'[k] = job[k] \/ job[k] = "waiting"  BY <3>1, <3>3
    <3>. QED  BY <2>1, <3>4, SameTaken
  <2>. QED  BY <2>2, <2>3
<1>5. ASSUME NEW p \in Procs, ChildExits(p) PROVE Taken'
  <2>1. Settled  BY <1>5, EndedSettles DEF ChildExits
  <2>2. \A j \in Jobs : job'[j] = job[j] \/ job'[j] \notin {"new", "waiting", "woken"}
    BY <2>1 DEF Settled
  <2>3. UNCHANGED <<runningJob, spawn>>  BY <1>5 DEF ChildExits
  <2>4. StaysReady  BY <2>3 DEF StaysReady
  <2>. QED  BY <2>2, <2>3, <2>4, SameTaken
<1>6. ASSUME NEW p \in Procs, ChildCrashes(p) PROVE Taken'
  <2>1. Settled  BY <1>6, EndedSettles DEF ChildCrashes
  <2>2. \A j \in Jobs : job'[j] = job[j] \/ job'[j] \notin {"new", "waiting", "woken"}
    BY <2>1 DEF Settled
  <2>3. UNCHANGED <<runningJob, spawn>>  BY <1>6 DEF ChildCrashes
  <2>4. StaysReady  BY <2>3 DEF StaysReady
  <2>. QED  BY <2>2, <2>3, <2>4, SameTaken
<1>. QED  BY <1>1, <1>2, <1>3, <1>4, <1>5, <1>6, SteadySteps

LEMMA AskingFinite == IsFiniteSet(Asking) /\ Cardinality(Asking) \in Nat
<1>1. IsFiniteSet(Jobs) /\ Asking \in SUBSET Jobs
  BY PoolAssumption DEF Asking
<1>. QED  BY <1>1, FS_Subset, FS_CardinalityType

\* A job that begins to wait, and one that ends it.
LEMMA OneMore ==
  ASSUME TypeOK, Counted, NEW j \in Jobs, job[j] = "new", job' = [job EXCEPT ![j] = "waiting"],
         jobsWaiting' = jobsWaiting + 1
  PROVE  Counted' /\ jobsWaiting' \in Nat
<1>1. Asking' = Asking \cup {j} /\ j \notin Asking
  BY DEF Asking, TypeOK
<1>2. Cardinality(Asking \cup {j}) = Cardinality(Asking) + 1
  BY <1>1, AskingFinite, FS_AddElement
<1>. QED  BY <1>1, <1>2, AskingFinite DEF Counted

LEMMA OneLess ==
  ASSUME TypeOK, Counted, NEW j \in Jobs, job[j] = "woken", NEW p, Assign(j, p),
         jobsWaiting' = jobsWaiting - 1
  PROVE  Counted' /\ jobsWaiting' \in Nat
<1>1. job'[j] \in {"running", "lost"} /\ \A k \in Jobs : k # j => job'[k] = job[k]
  BY DEF TypeOK, Assign
<1>2. Asking' = Asking \ {j} /\ j \in Asking
  BY <1>1 DEF Asking
<1>3. Cardinality(Asking \ {j}) = Cardinality(Asking) - 1 /\ Cardinality(Asking \ {j}) \in Nat
  BY <1>2, AskingFinite, FS_RemoveElement, FS_CardinalityType
<1>. QED  BY <1>2, <1>3, AskingFinite DEF Counted

LEMMA SameCount ==
  ASSUME Counted, jobsWaiting' = jobsWaiting,
         \A j \in Jobs : job[j] \in {"waiting", "woken"} <=> job'[j] \in {"waiting", "woken"}
  PROVE  Counted'
<1>1. Asking' = Asking
  BY DEF Asking
<1>. QED  BY <1>1 DEF Counted

LEMMA CountedNext ==
  ASSUME TypeOK, Fresh, Queued, Counted, [Next]_vars
  PROVE  Counted'
<1>. /\ job \in [Jobs -> JobStates] /\ getters \in Seq(Jobs) /\ warm \in Seq(Procs)
     /\ runningJob \in [Procs -> Jobs \cup {NoJob}] /\ NoJob \notin Jobs
  BY PoolAssumption DEF TypeOK
<1>1. CASE Steady
  BY <1>1, SameCount DEF Steady, jobVars
<1>2. ASSUME NEW j \in Jobs, LaunchJob(j) PROVE Counted'
  <2>1. CASE warm # <<>>
    <3>1. UNCHANGED jobsWaiting /\ job[j] = "new" /\ Assign(j, Head(warm))  BY <1>2, <2>1 DEF LaunchJob
    <3>2. job'[j] \in {"running", "lost"} /\ \A k \in Jobs : k # j => job'[k] = job[k]
      BY <3>1 DEF Assign
    <3>. QED  BY <3>1, <3>2, SameCount
  <2>2. CASE warm = <<>>
    BY <1>2, <2>2, OneMore DEF LaunchJob
  <2>. QED  BY <2>1, <2>2
<1>3. ASSUME NEW j \in Jobs, ResumeLaunch(j) PROVE Counted'
  <2>1. CASE warm # <<>>
    BY <1>3, <2>1, OneLess DEF ResumeLaunch
  <2>2. CASE warm = <<>>
    <3>1. /\ UNCHANGED jobsWaiting /\ job[j] = "woken"
          /\ job' = [job EXCEPT ![j] = "waiting"]
      BY <1>3, <2>2 DEF ResumeLaunch
    <3>. QED  BY <3>1, SameCount
  <2>. QED  BY <2>1, <2>2
<1>4. ASSUME NEW p \in Procs, InitOk(p) PROVE Counted'
  <2>1. UNCHANGED jobsWaiting  BY <1>4 DEF InitOk
  <2>2. CASE getters = <<>>
    BY <1>4, <2>1, <2>2, SameCount DEF InitOk
  <2>3. CASE getters # <<>>
    <3>1. job' = [job EXCEPT ![Head(getters)] = "woken"]  BY <1>4, <2>3 DEF InitOk
    <3>2. Head(getters) = getters[1] /\ 1 \in 1 .. Len(getters)  BY <2>3
    <3>3. job[Head(getters)] = "waiting"  BY <3>2 DEF Queued
    <3>4. \A k \in Jobs : job[k] \in {"waiting", "woken"} <=> job'[k] \in {"waiting", "woken"}
      BY <3>1, <3>3
    <3>. QED  BY <2>1, <3>4, SameCount
  <2>. QED  BY <2>2, <2>3
<1>5. ASSUME NEW p \in Procs, ChildExits(p) PROVE Counted'
  <2>1. Settled /\ UNCHANGED jobsWaiting  BY <1>5, EndedSettles DEF ChildExits, poolVars
  <2>2. \A j \in Jobs : job[j] \in {"waiting", "woken"} <=> job'[j] \in {"waiting", "woken"}
    BY <2>1 DEF Settled
  <2>. QED  BY <2>1, <2>2, SameCount
<1>6. ASSUME NEW p \in Procs, ChildCrashes(p) PROVE Counted'
  <2>1. Settled /\ UNCHANGED jobsWaiting  BY <1>6, EndedSettles DEF ChildCrashes, poolVars
  <2>2. \A j \in Jobs : job[j] \in {"waiting", "woken"} <=> job'[j] \in {"waiting", "woken"}
    BY <2>1 DEF Settled
  <2>. QED  BY <2>1, <2>2, SameCount
<1>. QED  BY <1>1, <1>2, <1>3, <1>4, <1>5, <1>6, SteadySteps

-------------------------------------------------------------------------------
LEMMA AssignType ==
  ASSUME TypeOK, NEW j \in Jobs, NEW p \in Procs, Assign(j, p)
  PROVE  /\ runningJob' \in [Procs -> Jobs \cup {NoJob}] /\ job' \in [Jobs -> JobStates]
BY DEF TypeOK, Assign, JobStates

LEMMA CreateType ==
  ASSUME TypeOK, Fresh, NEW n \in Nat, CreateSpawnTasks(n)
  PROVE  /\ spawned' \in 0 .. MaxProcs /\ spawn' \in [Procs -> SpawnStates]
         /\ spawnTasks' \subseteq Procs
<1>1. spawned \in 0 .. MaxProcs  BY DEF TypeOK
<1>2. spawned' \in 0 .. MaxProcs  BY <1>1, Created
<1>3. PICK new \in SUBSET {p \in Procs : spawn[p] = "unused"} :
        /\ spawn' = [p \in Procs |-> IF p \in new THEN "created" ELSE spawn[p]]
        /\ spawnTasks' = spawnTasks \cup new
  BY <1>1, Created
<1>. QED  BY <1>2, <1>3 DEF TypeOK, SpawnStates

LEMMA DrainType ==
  ASSUME TypeOK, NEW i \in Nat, DrainFrom(i)
  PROVE  drain' \in [at : {"idle", "joining", "returned"}, index : Nat, proc : Procs \cup {0}]
<1>. executors \in Seq(Procs)
  BY DEF TypeOK
<1>1. CASE drain' = [at |-> "returned", index |-> 0, proc |-> 0]
  BY <1>1
<1>2. ASSUME NEW k \in i + 1 .. Len(executors),
             drain' = [at |-> "joining", index |-> k, proc |-> executors[k]]
      PROVE  drain' \in [at : {"idle", "joining", "returned"}, index : Nat, proc : Procs \cup {0}]
  <2>1. Len(executors) \in Nat  OBVIOUS
  <2>2. k \in 1 .. Len(executors) /\ k \in Nat  BY <2>1
  <2>3. executors[k] \in Procs  BY <2>2
  <2>. QED  BY <1>2, <2>2, <2>3
<1>. QED  BY <1>1, <1>2 DEF DrainFrom

LEMMA TypeNext ==
  ASSUME TypeOK, Fresh, Counted, [Next]_vars
  PROVE  TypeOK'
<1>. USE DEF poolVars, procVars, jobVars, closeVars, drainVars
<1>1. ASSUME NEW j \in Jobs, LaunchJob(j) PROVE TypeOK'
  <2>1. UNCHANGED <<target, closed, idleReady, executors, monitors, child, main, toClose, closing,
                    toJoin, failures, drain, drainJobs>>
    BY <1>1 DEF LaunchJob
  <2>2. /\ jobsWaiting' \in Nat /\ warm' \in Seq(Procs) /\ getters' \in Seq(Jobs)
        /\ runningJob' \in [Procs -> Jobs \cup {NoJob}] /\ job' \in [Jobs -> JobStates]
    <3>. warm \in Seq(Procs) /\ getters \in Seq(Jobs) /\ jobsWaiting \in Nat /\ job \in [Jobs -> JobStates]
         /\ runningJob \in [Procs -> Jobs \cup {NoJob}]
      BY DEF TypeOK
    <3>1. CASE warm # <<>>
      <4>1. Head(warm) \in Procs /\ Tail(warm) \in Seq(Procs)  BY <3>1
      <4>2. Assign(j, Head(warm)) /\ warm' = Tail(warm) /\ getters' = getters  BY <1>1, <3>1 DEF LaunchJob
      <4>3. jobsWaiting' \in Nat  BY <1>1, <3>1, <4>2 DEF LaunchJob
      <4>. QED  BY <4>1, <4>2, <4>3, AssignType
    <3>2. CASE warm = <<>>
      <4>1. /\ getters' = Append(getters, j) /\ job' = [job EXCEPT ![j] = "waiting"]
            /\ UNCHANGED <<warm, runningJob>> /\ jobsWaiting' \in {jobsWaiting, jobsWaiting + 1}
        BY <1>1, <3>2 DEF LaunchJob
      <4>2. job' \in [Jobs -> JobStates]  BY <4>1 DEF JobStates
      <4>3. getters' \in Seq(Jobs)  BY <4>1
      <4>. QED  BY <4>1, <4>2, <4>3
    <3>. QED  BY <3>1, <3>2
  <2>3. /\ spawned' \in 0 .. MaxProcs /\ spawn' \in [Procs -> SpawnStates]
        /\ spawnTasks' \subseteq Procs
    BY <1>1, CreateType DEF LaunchJob, TypeOK
  <2>4. waker' \in [Jobs -> Procs \cup {0}]  BY <1>1 DEF LaunchJob, TypeOK
  <2>. QED  BY <2>1, <2>2, <2>3, <2>4 DEF TypeOK
<1>2. ASSUME NEW j \in Jobs, ResumeLaunch(j) PROVE TypeOK'
  <2>1. UNCHANGED <<target, closed, idleReady, executors, monitors, child, main, toClose, closing,
                    toJoin, failures, drain, drainJobs>>
    BY <1>2 DEF ResumeLaunch
  <2>2. /\ jobsWaiting' \in Nat /\ warm' \in Seq(Procs) /\ getters' \in Seq(Jobs)
        /\ runningJob' \in [Procs -> Jobs \cup {NoJob}] /\ job' \in [Jobs -> JobStates]
    <3>. warm \in Seq(Procs) /\ getters \in Seq(Jobs) /\ jobsWaiting \in Nat /\ job \in [Jobs -> JobStates]
         /\ runningJob \in [Procs -> Jobs \cup {NoJob}]
      BY DEF TypeOK
    <3>1. CASE warm # <<>>
      <4>1. Head(warm) \in Procs /\ Tail(warm) \in Seq(Procs)  BY <3>1
      <4>2. Assign(j, Head(warm)) /\ warm' = Tail(warm) /\ getters' = getters  BY <1>2, <3>1 DEF ResumeLaunch
      <4>3. jobsWaiting' \in Nat  BY <1>2, <3>1, <4>2, OneLess DEF ResumeLaunch
      <4>. QED  BY <4>1, <4>2, <4>3, AssignType
    <3>2. CASE warm = <<>>
      <4>1. /\ getters' = Append(getters, j) /\ job' = [job EXCEPT ![j] = "waiting"]
            /\ UNCHANGED <<warm, runningJob>> /\ jobsWaiting' \in {jobsWaiting, jobsWaiting + 1}
        BY <1>2, <3>2 DEF ResumeLaunch
      <4>2. job' \in [Jobs -> JobStates]  BY <4>1 DEF JobStates
      <4>3. getters' \in Seq(Jobs)  BY <4>1
      <4>. QED  BY <4>1, <4>2, <4>3
    <3>. QED  BY <3>1, <3>2
  <2>3. /\ spawned' \in 0 .. MaxProcs /\ spawn' \in [Procs -> SpawnStates]
        /\ spawnTasks' \subseteq Procs
    BY <1>2 DEF ResumeLaunch, TypeOK
  <2>4. waker' \in [Jobs -> Procs \cup {0}]  BY <1>2 DEF ResumeLaunch, TypeOK
  <2>. QED  BY <2>1, <2>2, <2>3, <2>4 DEF TypeOK
<1>3. ASSUME NEW n \in Targets, SetTarget(n) PROVE TypeOK'
  BY <1>3, PoolAssumption DEF SetTarget, TypeOK, procVars, jobVars, closeVars, drainVars
<1>4. ASSUME NEW p \in Procs, SpawnEnter(p) PROVE TypeOK'
  <2>1. executors' \in Seq(Procs)  BY <1>4, Entered DEF SpawnEnter, TypeOK
  <2>2. UNCHANGED <<poolVars, spawnTasks, spawned, child, jobVars, closeVars, failures, drainVars>>
    BY <1>4 DEF SpawnEnter
  <2>3. spawn' \in [Procs -> SpawnStates] /\ monitors' \subseteq Procs
    BY <1>4 DEF SpawnEnter, TypeOK, SpawnStates
  <2>. QED  BY <2>1, <2>2, <2>3 DEF TypeOK, poolVars, jobVars, closeVars, drainVars
<1>5. ASSUME NEW p \in Procs, SpawnAcquire(p) PROVE TypeOK'
  <2>1. executors' \in Seq(Procs)  BY <1>5, Unlisted DEF SpawnAcquire, TypeOK
  <2>2. UNCHANGED <<poolVars, spawnTasks, spawned, child, jobVars, closeVars, failures, drainVars>>
    BY <1>5 DEF SpawnAcquire
  <2>3. spawn' \in [Procs -> SpawnStates] /\ monitors' \subseteq Procs
    BY <1>5 DEF SpawnAcquire, TypeOK, SpawnStates
  <2>. QED  BY <2>1, <2>2, <2>3 DEF TypeOK, poolVars, jobVars, closeVars, drainVars
<1>6. ASSUME NEW p \in Procs, StartOk(p) PROVE TypeOK'
  BY <1>6 DEF StartOk, TypeOK, SpawnStates
<1>7. ASSUME NEW p \in Procs, StartRaises(p) PROVE TypeOK'
  BY <1>7 DEF StartRaises, TypeOK, SpawnStates
<1>8. ASSUME NEW p \in Procs, InitOk(p) PROVE TypeOK'
  <2>1. UNCHANGED <<target, closed, jobsWaiting, executors, spawnTasks, spawned, child,
                    runningJob, closeVars, failures, drainVars>>
    BY <1>8 DEF InitOk
  <2>2. /\ spawn' \in [Procs -> SpawnStates] /\ warm' \in Seq(Procs) /\ idleReady' \in BOOLEAN
        /\ monitors' \subseteq Procs
    BY <1>8 DEF InitOk, TypeOK, SpawnStates
  <2>3. /\ getters' \in Seq(Jobs) /\ job' \in [Jobs -> JobStates]
        /\ waker' \in [Jobs -> Procs \cup {0}]
    <3>. getters \in Seq(Jobs) /\ job \in [Jobs -> JobStates] /\ waker \in [Jobs -> Procs \cup {0}]
      BY DEF TypeOK
    <3>1. CASE getters = <<>>
      BY <1>8, <3>1 DEF InitOk
    <3>2. CASE getters # <<>>
      <4>1. Head(getters) \in Jobs /\ Tail(getters) \in Seq(Jobs)  BY <3>2
      <4>2. /\ getters' = Tail(getters) /\ job' = [job EXCEPT ![Head(getters)] = "woken"]
            /\ waker' = [waker EXCEPT ![Head(getters)] = p]
        BY <1>8, <3>2 DEF InitOk
      <4>. QED  BY <4>1, <4>2 DEF JobStates
    <3>. QED  BY <3>1, <3>2
  <2>. QED  BY <2>1, <2>2, <2>3 DEF TypeOK, closeVars, drainVars
<1>9. ASSUME NEW p \in Procs, InitFails(p) PROVE TypeOK'
  BY <1>9 DEF InitFails, TypeOK, SpawnStates
<1>10. ASSUME NEW p \in Procs, Discard(p) PROVE TypeOK'
  BY <1>10 DEF Discard, TypeOK, SpawnStates
<1>11. ASSUME NEW p \in Procs, MonitorEnds(p) PROVE TypeOK'
  <2>1. executors' \in Seq(Procs)  BY <1>11, Unlisted DEF MonitorEnds, TypeOK
  <2>2. UNCHANGED <<poolVars, spawnTasks, spawned, child, jobVars, closeVars, failures, drainVars>>
    BY <1>11 DEF MonitorEnds
  <2>3. spawn' \in [Procs -> SpawnStates] /\ monitors' \subseteq Procs
    BY <1>11 DEF MonitorEnds, TypeOK, SpawnStates
  <2>. QED  BY <2>1, <2>2, <2>3 DEF TypeOK, poolVars, jobVars, closeVars, drainVars
<1>12. ASSUME NEW p \in Procs, JobEnds(p) PROVE TypeOK'
  BY <1>12 DEF JobEnds, TypeOK, SpawnStates
<1>13. ASSUME NEW p \in Procs, ChildExits(p) PROVE TypeOK'
  <2>1. job' \in [Jobs -> JobStates]  BY <1>13, EndedSettles DEF ChildExits
  <2>2. child' \in [Procs -> {"none", "alive", "exiting", "dead"}] /\ failures' \in Nat
    BY <1>13 DEF ChildExits, Ended, TypeOK
  <2>3. UNCHANGED <<poolVars, executors, spawnTasks, monitors, spawned, spawn, runningJob, waker,
                    closeVars, drainVars>>
    BY <1>13 DEF ChildExits
  <2>. QED  BY <2>1, <2>2, <2>3 DEF TypeOK, poolVars, closeVars, drainVars
<1>14. ASSUME NEW p \in Procs, ChildCrashes(p) PROVE TypeOK'
  <2>1. job' \in [Jobs -> JobStates]  BY <1>14, EndedSettles DEF ChildCrashes
  <2>2. child' \in [Procs -> {"none", "alive", "exiting", "dead"}] /\ failures' \in Nat
    BY <1>14 DEF ChildCrashes, Ended, TypeOK
  <2>3. UNCHANGED <<poolVars, executors, spawnTasks, monitors, spawned, spawn, runningJob, waker,
                    closeVars, drainVars>>
    BY <1>14 DEF ChildCrashes
  <2>. QED  BY <2>1, <2>2, <2>3 DEF TypeOK, poolVars, closeVars, drainVars
<1>15. CASE MainTick
  <2>1. UNCHANGED <<poolVars, executors, monitors, child, jobVars, closeVars, failures, drainVars>>
    BY <1>15 DEF MainTick
  <2>2. /\ spawned' \in 0 .. MaxProcs /\ spawn' \in [Procs -> SpawnStates]
        /\ spawnTasks' \subseteq Procs
    BY <1>15, TickCreates, CreateType DEF MainTick
  <2>. QED  BY <2>1, <2>2 DEF TypeOK, poolVars, jobVars, closeVars, drainVars
<1>16. CASE MainCancelled
  BY <1>16 DEF MainCancelled, TypeOK, SpawnStates
<1>17. CASE MainGathersSpawns
  BY <1>17 DEF MainGathersSpawns, TypeOK, SpawnStates
<1>18. CASE MainGathersMonitors
  BY <1>18 DEF MainGathersMonitors, TypeOK, SpawnStates
<1>19. CASE MainReturns
  BY <1>19 DEF MainReturns, TypeOK, SpawnStates
<1>20. ASSUME NEW p \in Procs, AcloseProc(p) PROVE TypeOK'
  BY <1>20 DEF AcloseProc, TypeOK, SpawnStates
<1>21. ASSUME NEW p \in Procs, AcloseProcReturns(p) PROVE TypeOK'
  BY <1>21 DEF AcloseProcReturns, TypeOK, SpawnStates
<1>22. CASE Aclose
  BY <1>22 DEF Aclose, TypeOK, SpawnStates
<1>23. CASE Drain
  <2>1. UNCHANGED <<poolVars, procVars, jobVars, closeVars, failures>> /\ drainJobs' \subseteq Jobs
    BY <1>23 DEF Drain
  <2>2. drain' \in [at : {"idle", "joining", "returned"}, index : Nat, proc : Procs \cup {0}]
    BY <1>23, DrainType DEF Drain
  <2>. QED  BY <2>1, <2>2 DEF TypeOK, poolVars, procVars, jobVars, closeVars
<1>24. CASE DrainResumes
  <2>1. UNCHANGED <<poolVars, procVars, jobVars, closeVars, failures, drainJobs>>
    BY <1>24 DEF DrainResumes
  <2>2. drain.index \in Nat  BY DEF TypeOK
  <2>3. drain' \in [at : {"idle", "joining", "returned"}, index : Nat, proc : Procs \cup {0}]
    BY <1>24, <2>2, DrainType DEF DrainResumes
  <2>. QED  BY <2>1, <2>3 DEF TypeOK, poolVars, procVars, jobVars, closeVars
<1>25. CASE UNCHANGED vars
  BY <1>25 DEF vars, TypeOK, SpawnStates
<1>26. ASSUME NEW p \in Procs, StartDies(p) PROVE TypeOK'
  BY <1>26 DEF StartDies, TypeOK, SpawnStates
<1>. QED
  BY <1>1, <1>2, <1>3, <1>4, <1>5, <1>6, <1>7, <1>8, <1>9,
     <1>10, <1>11, <1>12, <1>13, <1>14, <1>15, <1>16, <1>17, <1>18,
     <1>19, <1>20, <1>21, <1>22, <1>23, <1>24, <1>25, <1>26
  DEF Next, SpawnStep, MainStep

-------------------------------------------------------------------------------
LEMMA TypeInit ==
  ASSUME Init
  PROVE  TypeOK
<1>1. DefaultIdle \in Nat /\ MaxProcs \in Nat
  BY PoolAssumption
<1>2. executors \in Seq(Procs) /\ warm \in Seq(Procs) /\ getters \in Seq(Jobs)
  BY DEF Init
<1>3. spawn \in [Procs -> SpawnStates] /\ job \in [Jobs -> JobStates]
  BY DEF Init, SpawnStates, JobStates
<1>4. child \in [Procs -> {"none", "alive", "exiting", "dead"}]
  BY DEF Init
<1>5. runningJob \in [Procs -> Jobs \cup {NoJob}] /\ waker \in [Jobs -> Procs \cup {0}]
  BY DEF Init
<1>6. drain \in [at : {"idle", "joining", "returned"}, index : Nat, proc : Procs \cup {0}]
  BY DEF Init
<1>7. /\ target \in Nat /\ jobsWaiting \in Nat /\ failures \in Nat /\ spawned \in 0 .. MaxProcs
      /\ main = "loop"
  BY <1>1 DEF Init
<1>8. /\ spawnTasks \subseteq Procs /\ monitors \subseteq Procs /\ toClose \subseteq Procs
      /\ closing \subseteq Procs /\ toJoin \subseteq Procs /\ drainJobs \subseteq Jobs
  BY DEF Init
<1>9. closed \in BOOLEAN /\ idleReady \in BOOLEAN
  BY DEF Init
<1>. QED  BY <1>2, <1>3, <1>4, <1>5, <1>6, <1>7, <1>8, <1>9 DEF TypeOK

LEMMA Initially == Init => IInv
<1>. SUFFICES ASSUME Init PROVE IInv
  OBVIOUS
<1>1. TypeOK
  BY TypeInit
<1>2. Fresh
  BY PoolAssumption DEF Init, Fresh, Procs
<1>3. Counted
  <2>1. Asking = {}  BY DEF Init, Asking
  <2>. QED  BY <2>1, FS_EmptySet DEF Init, Counted
<1>4. Queued /\ Warmed
  BY DEF Init, Queued, Warmed
<1>5. Taken /\ Pending /\ Starting /\ LiveIsListed /\ Watched
  BY DEF Init, Taken, Pending, Starting, LiveIsListed, Watched
<1>6. Closing
  BY DEF Init, Closing
<1>. QED  BY <1>1, <1>2, <1>3, <1>4, <1>5, <1>6 DEF IInv

LEMMA Inductive == IInv /\ [Next]_vars => IInv'
<1>. SUFFICES ASSUME IInv, [Next]_vars PROVE IInv'
  OBVIOUS
<1>. /\ TypeOK /\ Fresh /\ Counted /\ Queued /\ Warmed /\ Taken
     /\ Pending /\ Starting /\ LiveIsListed /\ Watched /\ Closing
  BY DEF IInv
<1>1. TypeOK' /\ Fresh' /\ Counted'
  BY TypeNext, FreshNext, CountedNext
<1>2. Queued' /\ Warmed' /\ Taken'
  BY QueuedNext, WarmedNext, TakenNext
<1>3. Pending' /\ Starting' /\ LiveIsListed'
  BY PendingNext, StartingNext, LiveIsListedNext
<1>4. Watched' /\ Closing'
  BY WatchedNext, ClosingNext
<1>. QED  BY <1>1, <1>2, <1>3, <1>4 DEF IInv

LEMMA UsedOnceHolds == IInv => UsedOnce
BY DEF IInv, Warmed, Taken, UsedOnce

LEMMA NoOrphans == IInv => NoOrphanAfterClose
<1>. SUFFICES ASSUME IInv, main = "closed", \A p \in Procs : spawn[p] # "raised", NEW p \in Procs
              PROVE  child[p] \in {"none", "dead"}
  BY DEF NoOrphanAfterClose
<1>1. ~Lives(p)
  BY DEF IInv, Closing
<1>2. child[p] \in {"none", "alive", "exiting", "dead"}
  BY DEF IInv, TypeOK
<1>. QED  BY <1>1, <1>2 DEF Lives

-------------------------------------------------------------------------------
\* Every variable of the pool keeps its type; in particular the counter of the jobs that wait
\* in launch_job never goes below zero, whoever is woken, overtaken and made to wait again.
THEOREM TypeCorrect == Spec => []TypeOK
<1>1. IInv => TypeOK
  BY DEF IInv
<1>. QED  BY <1>1, Initially, Inductive, PTL DEF Spec

\* No process is handed to two jobs, nor one that failed to initialize.
THEOREM ProcessesAreUsedOnce == Spec => []UsedOnce
BY Initially, Inductive, UsedOnceHolds, PTL DEF Spec

\* A live process is in the list that get_by_job_id, drain and aclose search.
THEOREM LiveProcessesAreListed == Spec => []LiveIsListed
<1>1. IInv => LiveIsListed
  BY DEF IInv
<1>. QED  BY <1>1, Initially, Inductive, PTL DEF Spec

\* aclose leaves no process behind, unless a start raised.
THEOREM CloseLeavesNoOrphan == Spec => []NoOrphanAfterClose
BY Initially, Inductive, NoOrphans, PTL DEF Spec

-------------------------------------------------------------------------------
\* A job runs in a process that lives.
Placed == \A j \in Jobs : job[j] = "running" => \E p \in Procs : runningJob[p] = j /\ Lives(p)

LEMMA StaysPlaced ==
  ASSUME Placed, runningJob' = runningJob,
         \A j \in Jobs : job'[j] = "running" => job[j] = "running",
         \A p \in Procs : Lives(p) => Lives(p)'
  PROVE  Placed'
BY DEF Placed

LEMMA AssignPlaced ==
  ASSUME TypeOK, Warmed, Placed, NEW j \in Jobs, warm # <<>>, Assign(j, Head(warm)),
         UNCHANGED child
  PROVE  Placed'
<1>. runningJob \in [Procs -> Jobs \cup {NoJob}] /\ job \in [Jobs -> JobStates]
     /\ NoJob \notin Jobs
  BY PoolAssumption DEF TypeOK
<1>1. Head(warm) \in Procs /\ runningJob[Head(warm)] = NoJob
  BY DEF TypeOK, Warmed
<1>2. /\ runningJob' = [runningJob EXCEPT ![Head(warm)] = j]
      /\ job' = [job EXCEPT ![j] = IF child[Head(warm)] = "alive" THEN "running" ELSE "lost"]
  BY DEF Assign
<1>. SUFFICES ASSUME NEW k \in Jobs, job'[k] = "running"
              PROVE  \E p \in Procs : runningJob'[p] = k /\ Lives(p)'
  BY DEF Placed
<1>3. CASE k = j
  <2>1. child[Head(warm)] = "alive" /\ runningJob'[Head(warm)] = k
    BY <1>1, <1>2, <1>3
  <2>. QED  BY <1>1, <2>1 DEF Lives
<1>4. CASE k # j
  <2>1. job[k] = "running"  BY <1>2, <1>4
  <2>2. PICK p \in Procs : runningJob[p] = k /\ Lives(p)  BY <2>1 DEF Placed
  <2>3. runningJob'[p] = k  BY <1>1, <1>2, <2>2
  <2>. QED  BY <2>2, <2>3 DEF Lives
<1>. QED  BY <1>3, <1>4

LEMMA EndedPlaced ==
  ASSUME TypeOK, Taken, Placed, NEW p \in Procs, NEW how \in {"finished", "failed"},
         Ended(p, how), UNCHANGED runningJob
  PROVE  Placed'
<1>. SUFFICES ASSUME NEW k \in Jobs, job'[k] = "running"
              PROVE  \E q \in Procs : runningJob'[q] = k /\ Lives(q)'
  BY DEF Placed
<1>1. job[k] = "running" /\ runningJob[p] # k
  BY DEF Ended
<1>2. PICK q \in Procs : runningJob[q] = k /\ Lives(q)
  BY <1>1 DEF Placed
<1>3. q # p /\ child'[q] = child[q]
  BY <1>1, <1>2 DEF Ended, TypeOK
<1>. QED  BY <1>2, <1>3 DEF Lives

LEMMA PlacedNext ==
  ASSUME TypeOK, Starting, Queued, Warmed, Taken, Placed, [Next]_vars
  PROVE  Placed'
<1>. /\ child \in [Procs -> {"none", "alive", "exiting", "dead"}]
     /\ job \in [Jobs -> JobStates]
  BY DEF TypeOK
<1>. USE DEF poolVars, procVars, jobVars, closeVars, drainVars
<1>1. ASSUME UNCHANGED <<runningJob, job>>, \A p \in Procs : Lives(p) => Lives(p)'
      PROVE  Placed'
  BY <1>1, StaysPlaced
<1>2. ASSUME UNCHANGED <<runningJob, job, child>>
      PROVE  Placed'
  BY <1>1, <1>2 DEF Lives
<1>3. ASSUME NEW j \in Jobs, LaunchJob(j)
      PROVE  Placed'
  <2>1. CASE warm # <<>>
    BY <1>3, <2>1, AssignPlaced DEF LaunchJob
  <2>2. CASE warm = <<>>
    <3>1. UNCHANGED <<runningJob, child>> /\ job' = [job EXCEPT ![j] = "waiting"]
      BY <1>3, <2>2 DEF LaunchJob
    <3>. QED  BY <3>1, StaysPlaced DEF Lives
  <2>. QED  BY <2>1, <2>2
<1>4. ASSUME NEW j \in Jobs, ResumeLaunch(j)
      PROVE  Placed'
  <2>1. CASE warm # <<>>
    BY <1>4, <2>1, AssignPlaced DEF ResumeLaunch
  <2>2. CASE warm = <<>>
    <3>1. UNCHANGED <<runningJob, child>> /\ job' = [job EXCEPT ![j] = "waiting"]
      BY <1>4, <2>2 DEF ResumeLaunch
    <3>. QED  BY <3>1, StaysPlaced DEF Lives
  <2>. QED  BY <2>1, <2>2
<1>5. ASSUME NEW p \in Procs, InitOk(p)
      PROVE  Placed'
  <2>1. UNCHANGED <<runningJob, child>>  BY <1>5 DEF InitOk
  <2>2. \A j \in Jobs : job'[j] = "running" => job[j] = "running"  BY <1>5 DEF InitOk
  <2>. QED  BY <2>1, <2>2, StaysPlaced DEF Lives
<1>6. ASSUME NEW p \in Procs, ChildExits(p) \/ ChildCrashes(p)
      PROVE  Placed'
  BY <1>6, EndedPlaced DEF ChildExits, ChildCrashes
<1>7. ASSUME NEW p \in Procs, StartOk(p) \/ InitFails(p) \/ JobEnds(p) \/ AcloseProc(p)
      PROVE  Placed'
  <2>1. UNCHANGED <<runningJob, job>>
    BY <1>7 DEF StartOk, InitFails, JobEnds, AcloseProc
  <2>2. child' = child \/ \E s \in {"alive", "exiting"} : child' = [child EXCEPT ![p] = s]
    <3>1. CASE AcloseProc(p)
      BY <3>1 DEF AcloseProc
    <3>. QED  BY <1>7, <3>1 DEF StartOk, InitFails, JobEnds
  <2>3. \A q \in Procs : Lives(q) => Lives(q)'  BY <2>2 DEF Lives
  <2>. QED  BY <1>1, <2>1, <2>3
<1>8. ASSUME NEW p \in Procs, \/ SpawnEnter(p) \/ SpawnAcquire(p) \/ StartRaises(p)
                              \/ Discard(p) \/ MonitorEnds(p) \/ AcloseProcReturns(p)
      PROVE  Placed'
  BY <1>2, <1>8 DEF SpawnEnter, SpawnAcquire, StartRaises, Discard, MonitorEnds,
                    AcloseProcReturns
<1>9. CASE \/ MainTick \/ MainCancelled \/ MainGathersSpawns \/ MainGathersMonitors
           \/ MainReturns
  BY <1>2, <1>9 DEF MainTick, MainCancelled, MainGathersSpawns, MainGathersMonitors,
                    MainReturns
<1>10. CASE \/ Aclose \/ Drain \/ DrainResumes \/ \E n \in Targets : SetTarget(n)
            \/ UNCHANGED vars
  BY <1>2, <1>10 DEF Aclose, Drain, DrainResumes, SetTarget, vars
<1>11. ASSUME NEW p \in Procs, StartDies(p)
      PROVE  Placed'
  <2>1. spawn[p] = "starting" /\ child' = [child EXCEPT ![p] = "dead"] /\ UNCHANGED <<runningJob, job>>
    BY <1>11 DEF StartDies
  <2>2. ~Lives(p)  BY <2>1 DEF Starting, Lives
  <2>3. \A q \in Procs : Lives(q) => Lives(q)'  BY <2>1, <2>2 DEF Lives
  <2>. QED  BY <1>1, <2>1, <2>3
<1>. QED
  BY <1>3, <1>4, <1>5, <1>6, <1>7, <1>8, <1>9, <1>10, <1>11 DEF Next, SpawnStep, MainStep

-------------------------------------------------------------------------------
\* What the worker sees of the pool.
Broken == \E p \in Procs : spawn[p] = "raised"
State  == CASE ~closed -> "open" [] main = "closed" -> "closed" [] OTHER -> "closing"
Launching == [j \in Jobs |-> LaunchOf(j)]

\* Only a start that raises breaks the pool, and for good.
LEMMA BrokenNext ==
  ASSUME TypeOK, Fresh, [Next]_vars
  PROVE  \/ Broken' = Broken
         \/ Broken' = TRUE /\ \E p \in Procs : StartRaises(p)
<1>. DEFINE Goal == \/ Broken' = Broken
                    \/ Broken' = TRUE /\ \E p \in Procs : StartRaises(p)
<1>. SUFFICES Goal  OBVIOUS
<1>. spawn \in [Procs -> SpawnStates]
  BY DEF TypeOK
<1>. USE DEF poolVars, procVars, jobVars, closeVars, drainVars
<1>1. ASSUME UNCHANGED spawn
      PROVE  Goal
  BY <1>1 DEF Broken
<1>2. ASSUME Creates
      PROVE  Goal
  BY <1>2 DEF Creates, Broken
<1>3. ASSUME NEW j \in Jobs, LaunchJob(j)
      PROVE  Goal
  BY <1>1, <1>2, <1>3, LaunchMoves
<1>4. CASE MainTick
  BY <1>2, <1>4, TickMoves
<1>5. ASSUME NEW p \in Procs, NEW s \in SpawnStates \ {"raised"}, spawn[p] # "raised",
             spawn' = [spawn EXCEPT ![p] = s]
      PROVE  Goal
  BY <1>5 DEF Broken
<1>6. ASSUME NEW p \in Procs,
             \/ SpawnEnter(p) \/ SpawnAcquire(p) \/ StartOk(p) \/ StartDies(p)
             \/ InitOk(p) \/ InitFails(p)
      PROVE  Goal
  <2>1. spawn[p] # "raised" /\ \E s \in SpawnStates \ {"raised"} : spawn' = [spawn EXCEPT ![p] = s]
    BY <1>6 DEF SpawnEnter, SpawnAcquire, StartOk, StartDies, InitOk, InitFails, SpawnStates
  <2>. QED  BY <1>5, <2>1
<1>7. ASSUME NEW p \in Procs, StartRaises(p)
      PROVE  Goal
  <2>1. spawn'[p] = "raised"  BY <1>7 DEF StartRaises
  <2>2. Broken' = TRUE  BY <2>1 DEF Broken
  <2>. QED  BY <1>7, <2>2
<1>8. ASSUME NEW p \in Procs, \/ Discard(p) \/ MonitorEnds(p) \/ JobEnds(p) \/ ChildExits(p)
                              \/ ChildCrashes(p) \/ AcloseProc(p) \/ AcloseProcReturns(p)
      PROVE  Goal
  BY <1>1, <1>8 DEF Discard, MonitorEnds, JobEnds, ChildExits, ChildCrashes, AcloseProc,
                    AcloseProcReturns
<1>9. CASE MainCancelled \/ MainGathersSpawns \/ MainGathersMonitors \/ MainReturns
  BY <1>1, <1>9 DEF MainCancelled, MainGathersSpawns, MainGathersMonitors, MainReturns
<1>10. CASE \/ Aclose \/ Drain \/ DrainResumes \/ UNCHANGED vars
            \/ \E j \in Jobs : ResumeLaunch(j)
            \/ \E n \in Targets : SetTarget(n)
  BY <1>1, <1>10 DEF Aclose, Drain, DrainResumes, ResumeLaunch, SetTarget, vars
<1>. HIDE DEF Goal
<1>. QED
  BY <1>3, <1>4, <1>6, <1>7, <1>8, <1>9, <1>10 DEF Next, SpawnStep, MainStep

\* A job that is handed a process, or loses it, makes one step of the pool.
LEMMA AssignedRuns ==
  ASSUME TypeOK, Warmed, Closing, NEW j \in Jobs, job[j] \in {"new", "woken"},
         warm # <<>>, Assign(j, Head(warm)), UNCHANGED <<closed, main>>, Broken' = Broken
  PROVE  Life!Next
<1>. job \in [Jobs -> JobStates]  BY DEF TypeOK
<1>1. Head(warm) \in Procs  BY DEF TypeOK
<1>2. LaunchOf(j) \in {"new", "waiting"}  BY DEF LaunchOf
<1>3. \A k \in Jobs : k # j => LaunchOf(k)' = LaunchOf(k)  BY DEF Assign, LaunchOf
<1>4. Launching[j] = LaunchOf(j) /\ Launching' = [Launching EXCEPT ![j] = LaunchOf(j)']
  BY <1>3 DEF Launching
<1>5. UNCHANGED State  BY DEF State
<1>6. CASE child[Head(warm)] = "alive"
  <2>1. LaunchOf(j)' = "running"  BY <1>6 DEF Assign, LaunchOf
  <2>2. State # "closed" \/ Broken  BY <1>1, <1>6 DEF State, Closing, Lives, Broken
  <2>3. Life!Runs(j)
    BY <1>2, <1>4, <1>5, <2>1, <2>2 DEF Life!Runs, Life!Moves, Launching, State, Broken
  <2>. QED  BY <2>3 DEF Life!Next
<1>7. CASE child[Head(warm)] # "alive"
  <2>1. LaunchOf(j)' = "over"  BY <1>7 DEF Assign, LaunchOf
  <2>2. Life!IsLost(j)
    BY <1>2, <1>4, <1>5, <2>1 DEF Life!IsLost, Life!Moves, Launching, State, Broken
  <2>. QED  BY <2>2 DEF Life!Next
<1>. QED  BY <1>6, <1>7

LEMMA EndedEnds ==
  ASSUME TypeOK, NEW p \in Procs, NEW how \in {"finished", "failed"}, Ended(p, how),
         UNCHANGED <<closed, main>>, Broken' = Broken
  PROVE  Life!Next \/ UNCHANGED Launching
<1>. job \in [Jobs -> JobStates]  BY DEF TypeOK
<1>1. \A k \in Jobs : k # runningJob[p] => LaunchOf(k)' = LaunchOf(k)  BY DEF Ended, LaunchOf
<1>2. ASSUME NEW j \in Jobs, runningJob[p] = j, job[j] = "running"
      PROVE  Life!Next
  <2>1. LaunchOf(j) = "running" /\ LaunchOf(j)' = "over"
    BY <1>2 DEF Ended, LaunchOf
  <2>2. Launching[j] = LaunchOf(j) /\ Launching' = [Launching EXCEPT ![j] = LaunchOf(j)']
    BY <1>1, <1>2 DEF Launching
  <2>3. UNCHANGED State  BY DEF State
  <2>4. Life!Ends(j)
    BY <2>1, <2>2, <2>3 DEF Life!Ends, Life!Moves, Launching, State, Broken
  <2>. QED  BY <2>4 DEF Life!Next
<1>3. CASE \A j \in Jobs : ~(runningJob[p] = j /\ job[j] = "running")
  <2>1. \A k \in Jobs : job'[k] = job[k]  BY <1>3 DEF Ended
  <2>. QED  BY <2>1 DEF Launching, LaunchOf
<1>. QED  BY <1>2, <1>3

LEMMA LifeStep ==
  ASSUME TypeOK, Fresh, Queued, Warmed, Closing, Placed, [Next]_vars
  PROVE  Life!Next \/ UNCHANGED <<State, Broken, Launching>>
<1>. DEFINE Goal == Life!Next \/ UNCHANGED <<State, Broken, Launching>>
<1>. job \in [Jobs -> JobStates]  BY DEF TypeOK
<1>. SUFFICES Goal  OBVIOUS
<1>. USE DEF poolVars, procVars, jobVars, closeVars, drainVars
<1>1. ASSUME NEW p \in Procs, StartRaises(p)
      PROVE  Goal
  <2>1. UNCHANGED <<job, closed, main>>  BY <1>1 DEF StartRaises
  <2>2. UNCHANGED <<State, Launching>>  BY <2>1 DEF State, Launching, LaunchOf
  <2>3. Broken' = TRUE
    <3>1. spawn'[p] = "raised"  BY <1>1 DEF StartRaises, TypeOK
    <3>. QED  BY <3>1 DEF Broken
  <2>4. Life!Breaks  BY <2>2, <2>3 DEF Life!Breaks, State, Launching, Broken
  <2>. QED  BY <2>4 DEF Life!Next
<1>2. CASE Broken' = Broken
  <2>1. ASSUME UNCHANGED <<job, closed, main>>
        PROVE  Goal
    BY <1>2, <2>1 DEF State, Launching, LaunchOf
  <2>2. ASSUME NEW j \in Jobs, LaunchJob(j)
        PROVE  Goal
    <3>1. job[j] = "new" /\ UNCHANGED <<closed, main>>  BY <2>2 DEF LaunchJob
    <3>2. CASE warm # <<>>
      BY <1>2, <2>2, <3>1, <3>2, AssignedRuns DEF LaunchJob
    <3>3. CASE warm = <<>>
      <4>1. job' = [job EXCEPT ![j] = "waiting"]  BY <2>2, <3>3 DEF LaunchJob
      <4>2. LaunchOf(j) = "new" /\ LaunchOf(j)' = "waiting"  BY <3>1, <4>1 DEF LaunchOf
      <4>3. \A k \in Jobs : k # j => LaunchOf(k)' = LaunchOf(k)  BY <4>1 DEF LaunchOf
      <4>4. Launching[j] = LaunchOf(j) /\ Launching' = [Launching EXCEPT ![j] = LaunchOf(j)']
        BY <4>3 DEF Launching
      <4>5. UNCHANGED State  BY <3>1 DEF State
      <4>6. Life!Waits(j)
        BY <1>2, <4>2, <4>4, <4>5 DEF Life!Waits, Life!Moves, Launching, State, Broken
      <4>. QED  BY <4>6 DEF Life!Next
    <3>. QED  BY <3>2, <3>3
  <2>3. ASSUME NEW j \in Jobs, ResumeLaunch(j)
        PROVE  Goal
    <3>1. job[j] = "woken" /\ UNCHANGED <<closed, main>>  BY <2>3 DEF ResumeLaunch
    <3>2. CASE warm # <<>>
      BY <1>2, <2>3, <3>1, <3>2, AssignedRuns DEF ResumeLaunch
    <3>3. CASE warm = <<>>
      <4>1. job' = [job EXCEPT ![j] = "waiting"]  BY <2>3, <3>3 DEF ResumeLaunch
      <4>2. Launching' = Launching  BY <3>1, <4>1 DEF Launching, LaunchOf
      <4>. QED  BY <1>2, <3>1, <4>2 DEF State
    <3>. QED  BY <3>2, <3>3
  <2>4. ASSUME NEW p \in Procs, InitOk(p)
        PROVE  Goal
    <3>1. UNCHANGED <<closed, main>>  BY <2>4 DEF InitOk
    <3>2. CASE getters = <<>>
      BY <2>1, <2>4, <3>1, <3>2 DEF InitOk
    <3>3. CASE getters # <<>>
      <4>1. job' = [job EXCEPT ![Head(getters)] = "woken"]  BY <2>4, <3>3 DEF InitOk
      <4>2. job[Head(getters)] = "waiting"  BY <3>3 DEF Queued, TypeOK
      <4>3. Launching' = Launching  BY <4>1, <4>2 DEF Launching, LaunchOf
      <4>. QED  BY <1>2, <3>1, <4>3 DEF State
    <3>. QED  BY <3>2, <3>3
  <2>5. ASSUME NEW p \in Procs, ChildExits(p) \/ ChildCrashes(p)
        PROVE  Goal
    <3>1. UNCHANGED <<closed, main>>  BY <2>5 DEF ChildExits, ChildCrashes
    <3>2. Life!Next \/ UNCHANGED Launching
      BY <1>2, <2>5, <3>1, EndedEnds DEF ChildExits, ChildCrashes
    <3>. QED  BY <1>2, <3>1, <3>2 DEF State
  <2>6. ASSUME NEW p \in Procs,
               \/ SpawnEnter(p) \/ SpawnAcquire(p) \/ StartOk(p) \/ StartDies(p) \/ InitFails(p)
               \/ Discard(p) \/ MonitorEnds(p) \/ JobEnds(p) \/ AcloseProc(p) \/ AcloseProcReturns(p)
        PROVE  Goal
    BY <2>1, <2>6 DEF SpawnEnter, SpawnAcquire, StartOk, StartDies, InitFails, Discard, MonitorEnds,
                      JobEnds, AcloseProc, AcloseProcReturns
  <2>7. CASE \/ MainTick \/ Drain \/ DrainResumes \/ UNCHANGED vars
             \/ \E n \in Targets : SetTarget(n)
    BY <2>1, <2>7 DEF MainTick, Drain, DrainResumes, SetTarget, vars
  <2>8. ASSUME UNCHANGED <<job, closed>>, main # "loop", main # "closed", main' # "closed"
        PROVE  Goal
    <3>1. closed  BY <2>8 DEF Closing
    <3>. QED  BY <1>2, <2>8, <3>1 DEF State, Launching, LaunchOf
  <2>9. CASE MainCancelled \/ MainGathersSpawns
    BY <2>8, <2>9 DEF MainCancelled, MainGathersSpawns
  <2>10. ASSUME UNCHANGED <<job, closed>>, main # "loop", main # "closed", main' = "closed",
                Broken \/ \A p \in Procs : ~Lives(p)
         PROVE  Goal
    <3>1. closed  BY <2>10 DEF Closing
    <3>2. State = "closing" /\ State' = "closed"  BY <2>10, <3>1 DEF State
    <3>3. Launching' = Launching  BY <2>10 DEF Launching, LaunchOf
    <3>4. Broken \/ \A j \in Jobs : Launching[j] # "running"
      BY <2>10 DEF Launching, LaunchOf, Placed
    <3>5. Life!IsClosed
      BY <1>2, <3>2, <3>3, <3>4 DEF Life!IsClosed, Launching, State, Broken
    <3>. QED  BY <3>5 DEF Life!Next
  <2>11. CASE MainGathersMonitors
    <3>1. main = "joining" /\ UNCHANGED <<job, closed>>  BY <2>11 DEF MainGathersMonitors
    <3>2. CASE main' = "monitoring"
      BY <2>8, <3>1, <3>2
    <3>3. CASE main' # "monitoring"
      <4>1. main' = "closed" /\ \E p \in toJoin : spawn[p] = "raised"
        BY <2>11, <3>3 DEF MainGathersMonitors
      <4>2. Broken  BY <4>1 DEF Broken, TypeOK
      <4>. QED  BY <2>10, <3>1, <4>1, <4>2
    <3>. QED  BY <3>2, <3>3
  <2>12. CASE MainReturns
    <3>1. /\ main = "monitoring" /\ main' = "closed" /\ toJoin \cap monitors = {}
          /\ UNCHANGED <<job, closed>>
      BY <2>12 DEF MainReturns
    <3>2. \A p \in Procs : ~Lives(p)  BY <3>1 DEF Closing
    <3>. QED  BY <2>10, <3>1, <3>2
  <2>13. CASE Aclose
    <3>1. ~closed /\ main = "loop" /\ closed' /\ main' = "cancelled" /\ UNCHANGED job
      BY <2>13 DEF Aclose, Closing
    <3>2. State = "open" /\ State' = "closing"  BY <3>1 DEF State
    <3>3. Launching' = Launching  BY <3>1 DEF Launching, LaunchOf
    <3>4. Life!Closes  BY <1>2, <3>2, <3>3 DEF Life!Closes, Launching, State, Broken
    <3>. QED  BY <3>4 DEF Life!Next
  <2>. HIDE DEF Goal
  <2>. QED
    BY <1>1, <2>2, <2>3, <2>4, <2>5, <2>6, <2>7, <2>9, <2>11, <2>12, <2>13
    DEF Next, SpawnStep, MainStep
<1>. QED  BY <1>1, <1>2, BrokenNext

\* The pool keeps what the worker relies on: whatever fails, crashes or is closed, a call of
\* launch_job gets at most one process and runs once, and when aclose has returned no job
\* runs and none is started any more, unless the start of a process raised.
THEOREM KeepsPoolLife == Spec => ImplementsPoolLife
<1>1. Init => Life!Init /\ Placed
  <2>. SUFFICES ASSUME Init PROVE Life!Init /\ Placed  OBVIOUS
  <2>1. \A j \in Jobs : LaunchOf(j) = "new"  BY DEF Init, LaunchOf
  <2>2. ~closed /\ main = "loop" /\ \A p \in Procs : spawn[p] # "raised"  BY DEF Init
  <2>3. State = "open" /\ Broken = FALSE  BY <2>2 DEF State, Broken
  <2>4. Placed  BY DEF Init, Placed
  <2>. QED  BY <2>1, <2>3, <2>4 DEF Life!Init, State, Broken
<1>2. IInv /\ Placed /\ [Next]_vars => Placed'
  BY PlacedNext DEF IInv
<1>3. IInv /\ Placed /\ [Next]_vars => [Life!Next]_Life!vars
  <2>. SUFFICES ASSUME IInv, Placed, [Next]_vars PROVE [Life!Next]_Life!vars  OBVIOUS
  <2>1. Life!Next \/ UNCHANGED <<State, Broken, Launching>>  BY LifeStep DEF IInv
  <2>. QED  BY <2>1 DEF Life!vars, State, Broken, Launching
<1>. QED
  BY <1>1, <1>2, <1>3, Initially, Inductive, PTL DEF Spec, ImplementsPoolLife, Life!Spec
-------------------------------------------------------------------------------
\* What the pool sees of its processes.
Ups   == {p \in Procs : Lives(p)}
Inits == [p \in Procs |-> InitOf(p)]
Works == [p \in Procs |-> WorkOf(p)]

Waiting == {"new", "waiting", "woken"}

\* A job that has no process leaves the processes alone, wherever it waits.
LEMMA SameWorks ==
  ASSUME TypeOK, Taken, UNCHANGED runningJob,
         \A j \in Jobs : job'[j] = job[j] \/ job[j] \in Waiting
  PROVE  Works' = Works
<1>1. ASSUME NEW p \in Procs
      PROVE  WorkOf(p)' = WorkOf(p)
  <2>1. CASE runningJob[p] = NoJob
    BY <2>1 DEF WorkOf
  <2>2. CASE runningJob[p] # NoJob
    <3>1. runningJob[p] \in Jobs /\ job[runningJob[p]] \notin Waiting
      BY <2>2 DEF TypeOK, Taken, Waiting
    <3>. QED  BY <3>1 DEF WorkOf
  <2>. QED  BY <2>1, <2>2
<1>. QED  BY <1>1 DEF Works

LEMMA SameInits ==
  ASSUME \A p \in Procs : spawn'[p] = spawn[p]
           \/ {spawn[p], spawn'[p]}
                \cap {"initializing", "ready", "failed", "unsent"} = {}
  PROVE  Inits' = Inits
<1>1. \A p \in Procs : InitOf(p)' = InitOf(p)
  BY DEF InitOf
<1>. QED  BY <1>1 DEF Inits

\* The process at the head of the queue is given a job.
LEMMA HeadIsGiven ==
  ASSUME TypeOK, Warmed, Taken, NEW j \in Jobs, job[j] \in Waiting, warm # <<>>,
         Assign(j, Head(warm)), UNCHANGED child, Inits' = Inits
  PROVE  Process!Next
<1>. /\ job \in [Jobs -> JobStates] /\ warm \in Seq(Procs) /\ spawn \in [Procs -> SpawnStates]
     /\ runningJob \in [Procs -> Jobs \cup {NoJob}] /\ NoJob \notin Jobs
  BY PoolAssumption DEF TypeOK
<1>1. PICK h \in Procs : h = Head(warm) /\ spawn[h] = "ready" /\ runningJob[h] = NoJob
  <2>1. Head(warm) = warm[1] /\ 1 \in 1 .. Len(warm) /\ Head(warm) \in Procs  OBVIOUS
  <2>. QED  BY <2>1 DEF Warmed
<1>2. /\ runningJob' = [runningJob EXCEPT ![h] = j]
      /\ job' = [job EXCEPT ![j] = IF child[h] = "alive" THEN "running" ELSE "lost"]
  BY <1>1 DEF Assign
<1>3. ASSUME NEW p \in Procs, p # h
      PROVE  WorkOf(p)' = WorkOf(p)
  <2>1. runningJob'[p] = runningJob[p]  BY <1>2, <1>3
  <2>2. CASE runningJob[p] = NoJob
    BY <2>1, <2>2 DEF WorkOf
  <2>3. CASE runningJob[p] # NoJob
    <3>1. runningJob[p] \in Jobs /\ runningJob[p] # j  BY <2>3 DEF Taken, Waiting
    <3>2. job'[runningJob[p]] = job[runningJob[p]]  BY <1>2, <3>1
    <3>. QED  BY <2>1, <3>2 DEF WorkOf
  <2>. QED  BY <2>2, <2>3
<1>4. WorkOf(h) = "none"  BY <1>1 DEF WorkOf
<1>5. WorkOf(h)' = IF child[h] = "alive" THEN "running" ELSE "over"
  <2>1. runningJob'[h] = j  BY <1>2
  <2>2. job'[j] = IF child[h] = "alive" THEN "running" ELSE "lost"  BY <1>2
  <2>3. j # NoJob  OBVIOUS
  <2>. QED  BY <2>1, <2>2, <2>3 DEF WorkOf
<1>6. Works[h] = "none" /\ Works' = [Works EXCEPT ![h] = WorkOf(h)']
  BY <1>3, <1>4 DEF Works
<1>7. Inits[h] = "ready"  BY <1>1 DEF Inits, InitOf
<1>8. child[h] = "alive" => h \in Ups  BY DEF Ups, Lives
<1>9. Ups' = Ups  BY DEF Ups, Lives
<1>10. Process!IsGiven(h)
  BY <1>5, <1>6, <1>7, <1>8, <1>9 DEF Process!IsGiven, Ups, Inits, Works, Lives
<1>. QED  BY <1>10 DEF Process!Next

LEMMA EndedIsGone ==
  ASSUME TypeOK, Taken, NEW p \in Procs, Lives(p), NEW how \in {"finished", "failed"},
         Ended(p, how), UNCHANGED <<runningJob, spawn>>
  PROVE  Process!Next
<1>. /\ job \in [Jobs -> JobStates] /\ child \in [Procs -> {"none", "alive", "exiting", "dead"}]
     /\ runningJob \in [Procs -> Jobs \cup {NoJob}] /\ NoJob \notin Jobs
  BY PoolAssumption DEF TypeOK
<1>1. Inits' = Inits  BY SameInits
<1>2. p \in Ups /\ Ups' = Ups \ {p}  BY DEF Ups, Lives, Ended
<1>3. ASSUME NEW q \in Procs, q # p
      PROVE  WorkOf(q)' = WorkOf(q)
  <2>1. CASE runningJob[q] = NoJob
    BY <2>1 DEF WorkOf
  <2>2. CASE runningJob[q] # NoJob
    <3>1. runningJob[q] \in Jobs /\ runningJob[p] # runningJob[q]  BY <1>3, <2>2 DEF Taken
    <3>2. job'[runningJob[q]] = job[runningJob[q]]  BY <3>1 DEF Ended
    <3>. QED  BY <3>2 DEF WorkOf
  <2>. QED  BY <2>1, <2>2
<1>4. WorkOf(p)' = IF WorkOf(p) = "running" THEN "over" ELSE WorkOf(p)
  <2>1. CASE runningJob[p] = NoJob
    BY <2>1 DEF WorkOf
  <2>2. CASE runningJob[p] # NoJob
    <3>1. runningJob[p] \in Jobs  BY <2>2
    <3>2. job'[runningJob[p]] = IF job[runningJob[p]] = "running" THEN how ELSE job[runningJob[p]]
      BY <3>1 DEF Ended
    <3>. QED  BY <2>2, <3>2 DEF WorkOf
  <2>. QED  BY <2>1, <2>2
<1>5. Works' = [Works EXCEPT ![p] = IF @ = "running" THEN "over" ELSE @]
  BY <1>3, <1>4 DEF Works
<1>6. Process!IsGone(p)
  BY <1>1, <1>2, <1>5 DEF Process!IsGone, Ups, Inits, Works, Lives
<1>. QED  BY <1>6 DEF Process!Next

LEMMA ProcessStep ==
  ASSUME TypeOK, Fresh, Starting, Queued, Warmed, Taken, [Next]_vars
  PROVE  Process!Next \/ UNCHANGED <<Ups, Inits, Works>>
<1>. DEFINE Goal == Process!Next \/ UNCHANGED <<Ups, Inits, Works>>
<1>. SUFFICES Goal  OBVIOUS
<1>. /\ spawn \in [Procs -> SpawnStates] /\ job \in [Jobs -> JobStates]
     /\ child \in [Procs -> {"none", "alive", "exiting", "dead"}]
  BY DEF TypeOK
<1>. USE DEF poolVars, procVars, jobVars, closeVars, drainVars
<1>1. ASSUME UNCHANGED <<runningJob, job>>
      PROVE  Works' = Works
  BY <1>1, SameWorks
<1>2. ASSUME NEW p \in Procs, NEW s \in SpawnStates, spawn' = [spawn EXCEPT ![p] = s],
             NEW i, InitOf(p)' = i
      PROVE  Inits' = [Inits EXCEPT ![p] = i]
  <2>1. \A q \in Procs : q # p => InitOf(q)' = InitOf(q)  BY <1>2 DEF InitOf
  <2>. QED  BY <1>2, <2>1 DEF Inits
<1>3. Creates \/ UNCHANGED spawn => Inits' = Inits
  BY SameInits DEF Creates
<1>4. CASE Aside
  BY <1>1, <1>3, <1>4 DEF Aside, Ups, Lives
<1>5. ASSUME NEW j \in Jobs, LaunchJob(j)
      PROVE  Goal
  <2>1. job[j] \in Waiting /\ UNCHANGED child  BY <1>5 DEF LaunchJob, Waiting
  <2>2. Inits' = Inits  BY <1>3, <1>5, LaunchMoves
  <2>3. CASE warm # <<>>
    BY <1>5, <2>1, <2>2, <2>3, HeadIsGiven DEF LaunchJob
  <2>4. CASE warm = <<>>
    <3>1. job' = [job EXCEPT ![j] = "waiting"] /\ UNCHANGED runningJob
      BY <1>5, <2>4 DEF LaunchJob
    <3>2. Works' = Works  BY <2>1, <3>1, SameWorks
    <3>. QED  BY <2>1, <2>2, <3>2 DEF Ups, Lives
  <2>. QED  BY <2>3, <2>4
<1>6. ASSUME NEW j \in Jobs, ResumeLaunch(j)
      PROVE  Goal
  <2>1. job[j] \in Waiting /\ UNCHANGED <<child, spawn>>  BY <1>6 DEF ResumeLaunch, Waiting
  <2>2. Inits' = Inits  BY <1>3, <2>1
  <2>3. CASE warm # <<>>
    BY <1>6, <2>1, <2>2, <2>3, HeadIsGiven DEF ResumeLaunch
  <2>4. CASE warm = <<>>
    <3>1. job' = [job EXCEPT ![j] = "waiting"] /\ UNCHANGED runningJob
      BY <1>6, <2>4 DEF ResumeLaunch
    <3>2. Works' = Works  BY <2>1, <3>1, SameWorks
    <3>. QED  BY <2>1, <2>2, <3>2 DEF Ups, Lives
  <2>. QED  BY <2>3, <2>4
<1>7. ASSUME NEW p \in Procs, SpawnEnter(p) \/ SpawnAcquire(p) \/ StartRaises(p)
      PROVE  Goal
  <2>1. UNCHANGED <<child, runningJob, job>>
    BY <1>7 DEF SpawnEnter, SpawnAcquire, StartRaises
  <2>2. \A q \in Procs : spawn'[q] = spawn[q] \/ {spawn[q], spawn'[q]}
              \cap {"initializing", "ready", "failed", "unsent"} = {}
    BY <1>7 DEF SpawnEnter, SpawnAcquire, StartRaises
  <2>. QED  BY <1>1, <2>1, <2>2, SameInits DEF Ups, Lives
<1>8. ASSUME NEW p \in Procs, StartOk(p)
      PROVE  Goal
  <2>1. /\ spawn[p] = "starting" /\ spawn' = [spawn EXCEPT ![p] = "initializing"]
        /\ child' = [child EXCEPT ![p] = "alive"] /\ UNCHANGED <<runningJob, job>>
    BY <1>8 DEF StartOk
  <2>2. Inits[p] = "none" /\ Inits' = [Inits EXCEPT ![p] = "pending"]
    BY <1>2, <2>1 DEF Inits, InitOf, SpawnStates
  <2>3. Ups' = Ups \cup {p}  BY <2>1 DEF Ups, Lives
  <2>4. Process!Starts(p)
    BY <1>1, <2>1, <2>2, <2>3 DEF Process!Starts, Ups, Inits, Works, Lives
  <2>. QED  BY <2>4 DEF Process!Next
<1>9. ASSUME NEW p \in Procs, StartDies(p)
      PROVE  Goal
  <2>1. /\ spawn[p] = "starting" /\ spawn' = [spawn EXCEPT ![p] = "unsent"]
        /\ child' = [child EXCEPT ![p] = "dead"] /\ UNCHANGED <<runningJob, job>>
    BY <1>9 DEF StartDies
  <2>2. Inits[p] = "none" /\ Inits' = [Inits EXCEPT ![p] = "unsent"]
    BY <1>2, <2>1 DEF Inits, InitOf, SpawnStates
  <2>3. child[p] = "none"  BY <2>1 DEF Starting
  <2>4. p \notin Ups /\ Ups' = Ups  BY <2>1, <2>3 DEF Ups, Lives
  <2>5. Process!IsUnsent(p)
    BY <1>1, <2>1, <2>2, <2>4 DEF Process!IsUnsent, Ups, Inits, Works, Lives
  <2>. QED  BY <2>5 DEF Process!Next
<1>10. ASSUME NEW p \in Procs, InitOk(p)
       PROVE  Goal
  <2>1. /\ spawn[p] = "initializing" /\ spawn' = [spawn EXCEPT ![p] = "ready"]
        /\ UNCHANGED <<child, runningJob>>
    BY <1>10 DEF InitOk
  <2>2. Inits[p] = "pending" /\ Inits' = [Inits EXCEPT ![p] = "ready"]
    BY <1>2, <2>1 DEF Inits, InitOf, SpawnStates
  <2>3. \A j \in Jobs : job'[j] = job[j] \/ job[j] \in Waiting
    <3>1. CASE getters = <<>>
      BY <1>10, <3>1 DEF InitOk
    <3>2. CASE getters # <<>>
      <4>1. job' = [job EXCEPT ![Head(getters)] = "woken"]  BY <1>10, <3>2 DEF InitOk
      <4>2. job[Head(getters)] = "waiting"  BY <3>2 DEF Queued, TypeOK
      <4>. QED  BY <4>1, <4>2 DEF Waiting
    <3>. QED  BY <3>1, <3>2
  <2>4. Works' = Works  BY <2>1, <2>3, SameWorks
  <2>5. Ups' = Ups  BY <2>1 DEF Ups, Lives
  <2>6. Process!IsReady(p)
    BY <2>2, <2>4, <2>5 DEF Process!IsReady, Ups, Inits, Works, Lives
  <2>. QED  BY <2>6 DEF Process!Next
<1>11. ASSUME NEW p \in Procs, InitFails(p)
       PROVE  Goal
  <2>1. /\ spawn[p] = "initializing" /\ spawn' = [spawn EXCEPT ![p] = "failed"]
        /\ UNCHANGED <<runningJob, job>>
    BY <1>11 DEF InitFails
  <2>2. Inits[p] = "pending" /\ Inits' = [Inits EXCEPT ![p] = "failed"]
    BY <1>2, <2>1 DEF Inits, InitOf, SpawnStates
  <2>3. child[p] # "none"  BY <2>1 DEF Starting
  <2>4. Ups' = Ups  BY <1>11, <2>3 DEF InitFails, Ups, Lives
  <2>5. Process!IsFailed(p)
    BY <1>1, <2>1, <2>2, <2>4 DEF Process!IsFailed, Ups, Inits, Works, Lives
  <2>. QED  BY <2>5 DEF Process!Next
<1>12. ASSUME NEW p \in Procs, Discard(p) \/ MonitorEnds(p) \/ JobEnds(p) \/ AcloseProc(p)
       PROVE  Goal
  <2>1. UNCHANGED <<spawn, runningJob, job>>
    BY <1>12 DEF Discard, MonitorEnds, JobEnds, AcloseProc
  <2>2. Ups' = Ups  BY <1>12 DEF Discard, MonitorEnds, JobEnds, AcloseProc, Ups, Lives
  <2>. QED  BY <1>1, <1>3, <2>1, <2>2
<1>13. ASSUME NEW p \in Procs, ChildExits(p) \/ ChildCrashes(p)
       PROVE  Goal
  <2>1. Lives(p) /\ UNCHANGED <<runningJob, spawn>>
    BY <1>13 DEF ChildExits, ChildCrashes, Lives
  <2>. QED  BY <1>13, <2>1, EndedIsGone DEF ChildExits, ChildCrashes
<1>14. CASE MainTick
  <2>1. Creates /\ UNCHANGED <<child, runningJob, job>>  BY <1>14, TickMoves DEF MainTick
  <2>. QED  BY <1>1, <1>3, <2>1 DEF Ups, Lives
<1>. HIDE DEF Goal
<1>. QED
  BY <1>4, <1>5, <1>6, <1>7, <1>8, <1>9, <1>10, <1>11, <1>12, <1>13, <1>14, Steps
  DEF SpawnStep

\* The pool supposes of its processes what ProcLife says and no more, for any number of them:
\* it waits for one end of initialize, gives a job only to a process that is ready and has
\* none, and takes the job to be over when, and only when, its process is gone.
THEOREM KeepsToProcLife == Spec => RespectsProcLife
<1>1. Init => Process!Init
  <2>. SUFFICES ASSUME Init PROVE Process!Init  OBVIOUS
  <2>1. Ups = {}  BY DEF Init, Ups, Lives
  <2>2. \A p \in Procs : InitOf(p) = "none" /\ WorkOf(p) = "none"  BY DEF Init, InitOf, WorkOf
  <2>3. Inits = [p \in Procs |-> IF p \in Ups THEN "pending" ELSE "none"]
    BY <2>1, <2>2 DEF Inits
  <2>4. Works = [p \in Procs |-> "none"]  BY <2>2 DEF Works
  <2>. QED  BY <2>1, <2>3, <2>4 DEF Process!Init, Ups, Inits, Works, Lives
<1>2. IInv /\ [Next]_vars => [Process!Next]_Process!vars
  BY ProcessStep DEF IInv, Process!vars, Ups, Inits, Works, Lives
<1>. QED
  BY <1>1, <1>2, Initially, Inductive, PTL DEF Spec, RespectsProcLife, Process!Spec
===============================================================================
