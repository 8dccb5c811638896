----------------------------- MODULE JobProcProofs -----------------------------
(***************************************************************************)
(* What the status SUCCESS of a job process means, for any bounds.  The    *)
(* property says nothing of a job that still runs, so the invariant        *)
(* follows it: from the answer of the child to initialize, to launch_job,  *)
(* to a StartJobRequest that no ShutdownRequest overtakes, to its end.     *)
(* It also shows that the process keeps what ProcLife promises the pool.   *)
(***************************************************************************)
EXTENDS JobProc, TLAPS

Has(m, s) == \E i \in 1 .. Len(s) : s[i] = m

\* A child that reads s starts its job.
Starts(s) ==
  \E i \in 1 .. Len(s) : s[i] = "start" /\ \A k \in 1 .. i - 1 : s[k] # "shutdown"

\* A child that is not initialized has not answered.
Unready ==
  child \in {"booting", "initializing"} => answer = "none" /\ init # "returned"

\* launch_job follows initialize; what it and aclose send is sent by nobody else.
Requested ==
  /\ launched # "no" => init = "returned"
  /\ job # "none" \/ Has("start", toChild) => launched # "no"
  /\ Has("shutdown", toChild) => closing # "no"

\* A child that answered waits for its job, as long as nothing ends it.
Ready ==
  /\ worker /\ closing = "no" /\ launched = "no" /\ ~starved
  /\ answer = "ready" \/ init = "returned"
  => child \in {"serving", "died"}

\* A job that was launched on an open process is on its way to its end.
GoesOn ==
  worker /\ launched = "launched" /\ ~starved =>
    \/ job \in {"over", "raised", "broken"}
    \/ child = "died"
    \/ child = "serving" /\ job \in {"running", "stopping", "cleaning"}
    \/ child = "serving" /\ job = "none" /\ Starts(toChild)

\* _supervise_task ends after the process.
Outlived == sup = "over" => ~Alive

IInv ==
  /\ TypeOK /\ Unready /\ Requested /\ Ready /\ GoesOn /\ Outlived
  /\ SuccessMeansCleanedUp

-------------------------------------------------------------------------------
Message == {"init", "start", "shutdown", "answer"}

LEMMA HasAppend ==
  ASSUME NEW s \in Seq(Message), NEW m \in Message, NEW n \in Message, Has(m, Append(s, n))
  PROVE  Has(m, s) \/ m = n
BY DEF Has

LEMMA HasTail ==
  ASSUME NEW s \in Seq(Message), NEW m \in Message, s # <<>>, Has(m, Tail(s))
  PROVE  Has(m, s)
<1>1. PICK i \in 1 .. Len(Tail(s)) : Tail(s)[i] = m  BY DEF Has
<1>2. i + 1 \in 1 .. Len(s) /\ s[i + 1] = m  BY <1>1
<1>. QED  BY <1>2 DEF Has

LEMMA HasHead ==
  ASSUME NEW s \in Seq(Message), s # <<>>
  PROVE  Has(Head(s), s)
<1>1. 1 \in 1 .. Len(s) /\ s[1] = Head(s)  OBVIOUS
<1>. QED  BY <1>1 DEF Has

LEMMA StartsAppend ==
  ASSUME NEW s \in Seq(Message), NEW m \in Message, Starts(s)
  PROVE  Starts(Append(s, m))
<1>1. PICK i \in 1 .. Len(s) : s[i] = "start" /\ \A k \in 1 .. i - 1 : s[k] # "shutdown"
  BY DEF Starts
<1>2. i \in 1 .. Len(Append(s, m)) /\ Append(s, m)[i] = "start"  BY <1>1
<1>3. \A k \in 1 .. i - 1 : Append(s, m)[k] # "shutdown"  BY <1>1
<1>. QED  BY <1>2, <1>3 DEF Starts

LEMMA StartsSent ==
  ASSUME NEW s \in Seq(Message), ~Has("shutdown", s)
  PROVE  Starts(Append(s, "start"))
<1>1. Len(s) + 1 \in 1 .. Len(Append(s, "start")) /\ Append(s, "start")[Len(s) + 1] = "start"
  OBVIOUS
<1>2. \A k \in 1 .. (Len(s) + 1) - 1 : Append(s, "start")[k] # "shutdown"
  BY DEF Has
<1>. QED  BY <1>1, <1>2 DEF Starts

LEMMA StartsTail ==
  ASSUME NEW s \in Seq(Message), Starts(s), Head(s) # "start"
  PROVE  s # <<>> /\ Head(s) # "shutdown" /\ Starts(Tail(s))
<1>1. PICK i \in 1 .. Len(s) : s[i] = "start" /\ \A k \in 1 .. i - 1 : s[k] # "shutdown"
  BY DEF Starts
<1>2. i # 1  BY <1>1
<1>3. i - 1 \in 1 .. Len(Tail(s)) /\ Tail(s)[i - 1] = "start"  BY <1>1, <1>2
<1>4. \A k \in 1 .. (i - 1) - 1 : Tail(s)[k] # "shutdown"
  <2>. TAKE k \in 1 .. (i - 1) - 1
  <2>1. k + 1 \in 1 .. i - 1 /\ Tail(s)[k] = s[k + 1]  BY <1>1
  <2>. QED  BY <1>1, <2>1
<1>5. Head(s) # "shutdown"  BY <1>1, <1>2
<1>. QED  BY <1>1, <1>3, <1>4, <1>5 DEF Starts

-------------------------------------------------------------------------------
LEMMA TypeNext ==
  ASSUME TypeOK, [Next]_vars
  PROVE  TypeOK'
<1>. USE JobProcAssumption DEF TypeOK, Fails, Send, Kill, CutOff, procVars, childVars
<1>1. CASE Initialize
  BY <1>1 DEF Initialize
<1>2. CASE InitEnds
  BY <1>2 DEF InitEnds
<1>3. CASE InitTimeout
  BY <1>3 DEF InitTimeout
<1>4. CASE SupServes
  BY <1>4 DEF SupServes
<1>5. CASE SupEnds
  BY <1>5 DEF SupEnds
<1>6. CASE PongTimeout
  BY <1>6 DEF PongTimeout
<1>7. CASE AcloseTimeout
  BY <1>7 DEF AcloseTimeout
<1>8. CASE AcloseReturns
  BY <1>8 DEF AcloseReturns
<1>9. CASE InferenceStarts
  BY <1>9 DEF InferenceStarts
<1>10. CASE InferenceEnds
  BY <1>10 DEF InferenceEnds
<1>11. CASE ClientReads
  BY <1>11 DEF ClientReads
<1>12. CASE ClientInitializes
  BY <1>12 DEF ClientInitializes
<1>13. CASE ChildReads
  BY <1>13 DEF ChildReads
<1>14. CASE ChildIsOrphan
  BY <1>14 DEF ChildIsOrphan
<1>15. CASE JobStops
  BY <1>15 DEF JobStops
<1>16. CASE LaunchJob
  BY <1>16 DEF LaunchJob
<1>17. CASE Aclose
  BY <1>17 DEF Aclose
<1>18. CASE MemoryKill
  BY <1>18 DEF MemoryKill
<1>19. CASE InferenceLost
  BY <1>19 DEF InferenceLost
<1>20. CASE HealthCheck
  BY <1>20 DEF HealthCheck
<1>21. CASE JobShutsDown
  BY <1>21 DEF JobShutsDown
<1>22. CASE JobCleans
  BY <1>22 DEF JobCleans
<1>23. CASE JobAsks
  BY <1>23 DEF JobAsks
<1>24. CASE Crash
  BY <1>24 DEF Crash
<1>25. CASE Hang
  BY <1>25 DEF Hang
<1>26. CASE WorkerDies
  <2>1. failures' \in 0 .. MaxFailures  BY <1>26 DEF WorkerDies
  <2>2. worker' \in BOOLEAN  BY <1>26 DEF WorkerDies
  <2>3. UNCHANGED <<procVars, toChild, answer, childVars, asked, asks>>  BY <1>26 DEF WorkerDies
  <2>. QED  BY <2>1, <2>2, <2>3
<1>27. CASE UNCHANGED vars
  BY <1>27 DEF vars
<1>28. CASE JobBreaks
  BY <1>28 DEF JobBreaks, Fails
<1>. QED
  BY <1>1, <1>2, <1>3, <1>4, <1>5, <1>6, <1>7, <1>8, <1>9,
     <1>10, <1>11, <1>12, <1>13, <1>14, <1>15, <1>16, <1>17, <1>18,
     <1>19, <1>20, <1>21, <1>22, <1>23, <1>24, <1>25, <1>26, <1>27, <1>28
  DEF Next, Runs

LEMMA UnreadyNext ==
  ASSUME TypeOK, Unready, [Next]_vars
  PROVE  Unready'
<1>. USE JobProcAssumption DEF TypeOK, Unready, Kill, Alive, procVars, childVars
<1>1. CASE Initialize
  BY <1>1 DEF Initialize
<1>2. CASE InitEnds
  BY <1>2 DEF InitEnds
<1>3. CASE InitTimeout
  BY <1>3 DEF InitTimeout
<1>4. CASE SupServes
  BY <1>4 DEF SupServes
<1>5. CASE SupEnds
  BY <1>5 DEF SupEnds
<1>6. CASE PongTimeout
  BY <1>6 DEF PongTimeout
<1>7. CASE AcloseTimeout
  BY <1>7 DEF AcloseTimeout
<1>8. CASE AcloseReturns
  BY <1>8 DEF AcloseReturns
<1>9. CASE InferenceStarts
  BY <1>9 DEF InferenceStarts
<1>10. CASE InferenceEnds
  BY <1>10 DEF InferenceEnds
<1>11. CASE ClientReads
  BY <1>11 DEF ClientReads
<1>12. CASE ClientInitializes
  BY <1>12 DEF ClientInitializes
<1>13. CASE ChildReads
  BY <1>13 DEF ChildReads
<1>14. CASE ChildIsOrphan
  BY <1>14 DEF ChildIsOrphan
<1>15. CASE JobStops
  BY <1>15 DEF JobStops
<1>16. CASE LaunchJob
  BY <1>16 DEF LaunchJob
<1>17. CASE Aclose
  BY <1>17 DEF Aclose
<1>18. CASE MemoryKill
  BY <1>18 DEF MemoryKill
<1>19. CASE InferenceLost
  BY <1>19 DEF InferenceLost
<1>20. CASE HealthCheck
  BY <1>20 DEF HealthCheck
<1>21. CASE JobShutsDown
  BY <1>21 DEF JobShutsDown
<1>22. CASE JobCleans
  BY <1>22 DEF JobCleans
<1>23. CASE JobAsks
  BY <1>23 DEF JobAsks
<1>24. CASE Crash
  BY <1>24 DEF Crash
<1>25. CASE Hang
  BY <1>25 DEF Hang
<1>26. CASE WorkerDies
  BY <1>26 DEF WorkerDies
<1>27. CASE UNCHANGED vars
  BY <1>27 DEF vars
<1>28. CASE JobBreaks
  BY <1>28 DEF JobBreaks, Fails
<1>. QED
  BY <1>1, <1>2, <1>3, <1>4, <1>5, <1>6, <1>7, <1>8, <1>9,
     <1>10, <1>11, <1>12, <1>13, <1>14, <1>15, <1>16, <1>17, <1>18,
     <1>19, <1>20, <1>21, <1>22, <1>23, <1>24, <1>25, <1>26, <1>27, <1>28
  DEF Next, Runs

LEMMA OutlivedNext ==
  ASSUME TypeOK, Outlived, [Next]_vars
  PROVE  Outlived'
<1>. USE JobProcAssumption DEF TypeOK, Outlived, Kill, Alive, procVars, childVars
<1>1. CASE Initialize
  BY <1>1 DEF Initialize
<1>2. CASE InitEnds
  BY <1>2 DEF InitEnds
<1>3. CASE InitTimeout
  BY <1>3 DEF InitTimeout
<1>4. CASE SupServes
  BY <1>4 DEF SupServes
<1>5. CASE SupEnds
  BY <1>5 DEF SupEnds
<1>6. CASE PongTimeout
  BY <1>6 DEF PongTimeout
<1>7. CASE AcloseTimeout
  BY <1>7 DEF AcloseTimeout
<1>8. CASE AcloseReturns
  BY <1>8 DEF AcloseReturns
<1>9. CASE InferenceStarts
  BY <1>9 DEF InferenceStarts
<1>10. CASE InferenceEnds
  BY <1>10 DEF InferenceEnds
<1>11. CASE ClientReads
  BY <1>11 DEF ClientReads
<1>12. CASE ClientInitializes
  BY <1>12 DEF ClientInitializes
<1>13. CASE ChildReads
  BY <1>13 DEF ChildReads
<1>14. CASE ChildIsOrphan
  BY <1>14 DEF ChildIsOrphan
<1>15. CASE JobStops
  BY <1>15 DEF JobStops
<1>16. CASE LaunchJob
  BY <1>16 DEF LaunchJob
<1>17. CASE Aclose
  BY <1>17 DEF Aclose
<1>18. CASE MemoryKill
  BY <1>18 DEF MemoryKill
<1>19. CASE InferenceLost
  BY <1>19 DEF InferenceLost
<1>20. CASE HealthCheck
  BY <1>20 DEF HealthCheck
<1>21. CASE JobShutsDown
  BY <1>21 DEF JobShutsDown
<1>22. CASE JobCleans
  BY <1>22 DEF JobCleans
<1>23. CASE JobAsks
  BY <1>23 DEF JobAsks
<1>24. CASE Crash
  BY <1>24 DEF Crash
<1>25. CASE Hang
  BY <1>25 DEF Hang
<1>26. CASE WorkerDies
  BY <1>26 DEF WorkerDies
<1>27. CASE UNCHANGED vars
  BY <1>27 DEF vars
<1>28. CASE JobBreaks
  BY <1>28 DEF JobBreaks, Fails
<1>. QED
  BY <1>1, <1>2, <1>3, <1>4, <1>5, <1>6, <1>7, <1>8, <1>9,
     <1>10, <1>11, <1>12, <1>13, <1>14, <1>15, <1>16, <1>17, <1>18,
     <1>19, <1>20, <1>21, <1>22, <1>23, <1>24, <1>25, <1>26, <1>27, <1>28
  DEF Next, Runs

LEMMA RequestedNext ==
  ASSUME TypeOK, Requested, [Next]_vars
  PROVE  Requested'
<1>. USE DEF TypeOK, Requested, Kill, CutOff, procVars, childVars
<1>1. CASE Initialize
  <2>1. \A m \in Message : Has(m, toChild') => Has(m, toChild) \/ m = "init"
    BY <1>1, HasAppend DEF Initialize, Send, Message
  <2>. QED  BY <1>1, <2>1 DEF Initialize, Message
<1>2. CASE InitEnds
  BY <1>2 DEF InitEnds
<1>3. CASE InitTimeout
  BY <1>3 DEF InitTimeout
<1>4. CASE SupServes
  BY <1>4 DEF SupServes
<1>5. CASE SupEnds
  BY <1>5 DEF SupEnds
<1>6. CASE PongTimeout
  BY <1>6 DEF PongTimeout
<1>7. CASE AcloseTimeout
  BY <1>7 DEF AcloseTimeout
<1>8. CASE AcloseReturns
  BY <1>8 DEF AcloseReturns
<1>9. CASE InferenceStarts
  BY <1>9 DEF InferenceStarts
<1>10. CASE InferenceEnds
  <2>1. \A m \in Message : Has(m, toChild') => Has(m, toChild) \/ m = "answer"
    BY <1>10, HasAppend DEF InferenceEnds, Send, Message
  <2>. QED  BY <1>10, <2>1 DEF InferenceEnds, Message
<1>11. CASE ClientReads
  <2>1. \A m \in Message : Has(m, toChild') => Has(m, toChild)
    BY <1>11, HasTail DEF ClientReads, Message
  <2>. QED  BY <1>11, <2>1, HasHead DEF ClientReads, Message
<1>12. CASE ClientInitializes
  BY <1>12 DEF ClientInitializes
<1>13. CASE ChildReads
  <2>1. \A m \in Message : Has(m, toChild') => Has(m, toChild)
    BY <1>13, HasTail DEF ChildReads, Message
  <2>. QED  BY <1>13, <2>1, HasHead DEF ChildReads, Message
<1>14. CASE ChildIsOrphan
  BY <1>14 DEF ChildIsOrphan
<1>15. CASE JobStops
  BY <1>15 DEF JobStops
<1>16. CASE LaunchJob
  <2>1. \A m \in Message : Has(m, toChild') => Has(m, toChild) \/ m = "start"
    BY <1>16, HasAppend DEF LaunchJob, Send, Message
  <2>. QED  BY <1>16, <2>1 DEF LaunchJob, Message
<1>17. CASE Aclose
  <2>1. \A m \in Message : Has(m, toChild') => Has(m, toChild) \/ m = "shutdown"
    BY <1>17, HasAppend DEF Aclose, Send, Message
  <2>. QED  BY <1>17, <2>1 DEF Aclose, Message
<1>18. CASE MemoryKill
  BY <1>18 DEF MemoryKill
<1>19. CASE InferenceLost
  BY <1>19 DEF InferenceLost
<1>20. CASE HealthCheck
  BY <1>20 DEF HealthCheck
<1>21. CASE JobShutsDown
  BY <1>21 DEF JobShutsDown
<1>22. CASE JobCleans
  BY <1>22 DEF JobCleans
<1>23. CASE JobAsks
  BY <1>23 DEF JobAsks
<1>24. CASE Crash
  BY <1>24 DEF Crash
<1>25. CASE Hang
  BY <1>25 DEF Hang
<1>26. CASE WorkerDies
  BY <1>26 DEF WorkerDies
<1>27. CASE UNCHANGED vars
  BY <1>27 DEF vars
<1>28. CASE JobBreaks
  BY <1>28 DEF JobBreaks, Fails
<1>. QED
  BY <1>1, <1>2, <1>3, <1>4, <1>5, <1>6, <1>7, <1>8, <1>9,
     <1>10, <1>11, <1>12, <1>13, <1>14, <1>15, <1>16, <1>17, <1>18,
     <1>19, <1>20, <1>21, <1>22, <1>23, <1>24, <1>25, <1>26, <1>27, <1>28
  DEF Next, Runs

LEMMA ReadyNext ==
  ASSUME TypeOK, Unready, Requested, Ready, [Next]_vars
  PROVE  Ready'
<1>. USE DEF TypeOK, Unready, Requested, Ready, Kill, CutOff, Alive, procVars, childVars
<1>1. CASE Initialize
  BY <1>1 DEF Initialize
<1>2. CASE InitEnds
  BY <1>2 DEF InitEnds
<1>3. CASE InitTimeout
  BY <1>3 DEF InitTimeout
<1>4. CASE SupServes
  BY <1>4 DEF SupServes
<1>5. CASE SupEnds
  BY <1>5 DEF SupEnds
<1>6. CASE PongTimeout
  BY <1>6 DEF PongTimeout
<1>7. CASE AcloseTimeout
  BY <1>7 DEF AcloseTimeout
<1>8. CASE AcloseReturns
  BY <1>8 DEF AcloseReturns
<1>9. CASE InferenceStarts
  BY <1>9 DEF InferenceStarts
<1>10. CASE InferenceEnds
  BY <1>10 DEF InferenceEnds
<1>11. CASE ClientReads
  BY <1>11 DEF ClientReads
<1>12. CASE ClientInitializes
  BY <1>12 DEF ClientInitializes
<1>13. CASE ChildReads
  <2>1. Has(Head(toChild), toChild)  BY <1>13, HasHead DEF ChildReads, Message
  <2>. QED  BY <1>13, <2>1 DEF ChildReads, Message
<1>14. CASE ChildIsOrphan
  BY <1>14 DEF ChildIsOrphan
<1>15. CASE JobStops
  BY <1>15 DEF JobStops
<1>16. CASE LaunchJob
  BY <1>16 DEF LaunchJob
<1>17. CASE Aclose
  BY <1>17 DEF Aclose
<1>18. CASE MemoryKill
  BY <1>18 DEF MemoryKill
<1>19. CASE InferenceLost
  BY <1>19 DEF InferenceLost
<1>20. CASE HealthCheck
  BY <1>20 DEF HealthCheck
<1>21. CASE JobShutsDown
  BY <1>21 DEF JobShutsDown
<1>22. CASE JobCleans
  BY <1>22 DEF JobCleans
<1>23. CASE JobAsks
  BY <1>23 DEF JobAsks
<1>24. CASE Crash
  BY <1>24 DEF Crash
<1>25. CASE Hang
  BY <1>25 DEF Hang
<1>26. CASE WorkerDies
  BY <1>26 DEF WorkerDies
<1>27. CASE UNCHANGED vars
  BY <1>27 DEF vars
<1>28. CASE JobBreaks
  BY <1>28 DEF JobBreaks, Fails
<1>. QED
  BY <1>1, <1>2, <1>3, <1>4, <1>5, <1>6, <1>7, <1>8, <1>9,
     <1>10, <1>11, <1>12, <1>13, <1>14, <1>15, <1>16, <1>17, <1>18,
     <1>19, <1>20, <1>21, <1>22, <1>23, <1>24, <1>25, <1>26, <1>27, <1>28
  DEF Next, Runs

LEMMA GoesOnNext ==
  ASSUME TypeOK, Requested, Ready, GoesOn, [Next]_vars
  PROVE  GoesOn'
<1>. USE DEF TypeOK, GoesOn, Kill, CutOff, Alive, procVars, childVars
<1>1. CASE Initialize
  <2>1. Starts(toChild) => Starts(toChild')
    BY <1>1, StartsAppend DEF Initialize, Send, Message
  <2>. QED  BY <1>1, <2>1 DEF Initialize
<1>2. CASE InitEnds
  BY <1>2 DEF InitEnds
<1>3. CASE InitTimeout
  BY <1>3 DEF InitTimeout
<1>4. CASE SupServes
  BY <1>4 DEF SupServes
<1>5. CASE SupEnds
  BY <1>5 DEF SupEnds
<1>6. CASE PongTimeout
  BY <1>6 DEF PongTimeout
<1>7. CASE AcloseTimeout
  BY <1>7 DEF AcloseTimeout
<1>8. CASE AcloseReturns
  BY <1>8 DEF AcloseReturns
<1>9. CASE InferenceStarts
  BY <1>9 DEF InferenceStarts
<1>10. CASE InferenceEnds
  <2>1. Starts(toChild) => Starts(toChild')
    BY <1>10, StartsAppend DEF InferenceEnds, Send, Message
  <2>. QED  BY <1>10, <2>1 DEF InferenceEnds
<1>11. CASE ClientReads
  BY <1>11 DEF ClientReads
<1>12. CASE ClientInitializes
  BY <1>12 DEF ClientInitializes
<1>13. CASE ChildReads
  <2>1. Starts(toChild) /\ Head(toChild) # "start"
          => Head(toChild) # "shutdown" /\ Starts(toChild')
    BY <1>13, StartsTail DEF ChildReads, Message
  <2>. QED  BY <1>13, <2>1 DEF ChildReads
<1>14. CASE ChildIsOrphan
  BY <1>14 DEF ChildIsOrphan
<1>15. CASE JobStops
  BY <1>15 DEF JobStops
<1>16. CASE LaunchJob
  <2>. SUFFICES ASSUME closing = "no", ~starved
                PROVE  \/ child = "died"
                       \/ child = "serving" /\ job = "none" /\ Starts(toChild')
    BY <1>16 DEF LaunchJob
  <2>1. child \in {"serving", "died"} /\ job = "none" /\ ~Has("shutdown", toChild)
    BY <1>16 DEF LaunchJob, Requested, Ready
  <2>2. child = "serving" => Starts(toChild')
    BY <1>16, <2>1, StartsSent DEF LaunchJob, Send, Message
  <2>. QED  BY <1>16, <2>1, <2>2 DEF LaunchJob
<1>17. CASE Aclose
  <2>1. Starts(toChild) => Starts(toChild')
    BY <1>17, StartsAppend DEF Aclose, Send, Message
  <2>. QED  BY <1>17, <2>1 DEF Aclose
<1>18. CASE MemoryKill
  BY <1>18 DEF MemoryKill
<1>19. CASE InferenceLost
  BY <1>19 DEF InferenceLost
<1>20. CASE HealthCheck
  BY <1>20 DEF HealthCheck
<1>21. CASE JobShutsDown
  BY <1>21 DEF JobShutsDown
<1>22. CASE JobCleans
  BY <1>22 DEF JobCleans
<1>23. CASE JobAsks
  BY <1>23 DEF JobAsks
<1>24. CASE Crash
  BY <1>24 DEF Crash
<1>25. CASE Hang
  BY <1>25 DEF Hang
<1>26. CASE WorkerDies
  BY <1>26 DEF WorkerDies
<1>27. CASE UNCHANGED vars
  BY <1>27 DEF vars
<1>28. CASE JobBreaks
  BY <1>28 DEF JobBreaks, Fails
<1>. QED
  BY <1>1, <1>2, <1>3, <1>4, <1>5, <1>6, <1>7, <1>8, <1>9,
     <1>10, <1>11, <1>12, <1>13, <1>14, <1>15, <1>16, <1>17, <1>18,
     <1>19, <1>20, <1>21, <1>22, <1>23, <1>24, <1>25, <1>26, <1>27, <1>28
  DEF Next, Runs

LEMMA StatusNext ==
  ASSUME TypeOK, Outlived, GoesOn, GoesOn', Outlived', SuccessMeansCleanedUp, [Next]_vars
  PROVE  SuccessMeansCleanedUp'
<1>. USE DEF TypeOK, Outlived, GoesOn, SuccessMeansCleanedUp, Succeeded, Kill, CutOff, Alive, procVars, childVars
<1>1. CASE Initialize
  BY <1>1 DEF Initialize
<1>2. CASE InitEnds
  BY <1>2 DEF InitEnds
<1>3. CASE InitTimeout
  BY <1>3 DEF InitTimeout
<1>4. CASE SupServes
  BY <1>4 DEF SupServes
<1>5. CASE SupEnds
  BY <1>5 DEF SupEnds
<1>6. CASE PongTimeout
  BY <1>6 DEF PongTimeout
<1>7. CASE AcloseTimeout
  BY <1>7 DEF AcloseTimeout
<1>8. CASE AcloseReturns
  BY <1>8 DEF AcloseReturns
<1>9. CASE InferenceStarts
  BY <1>9 DEF InferenceStarts
<1>10. CASE InferenceEnds
  BY <1>10 DEF InferenceEnds
<1>11. CASE ClientReads
  BY <1>11 DEF ClientReads
<1>12. CASE ClientInitializes
  BY <1>12 DEF ClientInitializes
<1>13. CASE ChildReads
  BY <1>13 DEF ChildReads
<1>14. CASE ChildIsOrphan
  BY <1>14 DEF ChildIsOrphan
<1>15. CASE JobStops
  BY <1>15 DEF JobStops
<1>16. CASE LaunchJob
  BY <1>16 DEF LaunchJob
<1>17. CASE Aclose
  BY <1>17 DEF Aclose
<1>18. CASE MemoryKill
  BY <1>18 DEF MemoryKill
<1>19. CASE InferenceLost
  BY <1>19 DEF InferenceLost
<1>20. CASE HealthCheck
  BY <1>20 DEF HealthCheck
<1>21. CASE JobShutsDown
  BY <1>21 DEF JobShutsDown
<1>22. CASE JobCleans
  BY <1>22 DEF JobCleans
<1>23. CASE JobAsks
  BY <1>23 DEF JobAsks
<1>24. CASE Crash
  BY <1>24 DEF Crash
<1>25. CASE Hang
  BY <1>25 DEF Hang
<1>26. CASE WorkerDies
  BY <1>26 DEF WorkerDies
<1>27. CASE UNCHANGED vars
  BY <1>27 DEF vars
<1>28. CASE JobBreaks
  BY <1>28 DEF JobBreaks, Fails
<1>. QED
  BY <1>1, <1>2, <1>3, <1>4, <1>5, <1>6, <1>7, <1>8, <1>9,
     <1>10, <1>11, <1>12, <1>13, <1>14, <1>15, <1>16, <1>17, <1>18,
     <1>19, <1>20, <1>21, <1>22, <1>23, <1>24, <1>25, <1>26, <1>27, <1>28
  DEF Next, Runs

-------------------------------------------------------------------------------
LEMMA TypeInit ==
  ASSUME Init
  PROVE  TypeOK
<1>1. 0 \in 0 .. MaxAsks /\ 0 \in 0 .. MaxFailures  BY JobProcAssumption
<1>2. worker \in BOOLEAN /\ stuck \in BOOLEAN /\ starved \in BOOLEAN  BY DEF Init
<1>3. toChild \in Seq({"init", "start", "shutdown", "answer"})  BY DEF Init
<1>. QED  BY <1>1, <1>2, <1>3 DEF Init, TypeOK

LEMMA Initially ==
  ASSUME Init
  PROVE  IInv
<1>1. TypeOK  BY TypeInit
<1>2. Unready /\ Requested /\ Ready
  BY DEF Init, Unready, Requested, Ready, Has
<1>3. GoesOn /\ Outlived /\ SuccessMeansCleanedUp
  BY DEF Init, GoesOn, Outlived, SuccessMeansCleanedUp, Succeeded
<1>. QED  BY <1>1, <1>2, <1>3 DEF IInv

LEMMA Inductive ==
  ASSUME IInv, [Next]_vars
  PROVE  IInv'
<1>. USE DEF IInv
<1>1. TypeOK'  BY TypeNext
<1>2. Unready'  BY UnreadyNext
<1>3. Requested'  BY RequestedNext
<1>4. Ready'  BY ReadyNext
<1>5. GoesOn'  BY GoesOnNext
<1>6. Outlived'  BY OutlivedNext
<1>7. SuccessMeansCleanedUp'  BY <1>5, <1>6, StatusNext
<1>. QED  BY <1>1, <1>2, <1>3, <1>4, <1>5, <1>6, <1>7

\* Every variable keeps its type, for any number of inference requests and failures.
THEOREM TypeCorrect == Spec => []TypeOK
<1>1. Init => TypeOK  BY TypeInit
<1>2. TypeOK /\ [Next]_vars => TypeOK'  BY TypeNext
<1>. QED  BY <1>1, <1>2, PTL DEF Spec

\* A job whose status is SUCCESS ran until its shutdown callbacks were done or one raised,
\* but for the three cases the property names, for any inference requests and failures.
THEOREM SuccessIsTruthful == Spec => []SuccessMeansCleanedUp
<1>1. Init => IInv  BY Initially
<1>2. IInv /\ [Next]_vars => IInv'  BY Inductive
<1>3. IInv => SuccessMeansCleanedUp  BY DEF IInv
<1>. QED  BY <1>1, <1>2, <1>3, PTL DEF Spec
-------------------------------------------------------------------------------
\* What the pool sees of the process.  A job that is over has taken its process with it.
Gone == job \in {"over", "raised", "broken", "cut"} => ~Alive

LEMMA GoneNext ==
  ASSUME TypeOK, Gone, [Next]_vars
  PROVE  Gone' /\ (Alive' => Alive)
<1>. DEFINE Goal == Gone' /\ (Alive' => Alive)
<1>. SUFFICES Goal  OBVIOUS
<1>. USE DEF TypeOK, Gone, Alive, Kill, CutOff, procVars, childVars
<1>1. ASSUME UNCHANGED <<child, job>>
      PROVE  Goal
  BY <1>1
<1>2. CASE \/ Initialize \/ InitEnds \/ SupServes \/ SupEnds \/ LaunchJob \/ Aclose
           \/ AcloseReturns \/ InferenceStarts \/ InferenceEnds \/ InferenceLost
           \/ JobAsks \/ Hang \/ WorkerDies \/ UNCHANGED vars
  BY <1>1, <1>2 DEF Initialize, InitEnds, SupServes, SupEnds, LaunchJob, Aclose, AcloseReturns,
                    InferenceStarts, InferenceEnds, InferenceLost, JobAsks, Hang, WorkerDies, vars
<1>3. ASSUME Kill
      PROVE  Goal
  BY <1>3
<1>4. CASE InitTimeout \/ PongTimeout \/ MemoryKill \/ AcloseTimeout \/ Crash
  <2>1. Kill
    BY <1>4 DEF InitTimeout, PongTimeout, MemoryKill, AcloseTimeout, Crash
  <2>. QED  BY <1>3, <2>1
<1>5. CASE ClientReads \/ ClientInitializes
  BY <1>5 DEF ClientReads, ClientInitializes
<1>6. CASE ChildReads
  BY <1>6 DEF ChildReads
<1>7. CASE ChildIsOrphan \/ HealthCheck
  BY <1>7 DEF ChildIsOrphan, HealthCheck
<1>8. CASE JobShutsDown \/ JobStops \/ JobBreaks \/ JobCleans
  BY <1>8 DEF JobShutsDown, JobStops, JobBreaks, JobCleans
<1>. HIDE DEF Goal
<1>. QED  BY <1>2, <1>4, <1>5, <1>6, <1>7, <1>8 DEF Next, Runs

\* Who changes what the pool knows of initialize and of the job.
LEMMA OthersKeepQuiet ==
  ASSUME [Next]_vars
  PROVE  \/ UNCHANGED <<init, launched>>
         \/ Initialize \/ InitEnds \/ InitTimeout \/ LaunchJob
<1>. DEFINE Goal == UNCHANGED <<init, launched>>
<1>. USE DEF procVars
<1>1. CASE SupServes \/ SupEnds \/ PongTimeout \/ MemoryKill \/ Aclose \/ AcloseTimeout
           \/ AcloseReturns
  BY <1>1 DEF SupServes, SupEnds, PongTimeout, MemoryKill, Aclose, AcloseTimeout, AcloseReturns
<1>2. CASE InferenceStarts \/ InferenceEnds \/ InferenceLost \/ JobAsks \/ JobShutsDown
           \/ JobStops \/ JobBreaks \/ JobCleans
  BY <1>2 DEF InferenceStarts, InferenceEnds, InferenceLost, JobAsks, JobShutsDown, JobStops,
              JobBreaks, JobCleans
<1>3. CASE ClientReads \/ ClientInitializes \/ ChildReads \/ ChildIsOrphan \/ HealthCheck
  BY <1>3 DEF ClientReads, ClientInitializes, ChildReads, ChildIsOrphan, HealthCheck
<1>4. CASE Crash \/ Hang \/ WorkerDies \/ UNCHANGED vars
  BY <1>4 DEF Crash, Hang, WorkerDies, vars
<1>. QED  BY <1>1, <1>2, <1>3, <1>4 DEF Next, Runs

Ups   == IF Alive THEN {Self} ELSE {}
Inits == [p \in {Self} |-> Initialized]
Works == [p \in {Self} |-> Work]

LEMMA LifeStep ==
  ASSUME TypeOK, Requested, Gone, [Next]_vars
  PROVE  Life!Next \/ UNCHANGED <<Ups, Inits, Works>>
<1>. DEFINE Goal == Life!Next \/ UNCHANGED <<Ups, Inits, Works>>
<1>. SUFFICES Goal  OBVIOUS
<1>1. Gone' /\ (Alive' => Alive)
  BY GoneNext
<1>2. /\ Work = IF launched = "no" THEN "none" ELSE IF Alive THEN "running" ELSE "over"
      /\ Work' = IF launched' = "no" THEN "none" ELSE IF Alive' THEN "running" ELSE "over"
  BY <1>1 DEF Gone, Work
<1>3. ASSUME UNCHANGED <<init, launched>>
      PROVE  Goal
  <2>1. Inits' = Inits  BY <1>3 DEF Inits, Initialized
  <2>2. CASE Alive' \/ ~Alive
    <3>1. Work' = Work  BY <1>1, <1>2, <1>3, <2>2
    <3>2. Ups' = Ups  BY <1>1, <2>2 DEF Ups
    <3>. QED  BY <2>1, <3>1, <3>2 DEF Works
  <2>3. CASE Alive /\ ~Alive'
    <3>1. Ups = {Self} /\ Ups' = {}  BY <2>3 DEF Ups
    <3>2. Work' = IF Work = "running" THEN "over" ELSE Work  BY <1>2, <1>3, <2>3
    <3>3. Works' = [Works EXCEPT ![Self] = IF @ = "running" THEN "over" ELSE @]
      BY <3>2 DEF Works
    <3>4. Life!IsGone(Self)
      BY <2>1, <3>1, <3>3 DEF Life!IsGone, Ups, Inits, Works
    <3>. QED  BY <3>4 DEF Life!Next
  <2>. QED  BY <2>2, <2>3
<1>4. CASE Initialize
  <2>1. init = "new" /\ launched = "no" /\ UNCHANGED <<launched, child, job>>
    BY <1>4 DEF Initialize, Requested, childVars, procVars
  <2>2. UNCHANGED <<Ups, Works>>  BY <2>1 DEF Ups, Works, Work, Alive
  <2>3. CASE init' = "waiting"
    <3>1. Inits' = Inits  BY <2>1, <2>3 DEF Inits, Initialized
    <3>. QED  BY <2>2, <3>1
  <2>4. CASE init' = "unsent" /\ ~Alive
    <3>1. Initialized = "pending" /\ Initialized' = "unsent"  BY <2>1, <2>4 DEF Initialized
    <3>2. Inits[Self] = "pending" /\ Inits' = [Inits EXCEPT ![Self] = "unsent"]
      BY <3>1 DEF Inits
    <3>3. Self \notin Ups  BY <2>4 DEF Ups
    <3>4. Life!IsUnsent(Self)
      BY <2>2, <3>2, <3>3 DEF Life!IsUnsent, Ups, Inits, Works
    <3>. QED  BY <3>4 DEF Life!Next
  <2>. QED  BY <1>4, <2>3, <2>4 DEF Initialize
<1>5. ASSUME init = "waiting", init' \in {"returned", "raised"}, UNCHANGED launched,
             init' = "returned" => UNCHANGED child
      PROVE  Goal
  <2>1. Initialized = "pending"  BY <1>5 DEF Initialized
  <2>2. launched = "no"  BY <1>5 DEF Requested
  <2>3. Works' = Works  BY <1>2, <1>5, <2>2 DEF Works
  <2>4. CASE init' = "returned"
    <3>1. Initialized' = "ready"  BY <2>4 DEF Initialized
    <3>2. Inits[Self] = "pending" /\ Inits' = [Inits EXCEPT ![Self] = "ready"]
      BY <2>1, <3>1 DEF Inits
    <3>3. Ups' = Ups  BY <1>5, <2>4 DEF Ups, Alive
    <3>4. Life!IsReady(Self)
      BY <2>3, <3>2, <3>3 DEF Life!IsReady, Ups, Inits, Works
    <3>. QED  BY <3>4 DEF Life!Next
  <2>5. CASE init' = "raised"
    <3>1. Initialized' = "failed"  BY <2>5 DEF Initialized
    <3>2. Inits[Self] = "pending" /\ Inits' = [Inits EXCEPT ![Self] = "failed"]
      BY <2>1, <3>1 DEF Inits
    <3>3. Ups' \in {Ups, Ups \ {Self}}  BY <1>1 DEF Ups
    <3>4. Life!IsFailed(Self)
      BY <2>3, <3>2, <3>3 DEF Life!IsFailed, Ups, Inits, Works
    <3>. QED  BY <3>4 DEF Life!Next
  <2>. QED  BY <1>5, <2>4, <2>5
<1>6. CASE InitEnds
  BY <1>5, <1>6 DEF InitEnds, childVars
<1>7. CASE InitTimeout
  BY <1>5, <1>7 DEF InitTimeout
<1>8. CASE LaunchJob
  <2>1. init = "returned" /\ launched = "no" /\ launched' # "no" /\ UNCHANGED <<init, child, job>>
    BY <1>8 DEF LaunchJob, childVars
  <2>2. UNCHANGED <<Ups, Inits>>  BY <2>1 DEF Ups, Inits, Alive, Initialized
  <2>3. Inits[Self] = "ready"  BY <2>1 DEF Inits, Initialized
  <2>4. Work = "none" /\ Work' = IF Alive' THEN "running" ELSE "over"  BY <1>2, <2>1
  <2>5. Works[Self] = "none" /\ Works' = [Works EXCEPT ![Self] = Work']
    BY <2>4 DEF Works
  <2>6. Alive' => Self \in Ups  BY <1>1 DEF Ups
  <2>7. Life!IsGiven(Self)
    BY <2>2, <2>3, <2>4, <2>5, <2>6 DEF Life!IsGiven, Ups, Inits, Works
  <2>. QED  BY <2>7 DEF Life!Next
<1>. HIDE DEF Goal
<1>. QED  BY <1>3, <1>4, <1>6, <1>7, <1>8, OthersKeepQuiet

\* A job process keeps what the pool relies on, for any failures: one end of initialize, no
\* job before it, no return of a process that is gone, and the end of the job with its process.
THEOREM KeepsItsLife == Spec => KeepsProcLife
<1>1. Init => IInv /\ Gone /\ Life!Init
  <2>. SUFFICES ASSUME Init PROVE IInv /\ Gone /\ Life!Init  OBVIOUS
  <2>1. Alive /\ Gone  BY DEF Init, Alive, Gone
  <2>2. Initialized = "pending" /\ Work = "none"  BY DEF Init, Initialized, Work
  <2>. QED  BY <2>1, <2>2, Initially DEF Life!Init
<1>2. IInv /\ Gone /\ [Next]_vars => IInv' /\ Gone'
  BY Inductive, GoneNext DEF IInv
<1>3. IInv /\ Gone /\ [Next]_vars => [Life!Next]_Life!vars
  BY LifeStep DEF IInv, Life!vars, Ups, Inits, Works
<1>. QED
  BY <1>1, <1>2, <1>3, PTL DEF Spec, KeepsProcLife, Life!Spec
===============================================================================
