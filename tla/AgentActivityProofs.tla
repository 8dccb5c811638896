-------------------------- MODULE AgentActivityProofs --------------------------
(***************************************************************************)
(* Theorems about AgentActivity, for any number of speeches, user turns    *)
(* and tool steps.  QueueInv says where a speech is between its creation   *)
(* and its authorization, TaskInv relates the tasks to the futures of      *)
(* their handles, EndInv says what holds once _main_task has ended.        *)
(***************************************************************************)
EXTENDS AgentActivity, SequenceTheorems, TLAPS

LEMMA TypeInit == Init => TypeOK
<1> SUFFICES ASSUME Init PROVE TypeOK
  OBVIOUS
<1>1. speechQ \in Seq(Speeches)
  BY EmptySeq DEF Init
<1>2. /\ allow \in [Speeches -> BOOLEAN]
      /\ draining \in BOOLEAN /\ updated \in BOOLEAN /\ closed \in BOOLEAN
  BY DEF Init
<1>3. /\ created \in 0 .. MaxSpeeches /\ current \in 0 .. MaxSpeeches
      /\ turns \in 0 .. MaxTurns
      /\ step \in [Speeches -> 0 .. MaxToolSteps]
  BY ActivityAssumption DEF Init
<1>4. /\ task \in [Speeches -> {"none", "authorizing", "playing", "stopping", "tools", "ended"}]
      /\ turn \in [Turns -> {"none", "queued", "callback", "ended"}]
      /\ hooks \subseteq Hooks
  BY DEF Init, Hooks
<1>5. /\ main \in {"waiting", "playing", "ended", "cancelled"}
      /\ drain \in {"no", "waiting", "returned"}
      /\ toolless = {} /\ interrupted = {} /\ authorized = {} /\ done = {} /\ orphans = {}
  BY DEF Init
<1> QED BY <1>1, <1>2, <1>3, <1>4, <1>5 DEF TypeOK

\* Pushing the next handle, or not.
LEMMA ScheduleSpeechType ==
  ASSUME TypeOK, NEW h \in Speeches, NEW bypass \in BOOLEAN, ScheduleSpeech(h, bypass)
  PROVE  speechQ' \in Seq(Speeches) /\ orphans' \subseteq Speeches
<1>1. speechQ \in Seq(Speeches) /\ orphans \subseteq Speeches
  BY DEF TypeOK
<1>2. Append(speechQ, h) \in Seq(Speeches)
  BY <1>1, AppendProperties
<1> QED BY <1>1, <1>2 DEF ScheduleSpeech

LEMMA CreateSpeechType ==
  ASSUME TypeOK, NEW may \in BOOLEAN, NEW stp \in 0 .. MaxToolSteps,
         NEW noTools \in BOOLEAN,
         CreateSpeech(may, stp, noTools)
  PROVE  /\ created' = created + 1 /\ created' \in Speeches
         /\ created' \in 0 .. MaxSpeeches
         /\ allow' \in [Speeches -> BOOLEAN]
         /\ step' \in [Speeches -> 0 .. MaxToolSteps]
         /\ toolless' \subseteq Speeches
<1>1. created' = created + 1 /\ created' \in Speeches /\ created' \in 0 .. MaxSpeeches
  BY ActivityAssumption DEF CreateSpeech, TypeOK, Speeches
<1> QED BY <1>1 DEF CreateSpeech, TypeOK

LEMMA MainLoopType ==
  ASSUME TypeOK, MainLoop
  PROVE  /\ speechQ' \in Seq(Speeches)
         /\ current' \in 0 .. MaxSpeeches
         /\ updated' \in BOOLEAN
         /\ main' \in {"waiting", "playing", "ended", "cancelled"}
         /\ authorized' \subseteq Speeches
<1>1. CASE speechQ # <<>>
  <2>1. Head(speechQ) \in Speeches /\ Tail(speechQ) \in Seq(Speeches)
    BY <1>1, HeadTailProperties DEF TypeOK
  <2>2. /\ current' = Head(speechQ) /\ speechQ' = Tail(speechQ)
        /\ authorized' = authorized \cup {Head(speechQ)}
        /\ main' = "playing" /\ updated' = updated
    BY <1>1 DEF MainLoop
  <2>3. current' \in 0 .. MaxSpeeches
    BY <2>1, <2>2, ActivityAssumption DEF Speeches
  <2> QED BY <2>1, <2>2, <2>3 DEF TypeOK
<1>2. CASE speechQ = <<>>
  <2>1. current' = 0 /\ speechQ' = speechQ /\ authorized' = authorized
    BY <1>2 DEF MainLoop
  <2>2. main' \in {"waiting", "ended"} /\ (updated' = updated \/ updated' = FALSE)
    BY <1>2 DEF MainLoop
  <2>3. updated' \in BOOLEAN
    BY <2>2 DEF TypeOK
  <2>4. 0 \in 0 .. MaxSpeeches
    BY ActivityAssumption
  <2> QED BY <2>1, <2>2, <2>3, <2>4 DEF TypeOK
<1> QED BY <1>1, <1>2

LEMMA TypeNext == TypeOK /\ [Next]_vars => TypeOK'
<1> SUFFICES ASSUME TypeOK, [Next]_vars PROVE TypeOK'
  OBVIOUS
<1> USE DEF handleVars, futVars, mainVars, drainVars, turnVars
<1>1. ASSUME NEW may \in SayMay, NEW noTools \in BOOLEAN, Say(may, noTools)
      PROVE  TypeOK'
  <2>1. may \in BOOLEAN /\ 0 \in 0 .. MaxToolSteps /\ 0 \in 0 .. MaxTurns
    BY ActivityAssumption
  <2>2. CreateSpeech(may, 0, noTools) /\ ScheduleSpeech(created', FALSE)
    BY <1>1 DEF Say
  <2>3. created' \in Speeches
    BY <2>1, <2>2, CreateSpeechType
  <2>4. speechQ' \in Seq(Speeches) /\ orphans' \subseteq Speeches
    BY <2>2, <2>3, ScheduleSpeechType
  <2> QED BY <1>1, <2>1, <2>2, <2>3, <2>4, CreateSpeechType DEF Say, TypeOK
<1>2. ASSUME NEW h \in Speeches, InterruptHandle(h)
      PROVE  TypeOK'
  BY <1>2 DEF InterruptHandle, InterruptAll, TypeOK
<1>3. CASE InterruptActivity
  <2> DEFINE order == (IF current = 0 THEN <<>> ELSE <<current>>) \o speechQ
             reached == {i \in 1 .. Len(order) : \A k \in 1 .. i : allow[order[k]]}
  <2>1. InterruptAll({order[i] : i \in reached})
    BY <1>3 DEF InterruptActivity
  <2>2. (IF current = 0 THEN <<>> ELSE <<current>>) \in Seq(Speeches)
    <3>1. <<>> \in Seq(Speeches)
      BY EmptySeq
    <3>2. current # 0 => <<current>> \in Seq(Speeches)
      BY DEF TypeOK, Speeches
    <3> QED BY <3>1, <3>2
  <2>3. order \in Seq(Speeches)
    BY <2>2, ConcatProperties DEF TypeOK
  <2>4. \A i \in 1 .. Len(order) : order[i] \in Speeches
    BY <2>3, ElementOfSeq
  <2> HIDE DEF order
  <2>5. {order[i] : i \in reached} \subseteq Speeches
    BY <2>4
  <2>6. interrupted' \subseteq Speeches
    BY <2>1, <2>5 DEF InterruptAll, TypeOK
  <2> QED BY <1>3, <2>6 DEF InterruptActivity, TypeOK
<1>4. CASE MainWakes \/ MainContinues
  BY <1>4, MainLoopType DEF MainWakes, MainContinues, TypeOK
<1>5. ASSUME NEW h \in Speeches,
             SpeechGoesOn(h) \/ PlayoutEnds(h) \/ StopPlaying(h) \/ PlayingStopped(h)
      PROVE  TypeOK'
  BY <1>5 DEF SpeechGoesOn, PlayoutEnds, StopPlaying, PlayingStopped, EndTask, TypeOK
<1>6. ASSUME NEW h \in Speeches, ToolsEnd(h)
      PROVE  TypeOK'
  <2>1. CASE EndTask(h) /\ UNCHANGED <<handleVars, orphans, speechQ>>
    BY <1>6, <2>1 DEF ToolsEnd, EndTask, TypeOK
  <2>2. CASE ~(EndTask(h) /\ UNCHANGED <<handleVars, orphans, speechQ>>)
    <3>1. PICK handoff \in BOOLEAN :
                 CreateSpeech(allow[h], step[h] + 1, draining \/ handoff)
      BY <1>6, <2>2 DEF ToolsEnd
    <3>2. /\ allow[h] \in BOOLEAN /\ step[h] + 1 \in 0 .. MaxToolSteps
          /\ 0 \in 0 .. MaxTurns /\ (draining \/ handoff) \in BOOLEAN
      <4>1. step[h] < MaxToolSteps
        BY <1>6, <2>2 DEF ToolsEnd
      <4>2. allow[h] \in BOOLEAN /\ draining \in BOOLEAN /\ step[h] \in 0 .. MaxToolSteps
        BY DEF TypeOK
      <4>3. step[h] + 1 \in 0 .. MaxToolSteps
        BY <4>1, <4>2, ActivityAssumption
      <4>4. 0 \in 0 .. MaxTurns
        BY ActivityAssumption
      <4>5. (draining \/ handoff) \in BOOLEAN
        BY <4>2
      <4> QED BY <4>2, <4>3, <4>4, <4>5
    <3>3. created' \in Speeches /\ ScheduleSpeech(created', TRUE)
      BY <1>6, <2>2, <3>1, <3>2, CreateSpeechType DEF ToolsEnd
    <3>4. speechQ' \in Seq(Speeches) /\ orphans' \subseteq Speeches
      BY <3>3, ScheduleSpeechType
    <3>5. /\ task' = [task EXCEPT ![h] = "ended", ![created'] = "authorizing"]
          /\ updated' = TRUE /\ UNCHANGED <<done, interrupted, authorized, current, main>>
          /\ UNCHANGED <<draining, drain, closed, hooks, turns, turn>>
      BY <1>6, <2>2 DEF ToolsEnd
    <3>6. task' \in [Speeches -> {"none", "authorizing", "playing", "stopping", "tools", "ended"}]
      BY <3>3, <3>5 DEF TypeOK
    <3>7. /\ created' \in 0 .. MaxSpeeches
          /\ allow' \in [Speeches -> BOOLEAN]
          /\ step' \in [Speeches -> 0 .. MaxToolSteps]
          /\ toolless' \subseteq Speeches
      BY <3>1, <3>2, CreateSpeechType
    <3> QED BY <3>4, <3>5, <3>6, <3>7 DEF TypeOK
  <2> QED BY <2>1, <2>2
<1>7. CASE EndOfTurn
  BY <1>7, ActivityAssumption DEF EndOfTurn, TypeOK, Turns
<1>8. ASSUME NEW t \in Turns, TurnStarts(t)
      PROVE  TypeOK'
  <2>1. \/ interrupted' = interrupted
        \/ current # 0 /\ interrupted' = interrupted \cup ({current} \ done)
    BY <1>8 DEF TurnStarts, InterruptAll
  <2> current # 0 => current \in Speeches
    BY ActivityAssumption DEF TypeOK, Speeches
  <2>2. interrupted' \subseteq Speeches
    BY <2>1 DEF TypeOK
  <2>3. updated' \in BOOLEAN
    BY <1>8 DEF TurnStarts, TypeOK
  <2>4. \E where \in {"callback", "ended"} : turn' = [turn EXCEPT ![t] = where]
    BY <1>8 DEF TurnStarts, EndTurn
  <2> QED BY <1>8, <2>2, <2>3, <2>4 DEF TurnStarts, TypeOK
<1>9. ASSUME NEW t \in Turns, TurnIsIgnored(t)
      PROVE  TypeOK'
  BY <1>9 DEF TurnIsIgnored, EndTurn, TypeOK
<1>10. ASSUME NEW t \in Turns, TurnReplies(t)
       PROVE  TypeOK'
  <2>1. TurnMay \in BOOLEAN /\ 0 \in 0 .. MaxToolSteps /\ t \in 0 .. MaxTurns
    BY ActivityAssumption DEF Turns
  <2>2. CreateSpeech(TurnMay, 0, FALSE) /\ ScheduleSpeech(created', FALSE)
    BY <1>10 DEF TurnReplies
  <2>3. created' \in Speeches
    BY <2>1, <2>2, CreateSpeechType
  <2>4. speechQ' \in Seq(Speeches) /\ orphans' \subseteq Speeches
    BY <2>2, <2>3, ScheduleSpeechType
  <2> QED BY <1>10, <2>1, <2>2, <2>3, <2>4, CreateSpeechType DEF TurnReplies, EndTurn, TypeOK
<1>11. ASSUME NEW k \in Hooks, HookEnds(k)
       PROVE  TypeOK'
  BY <1>11 DEF HookEnds, TypeOK
<1>12. CASE Drain \/ DrainReturns \/ Aclose
  BY <1>12 DEF Drain, DrainReturns, Aclose, TypeOK, Hooks
<1>13. CASE UNCHANGED vars
  BY <1>13 DEF vars, TypeOK
<1> QED BY <1>1, <1>2, <1>3, <1>4, <1>5, <1>6, <1>7, <1>8, <1>9, <1>10, <1>11, <1>12, <1>13
        DEF Next, Runs, SpeechStep, TurnStep

\* Every variable keeps its type in every behaviour of the activity.
THEOREM TypeCorrect == Spec => []TypeOK
BY TypeInit, TypeNext, PTL DEF Spec

-------------------------------------------------------------------------------
\* A speech that was created was refused, waits in the queue behind every speech
\* created before it, or was authorized; and an authorized one is over, unless it
\* is the current one.
QueueInv ==
  /\ orphans \subseteq 1 .. created /\ authorized \subseteq 1 .. created
  /\ \A i \in 1 .. Len(speechQ) :
       speechQ[i] <= created /\ \A g \in authorized : g < speechQ[i]
  /\ \A i, j \in 1 .. Len(speechQ) : i < j => speechQ[i] < speechQ[j]
  /\ \A h \in 1 .. created :
       h \in orphans \cup authorized \/ \E i \in 1 .. Len(speechQ) : speechQ[i] = h
  /\ \A g \in authorized \ done : g = current /\ main \in {"playing", "cancelled"}

\* Where a speech task is says whether its playout is over, and one that plays was
\* authorized.
TaskInv ==
  /\ \A h \in Speeches : task[h] # "none" <=> h <= created
  /\ \A h \in Speeches : h \in done <=> task[h] \in {"tools", "ended"}
  /\ \A h \in Speeches : task[h] \in {"playing", "stopping"} => h \in authorized

\* _main_task only ends while draining, with nothing left to run or to play.
EndInv ==
  /\ draining <=> drain # "no"
  /\ main = "ended" => draining /\ NoSpeechTask /\ speechQ = <<>>
  /\ drain = "returned" => main = "ended"

SpeechInv == TypeOK /\ QueueInv /\ TaskInv /\ EndInv

LEMMA SpeechInit == Init => SpeechInv
<1> SUFFICES ASSUME Init PROVE SpeechInv
  OBVIOUS
<1>1. TypeOK
  BY TypeInit
<1>2. QueueInv
  BY EmptySeq DEF Init, QueueInv
<1>3. TaskInv
  BY DEF Init, TaskInv, Speeches
<1>4. EndInv
  BY DEF Init, EndInv
<1> QED BY <1>1, <1>2, <1>3, <1>4 DEF SpeechInv

\* A step that neither creates nor schedules a speech.
LEMMA QueueKept ==
  ASSUME QueueInv, UNCHANGED <<created, orphans, authorized, speechQ, current>>,
         main' \in {main, "cancelled"},
         done \subseteq done'
  PROVE  QueueInv'
BY DEF QueueInv

\* A step that creates a speech and schedules it, or is refused to.
LEMMA QueueExtended ==
  ASSUME TypeOK, TypeOK', QueueInv, NEW bypass \in BOOLEAN,
         created' = created + 1, ScheduleSpeech(created', bypass),
         UNCHANGED <<authorized, current, main>>, done \subseteq done'
  PROVE  QueueInv'
<1>1. /\ created \in Nat /\ created' \in Speeches
      /\ speechQ \in Seq(Speeches) /\ Len(speechQ) \in Nat
      /\ authorized \subseteq Speeches
  BY LenProperties, ActivityAssumption DEF TypeOK, Speeches
<1>2. \A h \in 1 .. created' : h \in 1 .. created \/ h = created'
  BY <1>1
<1>3. \A i \in 1 .. Len(speechQ) : speechQ[i] \in Nat
  <2>1. \A i \in 1 .. Len(speechQ) : speechQ[i] \in Speeches
    BY <1>1, ElementOfSeq
  <2> QED BY <2>1 DEF Speeches
<1>4. CASE orphans' = orphans \cup {created'} /\ speechQ' = speechQ
  BY <1>1, <1>2, <1>3, <1>4 DEF QueueInv
<1>5. CASE speechQ' = Append(speechQ, created') /\ orphans' = orphans
  <2>1. /\ Len(speechQ') = Len(speechQ) + 1
        /\ \A i \in 1 .. Len(speechQ) : speechQ'[i] = speechQ[i]
        /\ speechQ'[Len(speechQ) + 1] = created'
    BY <1>1, <1>5, AppendProperties
  <2>2. \A i \in 1 .. Len(speechQ') : i \in 1 .. Len(speechQ) \/ i = Len(speechQ')
    BY <1>1, <2>1
  <2>3. \A i \in 1 .. Len(speechQ') :
          speechQ'[i] <= created' /\ \A g \in authorized : g < speechQ'[i]
    BY <1>1, <1>3, <2>1, <2>2 DEF QueueInv
  <2>4. \A i, j \in 1 .. Len(speechQ') : i < j => speechQ'[i] < speechQ'[j]
    BY <1>1, <1>3, <2>1, <2>2 DEF QueueInv
  <2>5. ASSUME NEW h \in 1 .. created'
        PROVE  \/ h \in orphans' \cup authorized'
               \/ \E i \in 1 .. Len(speechQ') : speechQ'[i] = h
    <3>1. CASE h = created'
      BY <1>1, <2>1, <3>1
    <3>2. CASE h \in 1 .. created
      <4>1. CASE h \in orphans \cup authorized
        BY <1>5, <4>1
      <4>2. CASE \E i \in 1 .. Len(speechQ) : speechQ[i] = h
        <5>1. PICK i \in 1 .. Len(speechQ) : speechQ[i] = h
          BY <4>2
        <5>2. i \in 1 .. Len(speechQ') /\ speechQ'[i] = h
          BY <1>1, <2>1, <5>1
        <5> QED BY <5>2
      <4> QED BY <3>2, <4>1, <4>2 DEF QueueInv
    <3> QED BY <1>2, <3>1, <3>2
  <2> QED BY <1>1, <1>5, <2>3, <2>4, <2>5 DEF QueueInv
<1> QED BY <1>4, <1>5 DEF ScheduleSpeech

\* _main_task takes the next speech once every earlier one is over.
LEMMA QueueTaken ==
  ASSUME TypeOK, QueueInv, WokenByQueue \/ WokenByPlayout, MainLoop,
         UNCHANGED <<created, orphans, done>>
  PROVE  QueueInv'
<1>1. authorized \subseteq done
  BY DEF QueueInv, WokenByQueue, WokenByPlayout
<1>2. CASE speechQ # <<>>
  <2>1. /\ current' = Head(speechQ) /\ speechQ' = Tail(speechQ)
        /\ authorized' = authorized \cup {current'} /\ main' = "playing"
    BY <1>2 DEF MainLoop
  <2>2. /\ Head(speechQ) = speechQ[1] /\ Len(speechQ) \in Nat \ {0}
        /\ Len(speechQ') = Len(speechQ) - 1
        /\ \A i \in 1 .. Len(speechQ') : speechQ'[i] = speechQ[i + 1]
    BY <1>2, <2>1, HeadTailProperties, EmptySeq DEF TypeOK
  <2>3. \A i \in 1 .. Len(speechQ) : speechQ[i] \in 1 .. MaxSpeeches
    BY ElementOfSeq DEF TypeOK, Speeches
  <2>4. current' \in 1 .. created /\ current' = speechQ[1]
    BY <2>1, <2>2, <2>3, ActivityAssumption DEF QueueInv, TypeOK
  <2>5. \A i \in 1 .. Len(speechQ') :
          /\ i + 1 \in 1 .. Len(speechQ) /\ speechQ'[i] = speechQ[i + 1]
          /\ current' < speechQ'[i]
    BY <2>2, <2>4 DEF QueueInv
  <2>6. \A i \in 1 .. Len(speechQ') :
          speechQ'[i] <= created' /\ \A g \in authorized' : g < speechQ'[i]
    BY <2>1, <2>5 DEF QueueInv
  <2>7. \A i, j \in 1 .. Len(speechQ') : i < j => speechQ'[i] < speechQ'[j]
    BY <2>2, <2>5 DEF QueueInv
  <2>8. ASSUME NEW h \in 1 .. created
        PROVE  \/ h \in orphans' \cup authorized'
               \/ \E i \in 1 .. Len(speechQ') : speechQ'[i] = h
    <3>1. CASE h \in orphans \cup authorized
      BY <2>1, <3>1
    <3>2. CASE \E i \in 1 .. Len(speechQ) : speechQ[i] = h
      <4>1. PICK i \in 1 .. Len(speechQ) : speechQ[i] = h
        BY <3>2
      <4>2. CASE i = 1
        BY <2>1, <2>4, <4>1, <4>2
      <4>3. CASE i # 1
        <5>1. i - 1 \in 1 .. Len(speechQ') /\ speechQ'[i - 1] = h
          BY <2>2, <4>1, <4>3
        <5> QED BY <5>1
      <4> QED BY <4>2, <4>3
    <3> QED BY <3>1, <3>2 DEF QueueInv
  <2> QED BY <1>1, <2>1, <2>4, <2>6, <2>7, <2>8 DEF QueueInv
<1>3. CASE speechQ = <<>>
  <2>1. speechQ' = speechQ /\ authorized' = authorized
    BY <1>3 DEF MainLoop
  <2> QED BY <1>1, <2>1 DEF QueueInv
<1> QED BY <1>2, <1>3

\* QueueInv is kept: only _schedule_speech and _main_task touch the queue.
LEMMA QueueNext == SpeechInv /\ TypeOK' /\ [Next]_vars => QueueInv'
<1> SUFFICES ASSUME SpeechInv, TypeOK', [Next]_vars PROVE QueueInv'
  OBVIOUS
<1> USE DEF handleVars, futVars, mainVars, drainVars, turnVars
<1>0. TypeOK /\ QueueInv
  BY DEF SpeechInv
<1>1. ASSUME NEW may \in SayMay, NEW noTools \in BOOLEAN, Say(may, noTools)
      PROVE  QueueInv'
  <2>1. /\ created' = created + 1 /\ ScheduleSpeech(created', FALSE)
        /\ UNCHANGED <<authorized, current, main, done>>
    BY <1>1 DEF Say, CreateSpeech
  <2> QED BY <1>0, <2>1, QueueExtended
<1>2. ASSUME NEW h \in Speeches, InterruptHandle(h)
      PROVE  QueueInv'
  BY <1>0, <1>2, QueueKept DEF InterruptHandle
<1>3. CASE InterruptActivity
  BY <1>0, <1>3, QueueKept DEF InterruptActivity
<1>4. CASE MainWakes \/ MainContinues
  BY <1>0, <1>4, QueueTaken DEF MainWakes, MainContinues
<1>5. ASSUME NEW h \in Speeches,
             SpeechGoesOn(h) \/ PlayoutEnds(h) \/ StopPlaying(h) \/ PlayingStopped(h)
      PROVE  QueueInv'
  <2>1. /\ UNCHANGED <<created, orphans, authorized, speechQ, current, main>>
        /\ done \subseteq done'
    BY <1>5 DEF SpeechGoesOn, PlayoutEnds, StopPlaying, PlayingStopped, EndTask
  <2> QED BY <1>0, <2>1, QueueKept
<1>6. ASSUME NEW h \in Speeches, ToolsEnd(h)
      PROVE  QueueInv'
  <2>1. UNCHANGED <<authorized, current, main>> /\ done \subseteq done'
    BY <1>6 DEF ToolsEnd, EndTask
  <2>2. \/ UNCHANGED <<created, orphans, speechQ>>
        \/ created' = created + 1 /\ ScheduleSpeech(created', TRUE)
    BY <1>6 DEF ToolsEnd, CreateSpeech
  <2>3. CASE UNCHANGED <<created, orphans, speechQ>>
    BY <1>0, <2>1, <2>3, QueueKept
  <2>4. CASE created' = created + 1 /\ ScheduleSpeech(created', TRUE)
    BY <1>0, <2>1, <2>4, QueueExtended
  <2> QED BY <2>2, <2>3, <2>4
<1>7. CASE EndOfTurn
  BY <1>0, <1>7, QueueKept DEF EndOfTurn
<1>8. ASSUME NEW t \in Turns, TurnStarts(t) \/ TurnIsIgnored(t)
      PROVE  QueueInv'
  BY <1>0, <1>8, QueueKept DEF TurnStarts, TurnIsIgnored
<1>9. ASSUME NEW t \in Turns, TurnReplies(t)
      PROVE  QueueInv'
  <2>1. /\ created' = created + 1 /\ ScheduleSpeech(created', FALSE)
        /\ UNCHANGED <<authorized, current, main, done>>
    BY <1>9 DEF TurnReplies, CreateSpeech
  <2> QED BY <1>0, <2>1, QueueExtended
<1>10. ASSUME NEW k \in Hooks, HookEnds(k)
       PROVE  QueueInv'
  BY <1>0, <1>10, QueueKept DEF HookEnds
<1>11. CASE Drain \/ DrainReturns
  BY <1>0, <1>11, QueueKept DEF Drain, DrainReturns
<1>12. CASE Aclose
  BY <1>0, <1>12, QueueKept DEF Aclose
<1>13. CASE UNCHANGED vars
  BY <1>0, <1>13, QueueKept DEF vars
<1> QED BY <1>1, <1>2, <1>3, <1>4, <1>5, <1>6, <1>7, <1>8, <1>9, <1>10, <1>11, <1>12, <1>13
        DEF Next, Runs, SpeechStep, TurnStep

\* A step that starts the speech task of the next handle, ending that of h or not.
LEMMA TaskCreated ==
  ASSUME TypeOK, TaskInv, NEW ended \in SUBSET Speeches,
         \A h \in ended : task[h] = "tools",
         created < MaxSpeeches, created' = created + 1,
         task' = [h \in Speeches |-> IF h = created' THEN "authorizing"
                                     ELSE IF h \in ended THEN "ended" ELSE task[h]],
         UNCHANGED <<authorized, done>>
  PROVE  TaskInv'
<1>1. created \in Nat /\ created' \in Speeches
  BY ActivityAssumption DEF TypeOK, Speeches
<1>2. task[created'] = "none" /\ created' \notin done /\ created' \notin ended
  BY <1>1 DEF TaskInv
<1>3. \A h \in Speeches \ {created'} :
        /\ h <= created' <=> h <= created
        /\ task'[h] = IF h \in ended THEN "ended" ELSE task[h]
  BY <1>1 DEF Speeches
<1>4. task'[created'] = "authorizing"
  BY <1>1
<1>5. ASSUME NEW h \in Speeches
      PROVE  /\ task'[h] # "none" <=> h <= created'
             /\ h \in done' <=> task'[h] \in {"tools", "ended"}
             /\ task'[h] \in {"playing", "stopping"} => h \in authorized'
  <2>1. CASE h = created'
    BY <1>1, <1>2, <1>4, <2>1
  <2>2. CASE h # created'
    BY <1>3, <2>2 DEF TaskInv
  <2> QED BY <2>1, <2>2
<1> QED BY <1>5 DEF TaskInv

\* A step in which the speech task of h goes on or ends.
LEMMA TaskStepped ==
  ASSUME TypeOK, TaskInv, NEW h \in Speeches, Alive(h),
         NEW where \in {"playing", "stopping", "tools", "ended"},
         task' = [task EXCEPT ![h] = where],
         where \in {"playing", "stopping"} => h \in authorized /\ h \notin done,
         done' = IF where \in {"tools", "ended"} THEN done \cup {h} ELSE done,
         UNCHANGED <<created, authorized>>
  PROVE  TaskInv'
<1>1. task[h] # "none" /\ task'[h] = where
  BY DEF TypeOK, Alive
<1>2. \A g \in Speeches \ {h} : task'[g] = task[g] /\ (g \in done' <=> g \in done)
  BY DEF TypeOK
<1>3. h \in done' <=> where \in {"tools", "ended"}
  OBVIOUS
<1> QED BY <1>1, <1>2, <1>3 DEF TaskInv

\* TaskInv is kept: a speech task goes on, ends, or starts for a new handle.
LEMMA TaskNext == TypeOK /\ TaskInv /\ [Next]_vars => TaskInv'
<1> SUFFICES ASSUME TypeOK, TaskInv, [Next]_vars PROVE TaskInv'
  OBVIOUS
<1> USE DEF handleVars, futVars, mainVars, drainVars, turnVars
<1>1. ASSUME UNCHANGED <<created, task, done>>, authorized \subseteq authorized'
      PROVE  TaskInv'
  BY <1>1 DEF TaskInv
<1>2. ASSUME NEW h \in Speeches, UNCHANGED <<created, authorized>>, Alive(h), EndTask(h)
      PROVE  TaskInv'
  BY <1>2, TaskStepped DEF EndTask
<1>3. ASSUME NEW may \in SayMay, NEW noTools \in BOOLEAN, Say(may, noTools)
      PROVE  TaskInv'
  <2>1. /\ created < MaxSpeeches /\ created' = created + 1
        /\ task' = [task EXCEPT ![created'] = "authorizing"]
        /\ UNCHANGED <<authorized, done>>
    BY <1>3 DEF Say, CreateSpeech
  <2>2. PICK none \in SUBSET Speeches : none = {}
    OBVIOUS
  <2>3. task' = [h \in Speeches |-> IF h = created' THEN "authorizing"
                                    ELSE IF h \in none THEN "ended" ELSE task[h]]
    BY <2>1, <2>2 DEF TypeOK
  <2>4. \A h \in none : task[h] = "tools"
    BY <2>2
  <2> QED BY <2>1, <2>3, <2>4, TaskCreated
<1>4. ASSUME NEW t \in Turns, TurnReplies(t)
      PROVE  TaskInv'
  <2>1. /\ created < MaxSpeeches /\ created' = created + 1
        /\ task' = [task EXCEPT ![created'] = "authorizing"]
        /\ UNCHANGED <<authorized, done>>
    BY <1>4 DEF TurnReplies, CreateSpeech
  <2>2. PICK none \in SUBSET Speeches : none = {}
    OBVIOUS
  <2>3. task' = [h \in Speeches |-> IF h = created' THEN "authorizing"
                                    ELSE IF h \in none THEN "ended" ELSE task[h]]
    BY <2>1, <2>2 DEF TypeOK
  <2>4. \A h \in none : task[h] = "tools"
    BY <2>2
  <2> QED BY <2>1, <2>3, <2>4, TaskCreated
<1>5. ASSUME NEW h \in Speeches, SpeechGoesOn(h)
      PROVE  TaskInv'
  <2>1. task[h] = "authorizing" /\ Alive(h) /\ UNCHANGED <<created, authorized>>
    BY <1>5 DEF SpeechGoesOn, Alive
  <2>2. CASE h \in interrupted
    BY <1>2, <1>5, <2>1, <2>2 DEF SpeechGoesOn
  <2>3. CASE h \notin interrupted
    <3>1. h \in authorized /\ task' = [task EXCEPT ![h] = "playing"] /\ done' = done
      BY <1>5, <2>3 DEF SpeechGoesOn
    <3>2. h \notin done
      BY <2>1 DEF TaskInv
    <3> QED BY <2>1, <3>1, <3>2, TaskStepped
  <2> QED BY <2>2, <2>3
<1>6. ASSUME NEW h \in Speeches, PlayoutEnds(h) \/ PlayingStopped(h)
      PROVE  TaskInv'
  <2>1. Alive(h) /\ UNCHANGED <<created, authorized>>
    BY <1>6 DEF PlayoutEnds, PlayingStopped, Alive
  <2>2. \/ EndTask(h)
        \/ task' = [task EXCEPT ![h] = "tools"] /\ done' = done \cup {h}
    BY <1>6 DEF PlayoutEnds, PlayingStopped
  <2>3. CASE EndTask(h)
    BY <1>2, <2>1, <2>3
  <2>4. CASE task' = [task EXCEPT ![h] = "tools"] /\ done' = done \cup {h}
    BY <2>1, <2>4, TaskStepped
  <2> QED BY <2>2, <2>3, <2>4
<1>7. ASSUME NEW h \in Speeches, StopPlaying(h)
      PROVE  TaskInv'
  <2>1. task[h] = "playing" /\ Alive(h) /\ task' = [task EXCEPT ![h] = "stopping"]
    BY <1>7 DEF StopPlaying, Alive
  <2>2. UNCHANGED <<created, authorized, done>>
    BY <1>7 DEF StopPlaying
  <2>3. h \in authorized /\ h \notin done
    BY <2>1 DEF TaskInv
  <2> QED BY <2>1, <2>2, <2>3, TaskStepped
<1>8. ASSUME NEW h \in Speeches, ToolsEnd(h)
      PROVE  TaskInv'
  <2>1. task[h] = "tools" /\ Alive(h) /\ UNCHANGED authorized
    BY <1>8 DEF ToolsEnd, Alive
  <2>2. CASE EndTask(h) /\ UNCHANGED <<handleVars, orphans, speechQ>>
    BY <1>2, <2>1, <2>2
  <2>3. CASE ~(EndTask(h) /\ UNCHANGED <<handleVars, orphans, speechQ>>)
    <3>1. /\ created < MaxSpeeches /\ created' = created + 1
          /\ task' = [task EXCEPT ![h] = "ended", ![created'] = "authorizing"]
          /\ UNCHANGED done
      BY <1>8, <2>3 DEF ToolsEnd, CreateSpeech
    <3>2. task' = [g \in Speeches |-> IF g = created' THEN "authorizing"
                                      ELSE IF g \in {h} THEN "ended" ELSE task[g]]
      BY <3>1 DEF TypeOK
    <3> QED BY <2>1, <3>1, <3>2, TaskCreated
  <2> QED BY <2>2, <2>3
<1>9. CASE MainWakes \/ MainContinues
  BY <1>1, <1>9 DEF MainWakes, MainContinues, MainLoop
<1>10. ASSUME NEW h \in Speeches, InterruptHandle(h)
       PROVE  TaskInv'
  BY <1>1, <1>10 DEF InterruptHandle
<1>11. ASSUME NEW t \in Turns, TurnStarts(t) \/ TurnIsIgnored(t)
       PROVE  TaskInv'
  BY <1>1, <1>11 DEF TurnStarts, TurnIsIgnored
<1>12. ASSUME NEW k \in Hooks, HookEnds(k)
       PROVE  TaskInv'
  BY <1>1, <1>12 DEF HookEnds
<1>13. CASE InterruptActivity \/ EndOfTurn
  BY <1>1, <1>13 DEF InterruptActivity, EndOfTurn
<1>14. CASE Drain \/ DrainReturns \/ Aclose \/ UNCHANGED vars
  BY <1>1, <1>14 DEF Drain, DrainReturns, Aclose, vars
<1> QED BY <1>3, <1>4, <1>5, <1>6, <1>7, <1>8, <1>9, <1>10, <1>11, <1>12, <1>13, <1>14
        DEF Next, Runs, SpeechStep, TurnStep

\* EndInv is kept: whatever could create a speech, a user turn or a hook either
\* runs already or is refused by an activity that drains.
LEMMA EndNext == TypeOK /\ EndInv /\ [Next]_vars => EndInv'
<1> SUFFICES ASSUME TypeOK, EndInv, [Next]_vars PROVE EndInv'
  OBVIOUS
<1> USE DEF handleVars, futVars, mainVars, drainVars, turnVars
<1>1. main = "ended" =>
        /\ draining /\ hooks = {} /\ speechQ = <<>>
        /\ \A h \in Speeches : task[h] \in {"none", "ended"}
        /\ \A t \in Turns : turn[t] \notin {"queued", "callback"}
  BY DEF EndInv, NoSpeechTask, Alive, TurnRuns
<1>2. ASSUME main # "ended", UNCHANGED <<draining, drain, main>>
      PROVE  EndInv'
  BY <1>2 DEF EndInv
<1>3. ASSUME NEW may \in SayMay, NEW noTools \in BOOLEAN, Say(may, noTools)
      PROVE  EndInv'
  BY <1>1, <1>2, <1>3 DEF Say
<1>4. ASSUME NEW h \in Speeches, InterruptHandle(h) \/ SpeechStep(h)
      PROVE  EndInv'
  <2>1. Alive(h) /\ UNCHANGED <<draining, drain, main>>
    BY <1>4 DEF InterruptHandle, SpeechStep, SpeechGoesOn, PlayoutEnds, StopPlaying,
                PlayingStopped, ToolsEnd, Alive
  <2>2. main # "ended"
    BY <1>1, <2>1 DEF Alive
  <2> QED BY <1>2, <2>1, <2>2
<1>5. CASE InterruptActivity \/ UNCHANGED vars
  BY <1>5 DEF InterruptActivity, vars, EndInv, NoSpeechTask, Alive, TurnRuns
<1>6. CASE MainWakes \/ MainContinues
  <2>1. main # "ended" /\ UNCHANGED <<task, draining, drain, hooks, turn>> /\ MainLoop
    BY <1>6 DEF MainWakes, MainContinues, WokenByQueue, WokenByPlayout
  <2>2. CASE main' = "ended"
    <3>1. draining /\ NoSpeechTask /\ speechQ' = <<>>
      BY <2>1, <2>2 DEF MainLoop
    <3> QED BY <2>1, <3>1 DEF EndInv, NoSpeechTask, Alive, TurnRuns
  <2>3. CASE main' # "ended"
    BY <2>1, <2>3 DEF EndInv
  <2> QED BY <2>2, <2>3
<1>7. CASE EndOfTurn
  BY <1>1, <1>2, <1>7 DEF EndOfTurn
<1>8. ASSUME NEW t \in Turns, TurnStep(t)
      PROVE  EndInv'
  <2>1. turn[t] \in {"queued", "callback"} /\ UNCHANGED <<draining, drain, main>>
    BY <1>8 DEF TurnStep, TurnStarts, TurnIsIgnored, TurnReplies
  <2> QED BY <1>1, <1>2, <2>1
<1>9. ASSUME NEW k \in Hooks, HookEnds(k)
      PROVE  EndInv'
  BY <1>1, <1>2, <1>9 DEF HookEnds
<1>10. CASE Drain
  <2>1. main # "ended" /\ draining' = TRUE /\ drain' = "waiting" /\ main' = main
    BY <1>10 DEF Drain, EndInv
  <2> QED BY <2>1 DEF EndInv
<1>11. CASE DrainReturns
  BY <1>11 DEF DrainReturns, EndInv, NoSpeechTask, Alive, TurnRuns
<1>12. CASE Aclose
  BY <1>12 DEF Aclose, EndInv, NoSpeechTask, Alive, TurnRuns
<1> QED BY <1>3, <1>4, <1>5, <1>6, <1>7, <1>8, <1>9, <1>10, <1>11, <1>12 DEF Next, Runs

LEMMA SpeechNext == SpeechInv /\ [Next]_vars => SpeechInv'
<1> SUFFICES ASSUME SpeechInv, [Next]_vars PROVE SpeechInv'
  OBVIOUS
<1>1. TypeOK'
  BY TypeNext DEF SpeechInv
<1>2. QueueInv'
  BY <1>1, QueueNext
<1>3. TaskInv' /\ EndInv'
  BY TaskNext, EndNext DEF SpeechInv
<1> QED BY <1>1, <1>2, <1>3 DEF SpeechInv

\* A speech created before the one that plays was refused, is over, or would still
\* wait in the queue, where only later ones than the one that plays can be.
LEMMA SpeechInvPlays == SpeechInv => PlaysInTurn
<1> SUFFICES ASSUME SpeechInv, NEW h \in Speeches, task[h] \in {"playing", "stopping"},
                    NEW g \in 1 .. h - 1
             PROVE  g \in done \cup orphans
  BY DEF PlaysInTurn
<1>1. h \in authorized /\ h \notin done
  BY DEF SpeechInv, TaskInv
<1>2. h = current
  BY <1>1 DEF SpeechInv, QueueInv
<1>3. created \in Nat /\ h \in 1 .. created /\ g \in 1 .. created /\ g # h
  BY <1>1, ActivityAssumption DEF SpeechInv, QueueInv, TypeOK, Speeches
<1>4. CASE g \in orphans
  BY <1>4
<1>5. CASE g \in authorized
  BY <1>2, <1>3, <1>5 DEF SpeechInv, QueueInv
<1>6. CASE \E i \in 1 .. Len(speechQ) : speechQ[i] = g
  <2>1. h < g
    BY <1>1, <1>6 DEF SpeechInv, QueueInv
  <2> QED BY <1>3, <2>1
<1> QED BY <1>3, <1>4, <1>5, <1>6 DEF SpeechInv, QueueInv

LEMMA SpeechInvDrained == SpeechInv => DrainedCompletely
<1> SUFFICES ASSUME SpeechInv, drain = "returned"
             PROVE  NoSpeechTask /\ speechQ = <<>> /\ 1 .. created \subseteq done
  BY DEF DrainedCompletely
<1>1. NoSpeechTask /\ speechQ = <<>>
  BY DEF SpeechInv, EndInv
<1>2. ASSUME NEW h \in 1 .. created
      PROVE  h \in done
  <2>1. h \in Speeches /\ h <= created
    BY <1>2, ActivityAssumption DEF SpeechInv, TypeOK, Speeches
  <2>2. task[h] = "ended"
    BY <1>1, <2>1 DEF NoSpeechTask, Alive, SpeechInv, TaskInv
  <2> QED BY <2>1, <2>2 DEF SpeechInv, TaskInv
<1> QED BY <1>1, <1>2

\* The agent never talks over itself: speeches are played one after the other, in
\* the order in which _schedule_speech accepted them.
THEOREM SpeechesPlayInTurn == Spec => []PlaysInTurn
BY SpeechInit, SpeechNext, SpeechInvPlays, PTL DEF Spec

\* When drain returns, every speech task it had to wait for is over.
THEOREM DrainWaitsForEverything == Spec => []DrainedCompletely
BY SpeechInit, SpeechNext, SpeechInvDrained, PTL DEF Spec

-------------------------------------------------------------------------------
\* _main_task is only cancelled by aclose.
ClosedInv == main = "cancelled" => closed

LEMMA ClosedNext == TypeOK /\ ClosedInv /\ [Next]_vars => ClosedInv'
<1> SUFFICES ASSUME TypeOK, ClosedInv, [Next]_vars PROVE ClosedInv'
  OBVIOUS
<1> USE DEF handleVars, futVars, mainVars, drainVars, turnVars
<1>1. CASE MainWakes \/ MainContinues
  <2>1. main' # "cancelled"
    BY <1>1 DEF MainWakes, MainContinues, MainLoop
  <2> QED BY <2>1 DEF ClosedInv
<1>2. CASE Aclose
  BY <1>2 DEF Aclose, ClosedInv
<1>3. CASE UNCHANGED <<main, closed>>
  BY <1>3 DEF ClosedInv
<1> QED BY <1>1, <1>2, <1>3
        DEF Next, Runs, vars, Say, InterruptHandle, InterruptActivity, EndOfTurn, Drain,
            DrainReturns, SpeechStep, SpeechGoesOn, PlayoutEnds, StopPlaying, PlayingStopped,
            ToolsEnd, TurnStep, TurnStarts, TurnIsIgnored, TurnReplies, HookEnds

LifeInv == SpeechInv /\ ClosedInv

busyNow  == {a \in {Self} : ~NoSpeechTask}
phaseNow == [a \in {Self} |-> Phase]

LEMMA LifeInit == Init => Life!Init
<1> SUFFICES ASSUME Init PROVE Life!Init
  OBVIOUS
<1>1. Phase = "open"
  BY DEF Init, Phase
<1> QED BY <1>1 DEF Life!Init

\* A step that leaves the phase alone is work, if the activity has work to do or is open.
LEMMA LifeWork ==
  ASSUME Phase' = Phase, Phase # "drained", Phase = "draining" => ~NoSpeechTask
  PROVE  Life!Next \/ UNCHANGED <<busyNow, phaseNow>>
<1>1. busyNow' \in {busyNow \cup {Self}, busyNow \ {Self}}
  BY DEF busyNow
<1>2. phaseNow' = phaseNow
  BY DEF phaseNow
<1>3. Phase = "draining" => Self \in busyNow
  BY DEF busyNow
<1>4. Life!Work(Self)
  BY <1>1, <1>2, <1>3 DEF Life!Work, busyNow, phaseNow
<1> QED BY <1>4 DEF Life!Next

\* Every step of the activity is a step of its promise, or changes nothing in it.
LEMMA LifeNext ==
  LifeInv /\ [Next]_vars => Life!Next \/ UNCHANGED <<busyNow, phaseNow>>
<1> SUFFICES ASSUME LifeInv, [Next]_vars
             PROVE  Life!Next \/ UNCHANGED <<busyNow, phaseNow>>
  OBVIOUS
<1> USE DEF handleVars, futVars, mainVars, drainVars, turnVars
<1>0. /\ TypeOK /\ EndInv /\ ClosedInv
      /\ main \in {"waiting", "playing", "ended", "cancelled"}
  BY DEF LifeInv, SpeechInv, TypeOK
<1>1. ASSUME UNCHANGED <<main, draining>>, main # "ended", draining => ~NoSpeechTask
      PROVE  Life!Next \/ UNCHANGED <<busyNow, phaseNow>>
  <2>1. Phase' = Phase /\ Phase # "drained" /\ (Phase = "draining" => ~NoSpeechTask)
    BY <1>1 DEF Phase
  <2> QED BY <2>1, LifeWork
<1>2. main = "ended" => NoSpeechTask
  BY <1>0 DEF EndInv
<1>3. ASSUME UNCHANGED <<main, draining>>, ~NoSpeechTask
      PROVE  Life!Next \/ UNCHANGED <<busyNow, phaseNow>>
  BY <1>1, <1>2, <1>3
<1>4. ASSUME NEW may \in SayMay, NEW noTools \in BOOLEAN, Say(may, noTools)
      PROVE  Life!Next \/ UNCHANGED <<busyNow, phaseNow>>
  <2>1. ~draining /\ UNCHANGED <<main, draining>>
    BY <1>4 DEF Say
  <2>2. main # "ended"
    BY <1>0, <2>1 DEF EndInv
  <2> QED BY <1>1, <2>1, <2>2
<1>5. CASE EndOfTurn
  <2>1. ~draining /\ UNCHANGED <<main, draining>>
    BY <1>5 DEF EndOfTurn
  <2>2. main # "ended"
    BY <1>0, <2>1 DEF EndInv
  <2> QED BY <1>1, <2>1, <2>2
<1>6. ASSUME NEW h \in Speeches, InterruptHandle(h) \/ SpeechStep(h)
      PROVE  Life!Next \/ UNCHANGED <<busyNow, phaseNow>>
  <2>1. Alive(h) /\ UNCHANGED <<main, draining>>
    BY <1>6 DEF InterruptHandle, SpeechStep, SpeechGoesOn, PlayoutEnds, StopPlaying,
                PlayingStopped, ToolsEnd, Alive
  <2> QED BY <1>3, <2>1 DEF NoSpeechTask
<1>7. ASSUME NEW t \in Turns, TurnStep(t)
      PROVE  Life!Next \/ UNCHANGED <<busyNow, phaseNow>>
  <2>1. TurnRuns(t) /\ UNCHANGED <<main, draining>>
    BY <1>7 DEF TurnStep, TurnStarts, TurnIsIgnored, TurnReplies, TurnRuns
  <2> QED BY <1>3, <2>1 DEF NoSpeechTask
<1>8. ASSUME NEW k \in Hooks, HookEnds(k)
      PROVE  Life!Next \/ UNCHANGED <<busyNow, phaseNow>>
  <2>1. hooks # {} /\ UNCHANGED <<main, draining>>
    BY <1>8 DEF HookEnds
  <2> QED BY <1>3, <2>1 DEF NoSpeechTask
<1>9. ASSUME UNCHANGED <<hooks, task, turn, main, draining>>
      PROVE  Life!Next \/ UNCHANGED <<busyNow, phaseNow>>
  BY <1>9 DEF busyNow, phaseNow, Phase, NoSpeechTask, Alive, TurnRuns
<1>10. CASE InterruptActivity \/ DrainReturns \/ UNCHANGED vars
  BY <1>9, <1>10 DEF InterruptActivity, DrainReturns, vars
<1>11. CASE MainWakes \/ MainContinues
  <2>1. /\ main \in {"waiting", "playing"} /\ UNCHANGED <<hooks, task, turn, draining>>
        /\ MainLoop
    BY <1>11 DEF MainWakes, MainContinues, WokenByQueue, WokenByPlayout
  <2>2. CASE main' = "ended"
    <3>1. draining /\ NoSpeechTask
      BY <2>1, <2>2 DEF MainLoop
    <3>2. Phase = "draining" /\ Phase' = "drained"
      BY <2>1, <2>2, <3>1 DEF Phase
    <3>3. Life!Drained(Self)
      BY <2>1, <3>1, <3>2 DEF Life!Drained, NoSpeechTask, Alive, TurnRuns
    <3> QED BY <3>3 DEF Life!Next
  <2>3. CASE main' # "ended"
    <3>1. main' \in {"waiting", "playing"}
      BY <2>1, <2>3 DEF MainLoop
    <3> QED BY <2>1, <3>1 DEF busyNow, phaseNow, Phase, NoSpeechTask, Alive, TurnRuns
  <2> QED BY <2>2, <2>3
<1>12. CASE Drain
  <2>1. ~draining /\ main \in {"waiting", "playing"}
    BY <1>0, <1>12 DEF Drain, EndInv, ClosedInv
  <2>2. draining' = TRUE /\ main' = main /\ "on_exit" \in hooks'
    BY <1>12 DEF Drain
  <2>3. Phase = "open" /\ Phase' = "draining" /\ ~NoSpeechTask'
    BY <2>1, <2>2 DEF Phase, NoSpeechTask
  <2>4. Life!StartDrain(Self)
    BY <2>3 DEF Life!StartDrain
  <2> QED BY <2>4 DEF Life!Next
<1>13. CASE Aclose
  <2>1. drain # "waiting" /\ UNCHANGED <<hooks, task, turn, draining>>
    BY <1>13 DEF Aclose
  <2>2. CASE main \in {"ended", "cancelled"}
    <3>1. main' = main
      BY <1>13, <2>2 DEF Aclose
    <3> QED BY <1>9, <2>1, <3>1
  <2>3. CASE main \notin {"ended", "cancelled"}
    <3>1. main' = "cancelled" /\ ~draining
      BY <1>0, <1>13, <2>1, <2>3 DEF Aclose, EndInv, TypeOK
    <3>2. Phase = "open" /\ Phase' = "cancelled"
      BY <1>0, <2>3, <3>1 DEF Phase
    <3>3. Life!Cancel(Self)
      BY <2>1, <3>2 DEF Life!Cancel, NoSpeechTask, Alive, TurnRuns
    <3> QED BY <3>3 DEF Life!Next
  <2> QED BY <2>2, <2>3
<1> QED BY <1>4, <1>5, <1>6, <1>7, <1>8, <1>10, <1>11, <1>12, <1>13 DEF Next, Runs

\* The activity is what the session takes it for: it works while it is open, finishes
\* its work once it drains, and is dead when drained.
THEOREM KeepsItsPromise == Spec => KeepsLife
<1>1. Init => LifeInv /\ Life!Init
  BY SpeechInit, LifeInit DEF LifeInv, ClosedInv, Init
<1>2. LifeInv /\ [Next]_vars => LifeInv'
  BY SpeechNext, ClosedNext DEF LifeInv, SpeechInv
<1>3. LifeInv /\ [Next]_vars => [Life!Next]_<<busyNow, phaseNow>>
  BY LifeNext
<1> QED BY <1>1, <1>2, <1>3, PTL DEF Spec, KeepsLife, Life!Spec, busyNow, phaseNow
===============================================================================
