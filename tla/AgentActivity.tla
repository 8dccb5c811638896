----------------------------- MODULE AgentActivity -----------------------------
(***************************************************************************)
(* AgentActivity of voice/agent_activity.py with SpeechHandle of           *)
(* voice/speech_handle.py: how an agent's utterances are scheduled, played *)
(* one after the other, interrupted, continued after tool calls, and how   *)
(* the activity drains and closes.                                         *)
(*                                                                         *)
(* A step is what one asyncio task does between two awaits.  Speech        *)
(* handles are numbered in the order of their creation; speech task h is   *)
(* the _tts_task or _pipeline_reply_task that owns handle h.  Synthesis,   *)
(* text and audio are left out: a speech is played or it is not.           *)
(***************************************************************************)
EXTENDS Naturals, Sequences, FiniteSets

CONSTANTS MaxSpeeches,   \* bound on the speech handles ever created
          MaxTurns,      \* bound on the user turns ever completed
          MaxToolSteps,  \* max_tool_steps
          SayMay,        \* what allow_interruptions may be for say and generate_reply
          TurnMay        \* the activity's own allow_interruptions, used for user turns

ASSUME ActivityAssumption ==
  /\ MaxSpeeches \in Nat /\ MaxTurns \in Nat /\ MaxToolSteps \in Nat
  /\ SayMay \subseteq BOOLEAN /\ TurnMay \in BOOLEAN

Speeches == 1 .. MaxSpeeches
Turns    == 1 .. MaxTurns
Hooks    == {"on_enter", "on_exit"}

VARIABLES
  created,      \* how many speech handles were created
  allow,        \* _allow_interruptions of each handle
  step,         \* _step_index of each handle
  toolless,     \* handles whose task was given tool_choice "none"
  interrupted,  \* handles whose _interrupt_fut is done
  authorized,   \* handles whose _authorize_fut is done
  done,         \* handles whose _playout_done_fut is done
  orphans,      \* history: handles that _schedule_speech refused
  task,         \* where the speech task of each handle is
  speechQ,      \* _speech_q
  current,      \* _current_speech, or 0
  updated,      \* _q_updated
  main,         \* where _main_task is
  draining,     \* _draining
  drain,        \* where the call of drain is
  closed,       \* aclose has cancelled _main_task
  hooks,        \* the running on_enter and on_exit tasks
  turns,        \* how many user turns were completed
  turn          \* where the _user_turn_completed_task of each turn is

handleVars == <<created, allow, step, toolless>>
futVars    == <<interrupted, authorized, done>>
mainVars   == <<speechQ, current, updated, main>>
drainVars  == <<draining, drain, closed, hooks>>
turnVars   == <<turns, turn>>
vars == <<handleVars, futVars, orphans, task, mainVars, drainVars, turnVars>>

TypeOK ==
  /\ created \in 0 .. MaxSpeeches
  /\ allow \in [Speeches -> BOOLEAN]
  /\ step \in [Speeches -> 0 .. MaxToolSteps]
  /\ toolless \subseteq Speeches
  /\ interrupted \subseteq Speeches /\ authorized \subseteq Speeches
  /\ done \subseteq Speeches /\ orphans \subseteq Speeches
  /\ task \in [Speeches -> {"none", "authorizing", "playing", "stopping", "tools", "ended"}]
  /\ speechQ \in Seq(Speeches)
  /\ current \in 0 .. MaxSpeeches
  /\ updated \in BOOLEAN
  /\ main \in {"waiting", "playing", "ended", "cancelled"}
  /\ draining \in BOOLEAN
  /\ drain \in {"no", "waiting", "returned"}
  /\ closed \in BOOLEAN
  /\ hooks \subseteq Hooks
  /\ turns \in 0 .. MaxTurns
  /\ turn \in [Turns -> {"none", "queued", "callback", "ended"}]

\* start, once _main_task exists and on_enter was made a speech task.
Init ==
  /\ created = 0
  /\ allow = [h \in Speeches |-> FALSE]
  /\ step = [h \in Speeches |-> 0]
  /\ toolless = {} /\ interrupted = {} /\ authorized = {} /\ done = {} /\ orphans = {}
  /\ task = [h \in Speeches |-> "none"]
  /\ speechQ = <<>> /\ current = 0 /\ updated = FALSE /\ main = "waiting"
  /\ draining = FALSE /\ drain = "no" /\ closed = FALSE
  /\ hooks = {"on_enter"}
  /\ turns = 0
  /\ turn = [t \in Turns |-> "none"]

-------------------------------------------------------------------------------
Alive(h) == task[h] \notin {"none", "ended"}
TurnRuns(t) == turn[t] \in {"queued", "callback"}

\* _speech_tasks is empty.
NoSpeechTask ==
  /\ hooks = {}
  /\ \A h \in Speeches : ~Alive(h)
  /\ \A t \in Turns : ~TurnRuns(t)

\* SpeechHandle.create and _create_speech_task for the next handle.
CreateSpeech(may, stp, noTools) ==
  /\ created < MaxSpeeches
  /\ created' = created + 1
  /\ allow' = [allow EXCEPT ![created'] = may]
  /\ step' = [step EXCEPT ![created'] = stp]
  /\ toolless' = IF noTools THEN toolless \cup {created'} ELSE toolless

\* _schedule_speech: refused while draining, unless the caller bypasses that.
\* Every caller asks for the same priority, so the heap is ordered by time.
ScheduleSpeech(h, bypass) ==
  IF draining /\ ~bypass
    THEN orphans' = orphans \cup {h} /\ UNCHANGED speechQ
    ELSE speechQ' = Append(speechQ, h) /\ UNCHANGED orphans

\* say and generate_reply of the session, which turn to the next activity (or
\* raise) when this one is draining.  A say is a reply that never has tools.
Say(may, noTools) ==
  /\ ~draining /\ ~closed
  /\ CreateSpeech(may, 0, noTools)
  /\ task' = [task EXCEPT ![created'] = "authorizing"]
  /\ ScheduleSpeech(created', FALSE)
  /\ updated' = TRUE
  /\ UNCHANGED <<futVars, current, main, drainVars, turnVars>>

\* SpeechHandle.interrupt called on every handle of S that is not done.
InterruptAll(S) == interrupted' = interrupted \cup (S \ done)

InterruptHandle(h) ==
  /\ Alive(h) /\ allow[h] /\ h \notin interrupted
  /\ InterruptAll({h})
  /\ UNCHANGED <<handleVars, authorized, done, orphans, task, mainVars, drainVars, turnVars>>

\* interrupt: the current speech, then the queued ones, until one that does not
\* allow it raises.
InterruptActivity ==
  LET order == (IF current = 0 THEN <<>> ELSE <<current>>) \o speechQ
      reached == {i \in 1 .. Len(order) : \A k \in 1 .. i : allow[order[k]]}
  IN  /\ ~closed
      /\ reached # {}
      /\ InterruptAll({order[i] : i \in reached})
      /\ UNCHANGED <<handleVars, authorized, done, orphans, task, mainVars, drainVars,
                     turnVars>>

-------------------------------------------------------------------------------
\* Mutant of MainLoop: a draining activity ends without looking at its tasks.
MainLoopEndsEarly ==
  /\ speechQ = <<>>
  /\ current' = 0
  /\ main' = IF draining THEN "ended" ELSE "waiting"
  /\ updated' = FALSE
  /\ UNCHANGED <<speechQ, authorized>>

\* The body of the loop of _main_task after its await: play the next speech, or
\* end, or wait for _q_updated again.
MainLoop ==
  \/ /\ speechQ # <<>>
     /\ current' = Head(speechQ)
     /\ speechQ' = Tail(speechQ)
     /\ authorized' = authorized \cup {Head(speechQ)}
     /\ main' = "playing"
     /\ UNCHANGED updated
  \/ /\ speechQ = <<>>
     /\ current' = 0
     /\ IF draining /\ NoSpeechTask
          THEN main' = "ended" /\ UNCHANGED updated
          ELSE main' = "waiting" /\ updated' = FALSE
     /\ UNCHANGED <<speechQ, authorized>>

\* Mutant of WokenByPlayout: the next speech starts while the current one plays.
WokenAtOnce == main = "playing"

WokenByQueue   == main = "waiting" /\ updated
WokenByPlayout == main = "playing" /\ current \in done

MainWakes ==
  /\ WokenByQueue
  /\ MainLoop
  /\ UNCHANGED <<handleVars, interrupted, done, orphans, task, drainVars, turnVars>>

MainContinues ==
  /\ WokenByPlayout
  /\ MainLoop
  /\ UNCHANGED <<handleVars, interrupted, done, orphans, task, drainVars, turnVars>>

-------------------------------------------------------------------------------
\* Mutants of EndTask: without one or the other of its callbacks.
EndTaskForgetsPlayout(h) ==
  task' = [task EXCEPT ![h] = "ended"] /\ updated' = TRUE /\ UNCHANGED done
EndTaskWakesNobody(h) ==
  task' = [task EXCEPT ![h] = "ended"] /\ done' = done \cup {h} /\ UNCHANGED updated

\* The speech task ends: its callbacks complete the playout and wake _main_task.
EndTask(h) ==
  /\ task' = [task EXCEPT ![h] = "ended"]
  /\ done' = done \cup {h}
  /\ updated' = TRUE

\* wait_if_not_interrupted returned: give up, or start to play.
SpeechGoesOn(h) ==
  /\ task[h] = "authorizing"
  /\ h \in authorized \cup interrupted
  /\ IF h \in interrupted
       THEN EndTask(h)
       ELSE task' = [task EXCEPT ![h] = "playing"] /\ UNCHANGED <<done, updated>>
  /\ UNCHANGED <<handleVars, interrupted, authorized, orphans, speechQ, current, main,
                 drainVars, turnVars>>

\* The playout is over: a reply marks it done before it waits for its tools.
PlayoutEnds(h) ==
  /\ task[h] = "playing" /\ h \notin interrupted
  /\ \/ EndTask(h)
     \/ /\ task' = [task EXCEPT ![h] = "tools"]
        /\ done' = done \cup {h}
        /\ UNCHANGED updated
  /\ UNCHANGED <<handleVars, interrupted, authorized, orphans, speechQ, current, main,
                 drainVars, turnVars>>

\* Interrupted: the forwarding tasks are cancelled, the buffer is cleared, and the
\* task waits for the audio output to confirm it.
StopPlaying(h) ==
  /\ task[h] = "playing" /\ h \in interrupted
  /\ task' = [task EXCEPT ![h] = "stopping"]
  /\ UNCHANGED <<handleVars, futVars, orphans, mainVars, drainVars, turnVars>>

PlayingStopped(h) ==
  /\ task[h] = "stopping"
  /\ \/ EndTask(h)
     \/ /\ task' = [task EXCEPT ![h] = "tools"]
        /\ done' = done \cup {h}
        /\ UNCHANGED updated
  /\ UNCHANGED <<handleVars, interrupted, authorized, orphans, speechQ, current, main,
                 drainVars, turnVars>>

\* Mutant of ToolsEnd: the step is not compared with max_tool_steps.
ToolsEndUnbounded(h) ==
  /\ task[h] = "tools" /\ h \notin interrupted \cup toolless
  /\ CreateSpeech(allow[h], step[h] + 1, draining)
  /\ task' = [task EXCEPT ![h] = "ended", ![created'] = "authorizing"]
  /\ ScheduleSpeech(created', TRUE)
  /\ updated' = TRUE
  /\ UNCHANGED <<futVars, current, main, drainVars, turnVars>>

\* The tools have returned.  Their outputs are dropped if the speech was
\* interrupted while it played, or if it is the last step; otherwise they may call
\* for a reply, which must not use tools itself if the agent is being left.
ToolsEnd(h) ==
  /\ task[h] = "tools"
  /\ UNCHANGED <<interrupted, authorized, current, main, drainVars, turnVars>>
  /\ \/ /\ EndTask(h)
        /\ UNCHANGED <<handleVars, orphans, speechQ>>
     \/ /\ h \notin interrupted \cup toolless
        /\ step[h] < MaxToolSteps
        /\ \E handoff \in BOOLEAN :
             CreateSpeech(allow[h], step[h] + 1, draining \/ handoff)
        /\ task' = [task EXCEPT ![h] = "ended", ![created'] = "authorizing"]
        /\ ScheduleSpeech(created', TRUE)
        /\ updated' = TRUE
        /\ UNCHANGED done

-------------------------------------------------------------------------------
\* on_end_of_turn, called by the audio recognition until aclose.
EndOfTurn ==
  /\ ~draining /\ ~closed /\ turns < MaxTurns
  /\ turns' = turns + 1
  /\ turn' = [turn EXCEPT ![turns'] = "queued"]
  /\ UNCHANGED <<handleVars, futVars, orphans, task, mainVars, drainVars>>

EndTurn(t) == turn' = [turn EXCEPT ![t] = "ended"]

\* _user_turn_completed_task once the task of the previous turn is over, before or after a
\* _main_task that was woken in the same iteration of the event loop.
TurnStarts(t) ==
  /\ turn[t] = "queued"
  /\ t > 1 => turn[t - 1] = "ended"
  /\ \/ /\ current = 0
        /\ turn' = [turn EXCEPT ![t] = "callback"]
        /\ UNCHANGED <<interrupted, updated>>
     \/ /\ current # 0 /\ allow[current]
        /\ InterruptAll({current})
        /\ turn' = [turn EXCEPT ![t] = "callback"]
        /\ UNCHANGED updated
     \/ /\ current # 0 /\ ~allow[current]
        /\ EndTurn(t)
        /\ updated' = TRUE
        /\ UNCHANGED interrupted
  /\ UNCHANGED <<handleVars, authorized, done, orphans, task, speechQ, current, main,
                 drainVars, turns>>

\* on_user_turn_completed raised StopResponse or failed.
TurnIsIgnored(t) ==
  /\ turn[t] = "callback"
  /\ EndTurn(t)
  /\ updated' = TRUE
  /\ UNCHANGED <<handleVars, futVars, orphans, task, speechQ, current, main, drainVars, turns>>

\* on_user_turn_completed returned: _generate_reply creates the speech task before
\* it schedules the speech, and draining is not looked at again.
TurnReplies(t) ==
  /\ turn[t] = "callback"
  /\ CreateSpeech(TurnMay, 0, FALSE)
  /\ task' = [task EXCEPT ![created'] = "authorizing"]
  /\ ScheduleSpeech(created', FALSE)
  /\ interrupted' = IF ~draining /\ t # turns /\ TurnMay
                      THEN interrupted \cup {created'} ELSE interrupted
  /\ updated' = TRUE
  /\ EndTurn(t)
  /\ UNCHANGED <<authorized, done, current, main, drainVars, turns>>

-------------------------------------------------------------------------------
HookEnds(k) ==
  /\ k \in hooks
  /\ hooks' = hooks \ {k}
  /\ updated' = TRUE
  /\ UNCHANGED <<handleVars, futVars, orphans, task, speechQ, current, main, draining, drain,
                 closed, turnVars>>

Drain ==
  /\ drain = "no" /\ ~closed
  /\ drain' = "waiting"
  /\ draining' = TRUE
  /\ hooks' = hooks \cup {"on_exit"}
  /\ updated' = TRUE
  /\ UNCHANGED <<handleVars, futVars, orphans, task, speechQ, current, main, closed, turnVars>>

DrainReturns ==
  /\ drain = "waiting" /\ main = "ended"
  /\ drain' = "returned"
  /\ UNCHANGED <<handleVars, futVars, orphans, task, mainVars, draining, closed, hooks,
                 turnVars>>

\* aclose holds the same lock as drain.  What it cancels is _main_task, not the
\* speech tasks.
Aclose ==
  /\ ~closed /\ drain # "waiting"
  /\ closed' = TRUE
  /\ main' = IF main = "ended" THEN main ELSE "cancelled"
  /\ UNCHANGED <<handleVars, futVars, orphans, task, speechQ, current, updated, draining,
                 drain, hooks, turnVars>>

-------------------------------------------------------------------------------
SpeechStep(h) ==
  SpeechGoesOn(h) \/ PlayoutEnds(h) \/ StopPlaying(h) \/ PlayingStopped(h) \/ ToolsEnd(h)

TurnStep(t) == TurnStarts(t) \/ TurnIsIgnored(t) \/ TurnReplies(t)

\* What the event loop runs once it is ready, whatever users and application do.
Runs ==
  \/ MainWakes \/ MainContinues \/ DrainReturns
  \/ \E h \in Speeches : SpeechStep(h)
  \/ \E t \in Turns : TurnStep(t)
  \/ \E k \in Hooks : HookEnds(k)

Next ==
  \/ \E may \in SayMay, noTools \in BOOLEAN : Say(may, noTools)
  \/ \E h \in Speeches : InterruptHandle(h)
  \/ InterruptActivity
  \/ EndOfTurn
  \/ Drain \/ Aclose
  \/ Runs

Spec == Init /\ [][Next]_vars

\* Audio that plays comes to its end, a cleared buffer is confirmed, and tools, hooks
\* and on_user_turn_completed return: what is ready does not stay so for ever.
FairSpec == Spec /\ WF_vars(Runs)

-------------------------------------------------------------------------------
\* Speeches play one at a time and in the order in which they were scheduled: while
\* one is played or stopped, every earlier one is over, whatever was interrupted
\* and whenever the agent drains or closes.
PlaysInTurn ==
  \A h \in Speeches : task[h] \in {"playing", "stopping"} =>
    \A g \in 1 .. h - 1 : g \in done \cup orphans

\* drain leaves nothing behind: every speech created before or meanwhile is over,
\* with its tools and their replies, and so is every user turn ("When draining,
\* every task created with this method will be awaited").
DrainedCompletely ==
  drain = "returned" => NoSpeechTask /\ speechQ = <<>> /\ 1 .. created \subseteq done

\* Every speech that was scheduled is played or interrupted to its end, also when
\* the agent starts to drain before its turn comes.  Only an aclose that no drain
\* went before leaves speeches, and whoever awaits them, behind for ever.
ScheduledIsOver ==
  \A h \in Speeches : h <= created /\ h \notin orphans ~> h \in done \/ main = "cancelled"

\* drain returns once no user turn is being completed, if none of them was refused
\* its reply.
DrainReturnsWithoutOrphans ==
  drain = "waiting" /\ orphans = {} /\ (\A t \in Turns : ~TurnRuns(t))
    ~> drain = "returned"

\* drain returns ("If we're draining and there are no more speech tasks, we can
\* exit"), whatever the activity was doing.
DrainAlwaysReturns == drain = "waiting" ~> drain = "returned"

\* AgentActivity keeps the promise of ActivityLife, by which the session uses it.
Phase ==
  CASE main = "cancelled" -> "cancelled"
    [] main = "ended" -> "drained"
    [] main \in {"waiting", "playing"} /\ draining -> "draining"
    [] OTHER -> "open"

Self == "self"
Life == INSTANCE ActivityLife
          WITH Activities <- {Self},
               busy <- {a \in {Self} : ~NoSpeechTask}, phase <- [a \in {Self} |-> Phase]
KeepsLife == Life!Spec
===============================================================================
