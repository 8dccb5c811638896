------------------------------ MODULE Recognition ------------------------------
(***************************************************************************)
(* AudioRecognition of voice/audio_recognition.py: how the events of the   *)
(* STT and of the VAD, commit_user_turn and clear_user_turn become user    *)
(* turns, which the end-of-turn task delivers to on_end_of_turn.           *)
(*                                                                         *)
(* Word n is the text of the n-th final transcript; the interim transcript *)
(* before it anticipates word n.  A stream is one run of _stt_task.  The   *)
(* STT, the VAD and the turn detector are external, and so is the hook: it *)
(* has no await, so calling it and clearing the transcript is one step.    *)
(***************************************************************************)
EXTENDS Naturals, Sequences

CONSTANTS Modes,       \* values of manual_turn_detection
          MaxHeard,    \* bound on the final transcripts
          MaxStarts,   \* bound on the START_OF_SPEECH events
          MaxCommits,  \* bound on the calls of commit_user_turn
          MaxClears    \* bound on the calls of clear_user_turn

ASSUME RecognitionAssumption ==
  /\ Modes \subseteq BOOLEAN
  /\ MaxHeard \in Nat /\ MaxStarts \in Nat /\ MaxCommits \in Nat /\ MaxClears \in Nat

Words   == 1 .. MaxHeard
Streams == 1 .. MaxClears + 1

VARIABLES
  manual,      \* _manual_turn_detection
  transcript,  \* _audio_transcript: the words, and whether their text was final
  interim,     \* _audio_interim_transcript: the word it anticipates, or 0
  committed,   \* _user_turn_committed
  speaking,    \* _speaking
  eou,         \* where _end_of_turn_task is, and how it ended
  commit,      \* where _commit_user_turn_atask is
  stream,      \* _stt_atask
  streams,     \* the streams that run
  cancelling,  \* the streams whose cancel_and_wait task, in _tasks, has not run yet
  vad,         \* whether _vad_task runs
  closing,     \* where aclose is
  heard, starts, commits, clears, \* how many of each there were
  accepted,    \* history: the words put into the transcript as final
  cleared,     \* history: those that clear_user_turn dropped from it
  delivered,   \* history: the turns given to on_end_of_turn, one after the other
  stray        \* history: aclose met a canceller that had not run, or calls came after it

turnVars   == <<transcript, interim, committed, eou>>
streamVars == <<stream, streams, cancelling>>
countVars  == <<heard, starts, commits, clears>>
historyVars == <<accepted, cleared, delivered, stray>>
vars == <<manual, turnVars, speaking, commit, streamVars, vad, closing, countVars, historyVars>>

Item == [word : Words, final : BOOLEAN]

TypeOK ==
  /\ manual \in BOOLEAN
  /\ transcript \in Seq(Item) /\ delivered \in Seq(Item)
  /\ interim \in 0 .. MaxHeard
  /\ committed \in BOOLEAN /\ speaking \in BOOLEAN /\ vad \in BOOLEAN /\ stray \in BOOLEAN
  /\ eou \in {"none", "waiting", "delivered", "refused", "cut", "cancelled"}
  /\ commit \in {"none", "waiting", "over"}
  /\ stream \in Streams /\ streams \subseteq Streams
  /\ cancelling \subseteq streams \ {stream}
  /\ closing \in {"no", "commit", "stt", "vad", "eou", "closed"}
  /\ heard \in 0 .. MaxHeard /\ starts \in 0 .. MaxStarts
  /\ commits \in 0 .. MaxCommits /\ clears \in 0 .. MaxClears
  /\ accepted \subseteq Words /\ cleared \subseteq accepted

\* start has been called, with an STT and a VAD.
Init ==
  /\ manual \in Modes
  /\ transcript = <<>> /\ interim = 0 /\ committed = FALSE
  /\ speaking = FALSE /\ eou = "none" /\ commit = "none"
  /\ stream = 1 /\ streams = {1} /\ cancelling = {}
  /\ vad = TRUE /\ closing = "no"
  /\ heard = 0 /\ starts = 0 /\ commits = 0 /\ clears = 0
  /\ accepted = {} /\ cleared = {} /\ delivered = <<>> /\ stray = FALSE

-------------------------------------------------------------------------------
Entry(w, isFinal) == [word |-> w, final |-> isFinal]

\* _run_eou_detection on the transcript text; a pending task is replaced.
RunEou(text) == eou' = IF text = <<>> /\ ~manual THEN eou ELSE "waiting"

\* The first test of _on_stt_event.
Ignored(isInterim) == manual /\ committed /\ (isInterim \/ eou # "waiting")

\* Mutant of FinalTranscript: the words wait for the end of the speech even after it.
FinalTranscriptWaits(s) ==
  /\ s \in streams /\ heard < MaxHeard
  /\ heard' = heard + 1
  /\ ~Ignored(FALSE)
  /\ transcript' = Append(transcript, Entry(heard', TRUE))
  /\ accepted' = accepted \cup {heard'}
  /\ interim' = 0
  /\ UNCHANGED <<manual, committed, eou, speaking, commit, streamVars, vad, closing, starts,
                 commits, clears, cleared, delivered, stray>>

\* _on_stt_event for a final transcript with a text.
FinalTranscript(s) ==
  /\ s \in streams /\ heard < MaxHeard
  /\ heard' = heard + 1
  /\ IF Ignored(FALSE)
       THEN UNCHANGED <<turnVars, accepted>>
       ELSE /\ transcript' = Append(transcript, Entry(heard', TRUE))
            /\ accepted' = accepted \cup {heard'}
            /\ interim' = 0
            /\ IF ~speaking /\ (~manual \/ committed) THEN RunEou(transcript')
                                                      ELSE UNCHANGED eou
            /\ UNCHANGED committed
  /\ UNCHANGED <<manual, speaking, commit, streamVars, vad, closing, starts, commits, clears,
                 cleared, delivered, stray>>

InterimTranscript(s) ==
  /\ s \in streams /\ heard < MaxHeard
  /\ ~Ignored(TRUE)
  /\ interim' = heard + 1
  /\ UNCHANGED <<manual, transcript, committed, eou, speaking, commit, streamVars, vad, closing,
                 countVars, historyVars>>

\* _on_vad_event: START_OF_SPEECH cancels the end-of-turn task in either mode,
StartOfSpeech ==
  /\ vad /\ ~speaking /\ starts < MaxStarts
  /\ starts' = starts + 1
  /\ speaking' = TRUE
  /\ eou' = IF eou = "waiting" THEN "cut" ELSE eou
  /\ UNCHANGED <<manual, transcript, interim, committed, commit, streamVars, vad, closing, heard,
                 commits, clears, historyVars>>

\* Mutant of EndOfSpeech: only a final transcript starts the end-of-turn task.
EndOfSpeechQuiet ==
  /\ vad /\ speaking
  /\ speaking' = FALSE
  /\ UNCHANGED <<manual, turnVars, commit, streamVars, vad, closing, countVars, historyVars>>

\* and END_OF_SPEECH starts it again.
EndOfSpeech ==
  /\ vad /\ speaking
  /\ speaking' = FALSE
  /\ IF manual THEN UNCHANGED eou ELSE RunEou(transcript)
  /\ UNCHANGED <<manual, transcript, interim, committed, commit, streamVars, vad, closing,
                 countVars, historyVars>>

-------------------------------------------------------------------------------
\* Mutant of EouFires: the transcript is kept until the next clear_user_turn.
EouFiresKeeps ==
  /\ eou = "waiting"
  /\ eou' = "delivered"
  /\ delivered' = delivered \o transcript
  /\ UNCHANGED <<manual, transcript, interim, committed, speaking, commit, streamVars, vad,
                 closing, countVars, accepted, cleared, stray>>

\* The delay is over: on_end_of_turn takes the turn, or refuses one that is too short to
\* interrupt the agent, which happens in automatic mode only.
EouFires ==
  /\ eou = "waiting"
  /\ \/ /\ eou' = "delivered"
        /\ delivered' = delivered \o transcript
        /\ transcript' = <<>>
     \/ /\ ~manual
        /\ eou' = "refused"
        /\ UNCHANGED <<transcript, delivered>>
  /\ UNCHANGED <<manual, interim, committed, speaking, commit, streamVars, vad, closing,
                 countVars, accepted, cleared, stray>>

\* predict_end_of_turn raises: the task ends, and its exception is logged.
EouFails ==
  /\ eou = "waiting" /\ ~manual /\ transcript # <<>>
  /\ eou' = "refused"
  /\ UNCHANGED <<manual, transcript, interim, committed, speaking, commit, streamVars, vad,
                 closing, countVars, historyVars>>

\* commit_user_turn replaces the task of an earlier call,
CommitUserTurn ==
  /\ commits < MaxCommits
  /\ commits' = commits + 1
  /\ commit' = "waiting"
  /\ stray' = (stray \/ closing # "no")
  /\ UNCHANGED <<manual, turnVars, speaking, streamVars, vad, closing, heard, starts, clears,
                 accepted, cleared, delivered>>

\* which commits, at once or after its delay, what is there of the turn.
CommitFires ==
  /\ commit = "waiting"
  /\ commit' = "over"
  /\ transcript' = IF interim = 0 THEN transcript ELSE Append(transcript, Entry(interim, FALSE))
  /\ interim' = 0
  /\ RunEou(transcript')
  /\ committed' = TRUE
  /\ UNCHANGED <<manual, speaking, streamVars, vad, closing, countVars, historyVars>>

FinalWords(s) == {s[i].word : i \in {k \in 1 .. Len(s) : s[k].final}}

\* clear_user_turn drops the turn and replaces the stream; the old one runs until the task
\* that cancels it does.  The end-of-turn task goes on.
ClearUserTurn ==
  /\ clears < MaxClears
  /\ clears' = clears + 1
  /\ transcript' = <<>> /\ interim' = 0 /\ committed' = FALSE
  /\ cleared' = cleared \cup FinalWords(transcript)
  /\ stream' = stream + 1
  /\ streams' = streams \cup {stream'}
  /\ cancelling' = cancelling \cup (streams \cap {stream})
  /\ stray' = (stray \/ closing # "no")
  /\ UNCHANGED <<manual, eou, speaking, commit, vad, closing, heard, starts, commits, accepted,
                 delivered>>

CancelsStream(s) ==
  /\ s \in cancelling
  /\ cancelling' = cancelling \ {s} /\ streams' = streams \ {s}
  /\ UNCHANGED <<manual, turnVars, speaking, commit, stream, vad, closing, countVars,
                 historyVars>>

-------------------------------------------------------------------------------
\* aclose cancels the tasks in _tasks first: one that has not run never cancels its stream.
AcloseBegins ==
  /\ closing = "no"
  /\ closing' = "commit"
  /\ cancelling' = {}
  /\ stray' = (stray \/ cancelling # {})
  /\ UNCHANGED <<manual, turnVars, speaking, commit, stream, streams, vad, countVars, accepted,
                 cleared, delivered>>

AcloseCommit ==
  /\ closing = "commit"
  /\ closing' = "stt"
  /\ commit' = IF commit = "waiting" THEN "over" ELSE commit
  /\ UNCHANGED <<manual, turnVars, speaking, streamVars, vad, countVars, historyVars>>

AcloseStt ==
  /\ closing = "stt"
  /\ closing' = "vad"
  /\ streams' = streams \ {stream}
  /\ UNCHANGED <<manual, turnVars, speaking, commit, stream, cancelling, vad, countVars,
                 historyVars>>

AcloseVad ==
  /\ closing = "vad"
  /\ closing' = "eou"
  /\ vad' = FALSE
  /\ UNCHANGED <<manual, turnVars, speaking, commit, streamVars, countVars, historyVars>>

\* Mutant of AcloseEou: the end-of-turn task is not cancelled.
AcloseEouLeft ==
  /\ closing = "eou"
  /\ closing' = "closed"
  /\ UNCHANGED <<manual, turnVars, speaking, commit, streamVars, vad, countVars, historyVars>>

AcloseEou ==
  /\ closing = "eou"
  /\ closing' = "closed"
  /\ eou' = IF eou = "waiting" THEN "cancelled" ELSE eou
  /\ UNCHANGED <<manual, transcript, interim, committed, speaking, commit, streamVars, vad,
                 countVars, historyVars>>

Aclose == AcloseCommit \/ AcloseStt \/ AcloseVad \/ AcloseEou

-------------------------------------------------------------------------------
Runs ==
  \/ EndOfSpeech
  \/ EouFires \/ EouFails \/ CommitFires
  \/ \E s \in Streams : CancelsStream(s)
  \/ Aclose

Next ==
  \/ \E s \in Streams : FinalTranscript(s) \/ InterimTranscript(s)
  \/ StartOfSpeech
  \/ CommitUserTurn \/ ClearUserTurn \/ AcloseBegins
  \/ Runs

Spec == Init /\ [][Next]_vars

\* Delays pass, the detector answers or fails, tasks that are ready run, and whoever speaks
\* pauses.  There are finitely many events, hence finitely many steps between them.
FairSpec == Spec /\ WF_vars(Runs)

-------------------------------------------------------------------------------
InOrder(s) ==
  \A i, k \in 1 .. Len(s) : i < k /\ s[i].final /\ s[k].final => s[i].word < s[k].word

\* Each final transcript that was taken is in the turns delivered or in the one at hand
\* exactly once and in the order of arrival, unless clear_user_turn dropped it, however
\* the end-of-turn task was replaced, cut short or refused.
HeardOnce ==
  LET turns == delivered \o transcript IN
  /\ InOrder(turns)
  /\ FinalWords(turns) = accepted \ cleared

\* In automatic mode what was heard is delivered once the user pauses, unless the hook
\* refuses it or the detector fails.  A turn that was committed is delivered, unless the
\* user starts to speak first: that cancels the task and nothing starts it again.
HeardIsDelivered ==
  /\ ~manual /\ transcript # <<>>
       ~> transcript = <<>> \/ eou = "refused" \/ closing # "no"
  /\ commit = "waiting"
       ~> closing # "no" \/ /\ commit = "over"
                            /\ \/ eou \in {"delivered", "refused", "cut"}
                               \/ transcript = <<>>

\* After aclose no task of the recognition is left to call the closed activity, unless
\* clear_user_turn was called too late for its canceller to run.
ClosedIsQuiet ==
  closing = "closed" /\ ~stray =>
    streams = {} /\ ~vad /\ commit # "waiting" /\ eou # "waiting"
===============================================================================
