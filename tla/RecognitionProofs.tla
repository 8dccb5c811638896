--------------------------- MODULE RecognitionProofs ---------------------------
(***************************************************************************)
(* AudioRecognition delivers every word at most once and in order, and its *)
(* aclose leaves nothing behind, for any number of transcripts, speeches,  *)
(* commits and clears.  aclose cancels one task after the other while the  *)
(* remaining ones still run and start others, so the invariant says for    *)
(* each of its awaits what can no longer start.                            *)
(***************************************************************************)
EXTENDS Recognition, SequenceTheorems, TLAPS

\* A stream that clear_user_turn replaced runs only until it is cancelled.
OneStream == ~stray => streams \subseteq {stream} \cup cancelling

\* What aclose has ended so far stays ended.
Quiet ==
  ~stray =>
    /\ closing # "no" => cancelling = {}
    /\ closing \in {"stt", "vad", "eou", "closed"} => commit # "waiting"
    /\ closing \in {"vad", "eou", "closed"} => streams = {}
    /\ closing \in {"eou", "closed"} => ~vad
    /\ closing = "closed" => eou # "waiting"

IInv == OneStream /\ Quiet

-------------------------------------------------------------------------------
LEMMA OneStreamNext ==
  ASSUME OneStream, [Next]_vars
  PROVE  OneStream'
<1>. USE DEF OneStream, RunEou, Ignored, turnVars, streamVars, countVars, historyVars
<1>1. ASSUME NEW s \in Streams, FinalTranscript(s) PROVE OneStream'
  BY <1>1 DEF FinalTranscript
<1>2. ASSUME NEW s \in Streams, InterimTranscript(s) PROVE OneStream'
  BY <1>2 DEF InterimTranscript
<1>3. CASE StartOfSpeech
  BY <1>3 DEF StartOfSpeech
<1>4. CASE CommitUserTurn
  BY <1>4 DEF CommitUserTurn
<1>5. CASE ClearUserTurn
  BY <1>5 DEF ClearUserTurn
<1>6. CASE AcloseBegins
  BY <1>6 DEF AcloseBegins
<1>7. CASE EndOfSpeech
  BY <1>7 DEF EndOfSpeech
<1>8. CASE EouFires
  BY <1>8 DEF EouFires
<1>9. CASE EouFails
  BY <1>9 DEF EouFails
<1>10. CASE CommitFires
  BY <1>10 DEF CommitFires
<1>11. ASSUME NEW s \in Streams, CancelsStream(s) PROVE OneStream'
  BY <1>11 DEF CancelsStream
<1>12. CASE AcloseCommit
  BY <1>12 DEF AcloseCommit
<1>13. CASE AcloseStt
  BY <1>13 DEF AcloseStt
<1>14. CASE AcloseVad
  BY <1>14 DEF AcloseVad
<1>15. CASE AcloseEou
  BY <1>15 DEF AcloseEou
<1>16. CASE UNCHANGED vars
  BY <1>16 DEF vars
<1>. QED
  BY <1>1, <1>2, <1>3, <1>4, <1>5, <1>6, <1>7, <1>8, <1>9,
     <1>10, <1>11, <1>12, <1>13, <1>14, <1>15, <1>16 DEF Next, Runs, Aclose

LEMMA QuietNext ==
  ASSUME OneStream, Quiet, [Next]_vars
  PROVE  Quiet'
<1>. USE DEF OneStream, Quiet, RunEou, Ignored, turnVars, streamVars, countVars, historyVars
<1>1. ASSUME NEW s \in Streams, FinalTranscript(s) PROVE Quiet'
  BY <1>1 DEF FinalTranscript
<1>2. ASSUME NEW s \in Streams, InterimTranscript(s) PROVE Quiet'
  BY <1>2 DEF InterimTranscript
<1>3. CASE StartOfSpeech
  BY <1>3 DEF StartOfSpeech
<1>4. CASE CommitUserTurn
  BY <1>4 DEF CommitUserTurn
<1>5. CASE ClearUserTurn
  BY <1>5 DEF ClearUserTurn
<1>6. CASE AcloseBegins
  BY <1>6 DEF AcloseBegins
<1>7. CASE EndOfSpeech
  BY <1>7 DEF EndOfSpeech
<1>8. CASE EouFires
  BY <1>8 DEF EouFires
<1>9. CASE EouFails
  BY <1>9 DEF EouFails
<1>10. CASE CommitFires
  BY <1>10 DEF CommitFires
<1>11. ASSUME NEW s \in Streams, CancelsStream(s) PROVE Quiet'
  BY <1>11 DEF CancelsStream
<1>12. CASE AcloseCommit
  BY <1>12 DEF AcloseCommit
<1>13. CASE AcloseStt
  BY <1>13 DEF AcloseStt
<1>14. CASE AcloseVad
  BY <1>14 DEF AcloseVad
<1>15. CASE AcloseEou
  BY <1>15 DEF AcloseEou
<1>16. CASE UNCHANGED vars
  BY <1>16 DEF vars
<1>. QED
  BY <1>1, <1>2, <1>3, <1>4, <1>5, <1>6, <1>7, <1>8, <1>9,
     <1>10, <1>11, <1>12, <1>13, <1>14, <1>15, <1>16 DEF Next, Runs, Aclose

-------------------------------------------------------------------------------
\* What FinalWords and InOrder make of longer sequences.
LEMMA FinalWordsConcat ==
  ASSUME NEW s \in Seq(Item), NEW t \in Seq(Item)
  PROVE  FinalWords(s \o t) = FinalWords(s) \cup FinalWords(t)
<1>1. /\ Len(s) \in Nat /\ Len(t) \in Nat /\ Len(s \o t) = Len(s) + Len(t)
      /\ \A i \in 1 .. Len(s) : (s \o t)[i] = s[i]
      /\ \A i \in 1 .. Len(t) : (s \o t)[Len(s) + i] = t[i]
  <2>1. \A i \in 1 .. Len(s) + Len(t) :
          (s \o t)[i] = IF i <= Len(s) THEN s[i] ELSE t[i - Len(s)]
    BY ConcatProperties
  <2>2. Len(s) \in Nat /\ Len(t) \in Nat /\ Len(s \o t) = Len(s) + Len(t)
    BY ConcatProperties, LenProperties
  <2>3. ASSUME NEW i \in 1 .. Len(t)
        PROVE  (s \o t)[Len(s) + i] = t[i]
    <3>1. Len(s) + i \in 1 .. Len(s) + Len(t) /\ ~(Len(s) + i <= Len(s)) /\ (Len(s) + i) - Len(s) = i
      BY <2>2
    <3>. QED  BY <2>1, <3>1
  <2>. QED  BY <2>1, <2>2, <2>3
<1>. DEFINE st == s \o t
<1>2. /\ Len(st) = Len(s) + Len(t)
      /\ \A i \in 1 .. Len(s) : st[i] = s[i]
      /\ \A i \in 1 .. Len(t) : st[Len(s) + i] = t[i]
  BY <1>1
<1>3. Len(s) \in Nat /\ Len(t) \in Nat  BY <1>1
<1>. HIDE DEF st
<1>4. ASSUME NEW w \in FinalWords(st)
      PROVE  w \in FinalWords(s) \cup FinalWords(t)
  <2>1. PICK i \in 1 .. Len(st) : st[i].final /\ w = st[i].word
    BY DEF FinalWords
  <2>2. CASE i \in 1 .. Len(s)
    BY <1>2, <2>1, <2>2 DEF FinalWords
  <2>3. CASE i \notin 1 .. Len(s)
    <3>1. i - Len(s) \in 1 .. Len(t) /\ Len(s) + (i - Len(s)) = i
      BY <1>2, <1>3, <2>3
    <3>2. st[i] = t[i - Len(s)]
      BY <1>2, <3>1
    <3>. QED  BY <2>1, <3>1, <3>2 DEF FinalWords
  <2>. QED  BY <2>2, <2>3
<1>5. ASSUME NEW w \in FinalWords(s)
      PROVE  w \in FinalWords(st)
  <2>1. PICK i \in 1 .. Len(s) : s[i].final /\ w = s[i].word
    BY DEF FinalWords
  <2>2. i \in 1 .. Len(st)  BY <1>2, <1>3
  <2>. QED  BY <1>2, <2>1, <2>2 DEF FinalWords
<1>6. ASSUME NEW w \in FinalWords(t)
      PROVE  w \in FinalWords(st)
  <2>1. PICK i \in 1 .. Len(t) : t[i].final /\ w = t[i].word
    BY DEF FinalWords
  <2>2. Len(s) + i \in 1 .. Len(st)  BY <1>2, <1>3
  <2>. QED  BY <1>2, <2>1, <2>2 DEF FinalWords
<1>. QED  BY <1>4, <1>5, <1>6 DEF st

LEMMA FinalWordsOne ==
  ASSUME NEW s \in Seq(Item), NEW e \in Item
  PROVE  FinalWords(Append(s, e)) = FinalWords(s) \cup (IF e.final THEN {e.word} ELSE {})
<1>1. <<e>> \in Seq(Item) /\ Append(s, e) = s \o <<e>>
  BY AppendIsConcat
<1>2. FinalWords(<<e>>) = IF e.final THEN {e.word} ELSE {}
  BY DEF FinalWords
<1>. QED  BY <1>1, <1>2, FinalWordsConcat

LEMMA InOrderAppend ==
  ASSUME NEW s \in Seq(Item), NEW e \in Item, InOrder(s),
         e.final => \A w \in FinalWords(s) : w < e.word
  PROVE  InOrder(Append(s, e))
<1>. DEFINE u == Append(s, e)
<1>1. /\ Len(s) \in Nat /\ Len(u) = Len(s) + 1 /\ u[Len(s) + 1] = e
      /\ \A i \in 1 .. Len(s) : u[i] = s[i]
  BY AppendProperties, LenProperties
<1>. HIDE DEF u
<1>2. ASSUME NEW i \in 1 .. Len(u), NEW k \in 1 .. Len(u), i < k, u[i].final, u[k].final
      PROVE  u[i].word < u[k].word
  <2>1. i \in 1 .. Len(s) /\ (k \in 1 .. Len(s) \/ k = Len(s) + 1)
    BY <1>1, <1>2
  <2>2. CASE k \in 1 .. Len(s)
    BY <1>1, <1>2, <2>1, <2>2 DEF InOrder
  <2>3. CASE k = Len(s) + 1
    <3>1. u[i].word \in FinalWords(s)
      BY <1>1, <1>2, <2>1 DEF FinalWords
    <3>. QED  BY <1>1, <1>2, <2>3, <3>1
  <2>. QED  BY <2>1, <2>2, <2>3
<1>3. InOrder(u)  BY <1>2 DEF InOrder
<1>. QED  BY <1>3 DEF u

\* In a sequence that is in order, what two parts of it hold is different.
LEMMA InOrderParts ==
  ASSUME NEW s \in Seq(Item), NEW t \in Seq(Item), InOrder(s \o t)
  PROVE  InOrder(s) /\ FinalWords(s) \cap FinalWords(t) = {}
<1>. DEFINE st == s \o t
<1>1. /\ Len(s) \in Nat /\ Len(t) \in Nat /\ Len(st) = Len(s) + Len(t)
      /\ \A i \in 1 .. Len(st) : st[i] = IF i <= Len(s) THEN s[i] ELSE t[i - Len(s)]
  BY ConcatProperties, LenProperties
<1>2. InOrder(st)  OBVIOUS
<1>. HIDE DEF st
<1>3. \A i \in 1 .. Len(s) : i \in 1 .. Len(st) /\ st[i] = s[i]
  BY <1>1
<1>4. ASSUME NEW i \in 1 .. Len(t)
      PROVE  Len(s) + i \in 1 .. Len(st) /\ st[Len(s) + i] = t[i]
  <2>1. Len(s) + i \in 1 .. Len(st) /\ ~(Len(s) + i <= Len(s)) /\ (Len(s) + i) - Len(s) = i
    BY <1>1
  <2>. QED  BY <1>1, <2>1
<1>5. InOrder(s)
  BY <1>2, <1>3 DEF InOrder
<1>6. ASSUME NEW w \in FinalWords(s), w \in FinalWords(t)
      PROVE  FALSE
  <2>1. PICK i \in 1 .. Len(s) : s[i].final /\ w = s[i].word
    BY DEF FinalWords
  <2>2. PICK k \in 1 .. Len(t) : t[k].final /\ w = t[k].word
    BY <1>6 DEF FinalWords
  <2>3. i < Len(s) + k  BY <1>1
  <2>4. st[i].word < st[Len(s) + k].word
    BY <1>2, <1>3, <1>4, <2>1, <2>2, <2>3 DEF InOrder
  <2>5. w \in Nat
    <3>1. s[i] \in Item  BY ElementOfSeq
    <3>. QED  BY <2>1, <3>1 DEF Item, Words
  <2>6. st[i].word = w  BY <1>3, <2>1
  <2>7. st[Len(s) + k].word = w  BY <1>4, <2>2
  <2>. QED  BY <2>4, <2>5, <2>6, <2>7
<1>. QED  BY <1>5, <1>6

-------------------------------------------------------------------------------
\* The steps, told apart by what they do to the turns.
Rests ==
  /\ UNCHANGED <<transcript, delivered, accepted, cleared>>
  /\ heard' \in {heard, heard + 1}

Hears ==
  /\ heard' = heard + 1
  /\ transcript' = Append(transcript, Entry(heard', TRUE))
  /\ accepted' = accepted \cup {heard'}
  /\ heard' \in Words
  /\ UNCHANGED <<delivered, cleared>>

Anticipates ==
  /\ interim \in Words
  /\ transcript' = Append(transcript, Entry(interim, FALSE))
  /\ UNCHANGED <<delivered, heard, accepted, cleared>>

Delivers ==
  /\ delivered' = delivered \o transcript /\ transcript' = <<>>
  /\ UNCHANGED <<heard, accepted, cleared>>

Drops ==
  /\ transcript' = <<>> /\ cleared' = cleared \cup FinalWords(transcript)
  /\ UNCHANGED <<delivered, heard, accepted>>

TurnStep == Rests \/ Hears \/ Anticipates \/ Delivers \/ Drops

Turns == Seq(Item)

Outcomes == {"none", "waiting", "delivered", "refused", "cut", "cancelled"}

\* The types, with what TypeOK does not say of the streams and of the words.
Plain ==
  /\ manual \in BOOLEAN
  /\ interim \in 0 .. MaxHeard
  /\ committed \in BOOLEAN /\ speaking \in BOOLEAN /\ vad \in BOOLEAN /\ stray \in BOOLEAN
  /\ eou \in Outcomes
  /\ commit \in {"none", "waiting", "over"}
  /\ closing \in {"no", "commit", "stt", "vad", "eou", "closed"}
  /\ heard \in 0 .. MaxHeard /\ starts \in 0 .. MaxStarts
  /\ commits \in 0 .. MaxCommits /\ clears \in 0 .. MaxClears
  /\ stream = clears + 1 /\ streams \subseteq 1 .. stream
  /\ cancelling \subseteq streams \ {stream}

Spoken ==
  /\ transcript \in Turns /\ delivered \in Turns
  /\ accepted \subseteq 1 .. heard /\ cleared \subseteq accepted
  /\ HeardOnce

LEMMA TurnSteps ==
  ASSUME Plain, [Next]_vars
  PROVE  TurnStep
<1>. USE DEF TurnStep, turnVars, streamVars, countVars, historyVars
<1>1. ASSUME NEW s \in Streams, FinalTranscript(s) PROVE TurnStep
  <2>1. heard' \in Words
    BY <1>1, RecognitionAssumption DEF FinalTranscript, Words, Plain
  <2>2. CASE Ignored(FALSE)
    BY <1>1, <2>2 DEF FinalTranscript, Rests
  <2>3. CASE ~Ignored(FALSE)
    BY <1>1, <2>1, <2>3 DEF FinalTranscript, Hears
  <2>. QED  BY <2>2, <2>3
<1>2. ASSUME NEW s \in Streams, InterimTranscript(s) PROVE TurnStep
  BY <1>2 DEF InterimTranscript, Rests
<1>3. CASE StartOfSpeech
  BY <1>3 DEF StartOfSpeech, Rests
<1>4. CASE CommitUserTurn
  BY <1>4 DEF CommitUserTurn, Rests
<1>5. CASE ClearUserTurn
  BY <1>5 DEF ClearUserTurn, Drops
<1>6. CASE AcloseBegins
  BY <1>6 DEF AcloseBegins, Rests
<1>7. CASE EndOfSpeech
  BY <1>7 DEF EndOfSpeech, Rests
<1>8. CASE EouFires
  <2>1. CASE delivered' = delivered \o transcript /\ transcript' = <<>>
    BY <1>8, <2>1 DEF EouFires, Delivers
  <2>2. CASE UNCHANGED <<transcript, delivered>>
    BY <1>8, <2>2 DEF EouFires, Rests
  <2>. QED  BY <1>8, <2>1, <2>2 DEF EouFires
<1>9. CASE EouFails
  BY <1>9 DEF EouFails, Rests
<1>10. CASE CommitFires
  <2>1. CASE interim = 0
    BY <1>10, <2>1 DEF CommitFires, Rests
  <2>2. CASE interim # 0
    <3>1. interim \in Words
      BY <2>2 DEF Plain, Words
    <3>. QED  BY <1>10, <2>2, <3>1 DEF CommitFires, Anticipates
  <2>. QED  BY <2>1, <2>2
<1>11. ASSUME NEW s \in Streams, CancelsStream(s) PROVE TurnStep
  BY <1>11 DEF CancelsStream, Rests
<1>12. CASE AcloseCommit
  BY <1>12 DEF AcloseCommit, Rests
<1>13. CASE AcloseStt
  BY <1>13 DEF AcloseStt, Rests
<1>14. CASE AcloseVad
  BY <1>14 DEF AcloseVad, Rests
<1>15. CASE AcloseEou
  BY <1>15 DEF AcloseEou, Rests
<1>16. CASE UNCHANGED vars
  BY <1>16 DEF vars, Rests
<1>. QED
  BY <1>1, <1>2, <1>3, <1>4, <1>5, <1>6, <1>7, <1>8,
     <1>9, <1>10, <1>11, <1>12, <1>13, <1>14, <1>15, <1>16 DEF Next, Runs, Aclose

LEMMA PlainNext ==
  ASSUME Plain, [Next]_vars
  PROVE  Plain'
<1>. USE RecognitionAssumption DEF Plain, Outcomes, turnVars, streamVars, countVars, historyVars
<1>1. ASSUME NEW s \in Streams, FinalTranscript(s) PROVE Plain'
  <2>1. heard' \in 0 .. MaxHeard
    BY <1>1 DEF FinalTranscript
  <2>2. eou' \in Outcomes
    BY <1>1 DEF FinalTranscript, RunEou
  <2>3. interim' = interim \/ interim' = 0
    BY <1>1 DEF FinalTranscript
  <2>4. committed' \in BOOLEAN
    BY <1>1 DEF FinalTranscript
  <2>. QED  BY <1>1, <2>1, <2>2, <2>3, <2>4 DEF FinalTranscript
<1>2. ASSUME NEW s \in Streams, InterimTranscript(s) PROVE Plain'
  BY <1>2 DEF InterimTranscript
<1>3. CASE StartOfSpeech
  BY <1>3 DEF StartOfSpeech
<1>4. CASE CommitUserTurn
  BY <1>4 DEF CommitUserTurn
<1>5. CASE ClearUserTurn
  <2>1. clears' \in 0 .. MaxClears /\ stream' = clears' + 1 /\ stream' \notin streams
      /\ committed' = FALSE /\ interim' = 0 /\ stray' \in BOOLEAN
    BY <1>5 DEF ClearUserTurn
  <2>2. streams' \subseteq 1 .. stream'
    BY <1>5, <2>1 DEF ClearUserTurn
  <2>3. cancelling' \subseteq streams' \ {stream'}
    BY <1>5, <2>1 DEF ClearUserTurn
  <2>4. UNCHANGED <<manual, eou, speaking, commit, vad, closing, heard, starts, commits>>
    BY <1>5 DEF ClearUserTurn
  <2>5. interim' \in 0 .. MaxHeard
    BY <2>1
  <2>6. manual' \in BOOLEAN /\ committed' \in BOOLEAN /\ speaking' \in BOOLEAN /\ vad' \in BOOLEAN
    BY <2>1, <2>4
  <2>7. /\ eou' \in Outcomes /\ commit' \in {"none", "waiting", "over"}
        /\ closing' \in {"no", "commit", "stt", "vad", "eou", "closed"}
        /\ heard' \in 0 .. MaxHeard /\ starts' \in 0 .. MaxStarts /\ commits' \in 0 .. MaxCommits
    BY <2>4
  <2>. QED  BY <2>1, <2>2, <2>3, <2>5, <2>6, <2>7
<1>6. CASE AcloseBegins
  BY <1>6 DEF AcloseBegins
<1>7. CASE EndOfSpeech
  <2>1. eou' \in Outcomes
    BY <1>7 DEF EndOfSpeech, RunEou
  <2>. QED  BY <1>7, <2>1 DEF EndOfSpeech
<1>8. CASE EouFires
  BY <1>8 DEF EouFires
<1>9. CASE EouFails
  BY <1>9 DEF EouFails
<1>10. CASE CommitFires
  <2>1. eou' \in Outcomes
    BY <1>10 DEF CommitFires, RunEou
  <2>. QED  BY <1>10, <2>1 DEF CommitFires
<1>11. ASSUME NEW s \in Streams, CancelsStream(s) PROVE Plain'
  BY <1>11 DEF CancelsStream
<1>12. CASE AcloseCommit
  BY <1>12 DEF AcloseCommit
<1>13. CASE AcloseStt
  BY <1>13 DEF AcloseStt
<1>14. CASE AcloseVad
  BY <1>14 DEF AcloseVad
<1>15. CASE AcloseEou
  BY <1>15 DEF AcloseEou
<1>16. CASE UNCHANGED vars
  BY <1>16 DEF vars
<1>. QED
  BY <1>1, <1>2, <1>3, <1>4, <1>5, <1>6, <1>7, <1>8,
     <1>9, <1>10, <1>11, <1>12, <1>13, <1>14, <1>15, <1>16 DEF Next, Runs, Aclose

LEMMA SpokenNext ==
  ASSUME Plain, Spoken, [Next]_vars
  PROVE  Spoken'
<1>. DEFINE turns == delivered \o transcript
<1>1. transcript \in Turns /\ delivered \in Turns /\ heard \in Nat
  BY RecognitionAssumption DEF Spoken, Plain
<1>2. turns \in Turns
  BY <1>1, ConcatProperties DEF Turns
<1>3. /\ InOrder(turns) /\ FinalWords(turns) = accepted \ cleared
      /\ accepted \subseteq 1 .. heard /\ cleared \subseteq accepted
  BY DEF Spoken, HeardOnce
<1>4. ASSUME NEW e \in Item, transcript' = Append(transcript, e), UNCHANGED delivered
      PROVE  /\ transcript' \in Turns /\ delivered' \in Turns
             /\ turns' = Append(turns, e)
  <2>1. /\ <<e>> \in Turns /\ Append(transcript, e) = transcript \o <<e>>
        /\ Append(turns, e) = turns \o <<e>>
    BY <1>1, <1>2, AppendIsConcat DEF Turns
  <2>2. delivered \o (transcript \o <<e>>) = (delivered \o transcript) \o <<e>>
    BY <1>1, <2>1, ConcatAssociative DEF Turns
  <2>3. Append(transcript, e) \in Turns
    BY <1>1, AppendProperties DEF Turns
  <2>. QED  BY <1>1, <1>4, <2>1, <2>2, <2>3
<1>5. CASE Rests
  <2>1. turns' = turns  BY <1>5 DEF Rests
  <2>2. accepted \subseteq 1 .. heard'  BY <1>1, <1>3, <1>5 DEF Rests
  <2>. QED  BY <1>1, <1>3, <1>5, <2>1, <2>2 DEF Rests, Spoken, HeardOnce
<1>6. CASE Hears
  <2>. DEFINE e == Entry(heard + 1, TRUE)
  <2>1. e \in Item /\ e.final /\ e.word = heard + 1
    BY <1>6 DEF Hears, Entry, Item
  <2>2. transcript' = Append(transcript, e) /\ UNCHANGED delivered
    BY <1>6 DEF Hears
  <2>3. transcript' \in Turns /\ delivered' \in Turns /\ turns' = Append(turns, e)
    BY <1>4, <2>1, <2>2
  <2>4. \A w \in FinalWords(turns) : w < e.word
    <3>1. \A w \in FinalWords(turns) : w \in 1 .. heard  BY <1>3
    <3>2. \A w \in 1 .. heard : w < heard + 1  BY <1>1
    <3>. QED  BY <2>1, <3>1, <3>2
  <2>5. InOrder(turns')
    BY <1>2, <1>3, <2>1, <2>3, <2>4, InOrderAppend DEF Turns
  <2>6. FinalWords(turns') = FinalWords(turns) \cup {heard + 1}
    BY <1>2, <2>1, <2>3, FinalWordsOne DEF Turns
  <2>7. accepted' = accepted \cup {heard + 1} /\ cleared' = cleared /\ heard' = heard + 1
    BY <1>6 DEF Hears
  <2>8. FinalWords(turns') = accepted' \ cleared'
    BY <1>1, <1>3, <2>6, <2>7
  <2>9. accepted' \subseteq 1 .. heard' /\ cleared' \subseteq accepted'
    BY <1>1, <1>3, <2>7
  <2>. QED  BY <2>3, <2>5, <2>8, <2>9 DEF Spoken, HeardOnce
<1>7. CASE Anticipates
  <2>. DEFINE e == Entry(interim, FALSE)
  <2>1. e \in Item /\ ~e.final
    BY <1>7 DEF Anticipates, Entry, Item
  <2>2. transcript' = Append(transcript, e) /\ UNCHANGED <<delivered, heard, accepted, cleared>>
    BY <1>7 DEF Anticipates
  <2>3. transcript' \in Turns /\ delivered' \in Turns /\ turns' = Append(turns, e)
    BY <1>4, <2>1, <2>2
  <2>4. InOrder(turns')
    BY <1>2, <1>3, <2>1, <2>3, InOrderAppend DEF Turns
  <2>5. FinalWords(turns') = FinalWords(turns)
    BY <1>2, <2>1, <2>3, FinalWordsOne DEF Turns
  <2>. QED  BY <1>3, <2>2, <2>3, <2>4, <2>5 DEF Spoken, HeardOnce
<1>8. <<>> \in Turns
  BY EmptySeq DEF Turns
<1>9. CASE Delivers
  <2>1. delivered' = turns /\ transcript' = <<>> /\ UNCHANGED <<heard, accepted, cleared>>
    BY <1>9 DEF Delivers
  <2>2. turns' = turns
    BY <1>2, <2>1, ConcatEmptySeq DEF Turns
  <2>. QED  BY <1>2, <1>3, <1>8, <2>1, <2>2 DEF Spoken, HeardOnce
<1>10. CASE Drops
  <2>1. /\ transcript' = <<>> /\ cleared' = cleared \cup FinalWords(transcript)
        /\ UNCHANGED <<delivered, heard, accepted>>
    BY <1>10 DEF Drops
  <2>2. turns' = delivered
    BY <1>1, <2>1, ConcatEmptySeq DEF Turns
  <2>3. InOrder(delivered) /\ FinalWords(delivered) \cap FinalWords(transcript) = {}
    BY <1>1, <1>3, InOrderParts DEF Turns
  <2>4. FinalWords(turns) = FinalWords(delivered) \cup FinalWords(transcript)
    BY <1>1, FinalWordsConcat DEF Turns
  <2>5. FinalWords(turns') = accepted' \ cleared' /\ cleared' \subseteq accepted'
    BY <1>3, <2>1, <2>2, <2>3, <2>4
  <2>. QED  BY <1>1, <1>3, <1>8, <2>1, <2>2, <2>3, <2>5 DEF Spoken, HeardOnce
<1>. QED  BY <1>5, <1>6, <1>7, <1>9, <1>10, TurnSteps DEF TurnStep

LEMMA Invariance == Spec => [](Plain /\ Spoken)
<1>1. Init => Plain
  <2>. SUFFICES ASSUME Init PROVE Plain
    OBVIOUS
  <2>1. manual \in BOOLEAN
    BY RecognitionAssumption DEF Init
  <2>2. streams \subseteq 1 .. stream /\ cancelling \subseteq streams \ {stream}
    BY DEF Init
  <2>3. /\ interim \in 0 .. MaxHeard /\ heard \in 0 .. MaxHeard /\ starts \in 0 .. MaxStarts
        /\ commits \in 0 .. MaxCommits /\ clears \in 0 .. MaxClears /\ stream = clears + 1
    BY RecognitionAssumption DEF Init
  <2>4. committed \in BOOLEAN /\ speaking \in BOOLEAN /\ vad \in BOOLEAN /\ stray \in BOOLEAN
    BY DEF Init
  <2>5. eou \in Outcomes /\ commit = "none" /\ closing = "no"
    BY DEF Init, Outcomes
  <2>. QED  BY <2>1, <2>2, <2>3, <2>4, <2>5 DEF Plain
<1>2. Init => Spoken
  <2>1. <<>> \in Turns /\ <<>> \o <<>> = <<>>
    BY EmptySeq, ConcatEmptySeq DEF Turns
  <2>2. InOrder(<<>>) /\ FinalWords(<<>>) = {}
    BY DEF InOrder, FinalWords
  <2>. QED  BY <2>1, <2>2 DEF Init, Spoken, HeardOnce
<1>3. Plain /\ Spoken /\ [Next]_vars => Plain' /\ Spoken'
  BY PlainNext, SpokenNext
<1>. QED  BY <1>1, <1>2, <1>3, PTL DEF Spec

\* The type invariant of the recognition: streams are numbered as clear_user_turn makes them,
\* and a stream whose canceller has not run is an old one that still runs.
THEOREM TypeCorrect == Spec => []TypeOK
<1>1. Plain /\ Spoken => TypeOK
  BY RecognitionAssumption DEF Plain, Spoken, TypeOK, Outcomes, Turns, Words, Streams
<1>. QED  BY <1>1, Invariance, PTL

\* No word is lost, repeated or put out of order, for any number of transcripts and however
\* commits, clears, speeches and refusals of on_end_of_turn fall between them.
THEOREM WordsHeardOnce == Spec => []HeardOnce
<1>1. Spoken => HeardOnce
  BY DEF Spoken
<1>. QED  BY <1>1, Invariance, PTL

-------------------------------------------------------------------------------
\* After aclose no task of the recognition is left to call the closed activity, for any number
\* of transcripts, speeches, commits and clears, unless one of the latter came too late.
THEOREM CloseIsQuiet == Spec => []ClosedIsQuiet
<1>1. Init => IInv
  BY DEF Init, IInv, OneStream, Quiet
<1>2. IInv /\ [Next]_vars => IInv'
  BY OneStreamNext, QuietNext DEF IInv
<1>3. IInv => ClosedIsQuiet
  BY DEF IInv, OneStream, Quiet, ClosedIsQuiet
<1>. QED  BY <1>1, <1>2, <1>3, PTL DEF Spec
===============================================================================
