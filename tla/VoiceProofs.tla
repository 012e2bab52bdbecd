----------------------------- MODULE VoiceProofs -----------------------------
(***************************************************************************)
(* Proofs about voice in the browser: the button that is held to talk, the *)
(* calls and the voice view that need no hands, and calls over RTC, for    *)
(* every number of presses, calls, rooms, requests and failures: no        *)
(* microphone without a press or a call that listens, no words of an       *)
(* earlier press, one call that is published and heard.                    *)
(***************************************************************************)
EXTENDS HoldToTalk, HandsFree, RtcCalls, SequenceTheorems, TLAPS

(* The button. **************************************************************)

Voices == {"idle", "recording", "recognizing", "preview"}
States == {"idle", "connecting", "active", "error"}

Ui ==
  [voice : Voices, mode : {"voice", "keyboard"}, held : BOOLEAN, cancel : BOOLEAN,
   streaming : BOOLEAN, recording : BOOLEAN, worklet : BOOLEAN, available : BOOLEAN,
   transcript : Nat, spoke : Nat]
Asr == [state : States, text : Nat, active : BOOLEAN]
Mic == [open : SUBSET Nat, wired : SUBSET Nat, ref : Nat, rec : Nat]
Ask == [press : Nat \ {0}, at : {"stream", "wiring", "record"}, live : BOOLEAN]

Upward   == [kind : {"start", "pcm", "stop"}, press : Nat]
Downward == [kind : {"started", "stopped", "error", "transcript"}, text : Nat]
SessionType ==
  [press : Nat, st : {"connecting", "open", "acked", "dying", "closed"}, dead : BOOLEAN,
   timer : BOOLEAN, heard : Nat, gone : BOOLEAN]

\* The variables of page and server keep their types.
Types ==
  /\ ui \in Ui /\ asr \in Asr /\ mic \in Mic /\ asks \subseteq Ask
  /\ fetches \subseteq Nat /\ presses \in Nat /\ faults \in Nat
  /\ up \in Seq(Upward) /\ down \in Seq(Downward)
  /\ sess \in Seq(SessionType) /\ current \in 0..Len(sess)
  /\ configured \in BOOLEAN

(* Where the page is in a press. ********************************************)

\* An upload waits for its answer in one state of the page, alone.
OneUpload ==
  /\ fetches # {} => ui.voice = "recognizing" /\ ~ui.streaming
  /\ \A f, g \in fetches : f = g
  /\ ui.streaming => ui.voice \in {"recording", "recognizing"}

\* While nothing raced, the hook is active, a microphone asked for or open only
\* in a press that records, and it is the one the path in use refers to.
Press ==
  /\ OneUpload
  /\ ui.voice = "recording" => ui.held
  /\ asr.active => ui.voice = "recording" /\ ui.streaming
  /\ \A a, b \in asks : a = b
  /\ \A a \in asks :
       /\ a.live /\ ui.held
       /\ a.at = "record" => ui.voice = "idle" /\ ~asr.active /\ mic.open = {}
       /\ a.at = "stream" => asr.active /\ mic.open = {}
       /\ a.at = "wiring" => asr.active /\ mic.ref = a.press
  /\ mic.open # {} =>
       /\ ui.held /\ ui.voice = "recording"
       /\ IF ui.streaming THEN asr.active /\ mic.open = {mic.ref}
          ELSE ~asr.active /\ mic.open = {mic.rec} /\ mic.rec # 0

\* While no press was late, all words the page has are of the last one.
PageWords ==
  /\ OneUpload
  /\ fetches \subseteq {presses}
  /\ ui.voice = "preview" => ui.transcript = presses
  /\ ui.streaming => asr.text \in {0, presses}
  /\ asr.active /\ ui.available => ui.voice = "recording" /\ ui.streaming
  /\ \A a \in asks : a.at = "record" /\ a.live => ui.voice = "idle"
  /\ \A a, b \in asks : a = b

\* And so are those on their way, and those a session that can answer has heard.
OnTheWay ==
  /\ \A i \in 1..Len(up) : up[i].kind = "pcm" => up[i].press = presses
  /\ \A i \in 1..Len(down) : down[i].kind = "transcript" => down[i].text = presses
  /\ \A n \in 1..Len(sess) : sess[n].gone \/ sess[n].st = "closed" \/ sess[n].heard \in {0, presses}

Words == PageWords /\ OnTheWay

PressUnlessRaced == raced \/ Press
WordsUnlessLate == late \/ Words
ButtonInv == Types /\ PressUnlessRaced /\ WordsUnlessLate

(* What the effects of the page make of a change. ***************************)

LEMMA AfterKeeps ==
  ASSUME NEW u \in Ui, NEW a \in Asr
  PROVE  /\ After(u, a) \in Ui
         /\ After(u, a).held = u.held
         /\ ~u.streaming => After(u, a) = u
<1>1. Settled(u, a.text) \in Ui /\ Settled(u, a.text).held = u.held
  <2> DEFINE v == IF a.text # 0 THEN "preview" ELSE "idle"
  <2> DEFINE t == IF a.text # 0 THEN a.text ELSE u.transcript
  <2>1. /\ v \in Voices /\ t \in Nat
        /\ Settled(u, a.text) = [u EXCEPT !.voice = v, !.transcript = t, !.streaming = FALSE]
    BY DEF Settled, Ui, Asr, Voices
  <2> HIDE DEF v, t
  <2> QED BY <2>1 DEF Ui
<1>2. ASSUME a.state = "error"
      PROVE  u.streaming => After(u, a) \in Ui /\ After(u, a).held = u.held
  <2> DEFINE v == IF u.voice \in {"recording", "recognizing"} THEN "idle" ELSE u.voice
  <2>1. /\ v \in Voices
        /\ u.streaming => After(u, a) = [u EXCEPT !.available = FALSE, !.streaming = FALSE,
                                                  !.recording = FALSE, !.voice = v]
    BY <1>2 DEF After, Ui, Voices
  <2> HIDE DEF v
  <2> QED BY <2>1 DEF Ui
<1> QED BY <1>1, <1>2 DEF After

LEMMA CleanupKeeps ==
  ASSUME NEW m \in Mic
  PROVE  /\ Cleanup(m) \in Mic /\ Cleanup(m).open = m.open \ {m.ref}
         /\ Cleanup(m).ref = 0 /\ Cleanup(m).rec = m.rec
BY DEF Cleanup, Mic

\* A release is of a press that records, on its path, or stops nothing.
LEMMA Released ==
  ASSUME ui \in Ui, PointerUp
  PROVE  \E u \in Ui :
           /\ ~u.held /\ u.voice = ui.voice /\ u.streaming = ui.streaming /\ u.cancel = ui.cancel
           /\ u.available = ui.available /\ u.transcript = ui.transcript /\ u.spoke = ui.spoke
           /\ \/ ui.voice # "recording" /\ ui' = u /\ UNCHANGED <<asr, mic, fetches, up>>
              \/ ui.voice = "recording" /\ ui.streaming /\ StopStreaming(u)
              \/ ui.voice = "recording" /\ ~ui.streaming /\ StopRecorder(u)
<1> DEFINE u == [ui EXCEPT !.held = FALSE, !.recording = IF ui.voice = "recording" THEN FALSE ELSE @]
<1>1. u \in Ui
  BY DEF Ui
<1>2. /\ ~u.held /\ u.voice = ui.voice /\ u.streaming = ui.streaming /\ u.cancel = ui.cancel
      /\ u.available = ui.available /\ u.transcript = ui.transcript /\ u.spoke = ui.spoke
  BY DEF Ui
<1> HIDE DEF u
<1>3. \/ ui.voice # "recording" /\ ui' = u /\ UNCHANGED <<asr, mic, fetches, up>>
      \/ ui.voice = "recording" /\ ui.streaming /\ StopStreaming(u)
      \/ ui.voice = "recording" /\ ~ui.streaming /\ StopRecorder(u)
  <2>1. CASE ui.voice # "recording"
    BY <2>1 DEF PointerUp, u
  <2>2. CASE ui.voice = "recording" /\ ui.streaming
    BY <2>2 DEF PointerUp, u
  <2>3. CASE ui.voice = "recording" /\ ~ui.streaming
    BY <2>3 DEF PointerUp, u
  <2> QED BY <2>1, <2>2, <2>3
<1> QED BY <1>1, <1>2, <1>3

-----------------------------------------------------------------------------
(* Types. *)

LEMMA PageTypes ==
  ASSUME Types, Next
  PROVE  ui' \in Ui /\ asr' \in Asr
<1>1. ui \in Ui /\ asr \in Asr /\ mic \in Mic /\ asks \subseteq Ask /\ fetches \subseteq Nat /\ presses \in Nat
  BY DEF Types
<1>2. CASE PointerDown
  <2>1. ui' \in Ui
    BY ZenonT(60), <1>1, <1>2 DEF PointerDown, StartStreaming, StartRecorder, Ui, Voices
  <2>2. [state |-> "connecting", text |-> 0, active |-> TRUE] \in Asr
    BY DEF Asr, States
  <2>3. asr' \in Asr
    BY <1>1, <1>2, <2>2 DEF PointerDown, StartStreaming, StartRecorder, StartASR
  <2> QED BY <2>1, <2>3
<1>3. CASE PointerMove
  BY <1>1, <1>3 DEF PointerMove, Ui
<1>4. CASE PointerUp
  <2>1. PICK u \in Ui : (ui' = u /\ asr' = asr) \/ StopStreaming(u) \/ StopRecorder(u)
    BY <1>1, <1>4, Released
  <2>3. CASE StopStreaming(u)
    <3>1. asr' \in Asr
      BY <1>1, <2>3 DEF StopStreaming, StopASR, Asr
    <3>2. [u EXCEPT !.voice = "recognizing"] \in Ui
      BY <2>1 DEF Ui, Voices
    <3>5. [u EXCEPT !.voice = "idle", !.streaming = FALSE] \in Ui
      BY <2>1 DEF Ui, Voices
    <3>3. After([u EXCEPT !.voice = "recognizing"], asr') \in Ui
      BY <3>1, <3>2, AfterKeeps
    <3>4. \/ ui' = [u EXCEPT !.voice = "idle", !.streaming = FALSE]
          \/ ui' = After([u EXCEPT !.voice = "recognizing"], asr')
      BY <2>3 DEF StopStreaming
    <3> QED BY <3>1, <3>3, <3>4, <3>5
  <2>4. CASE StopRecorder(u)
    <3>1. [u EXCEPT !.voice = "recognizing"] \in Ui /\ [u EXCEPT !.voice = "idle"] \in Ui
      BY <2>1 DEF Ui, Voices
    <3> QED BY <1>1, <2>4, <3>1 DEF StopRecorder
  <2> QED BY <1>1, <2>1, <2>3, <2>4
<1>5. CASE Speak
  BY <1>1, <1>5 DEF Speak, Ui
<1>6. CASE SafetyTimeout
  BY <1>1, <1>6 DEF SafetyTimeout, Settled, Ui, Asr, Voices
<1>7. CASE PreviewEnds
  <2>1. PreviewSend \in Ui /\ PreviewEdit \in Ui
    BY <1>1 DEF PreviewSend, PreviewEdit, Ui, Voices
  <2> QED BY <1>1, <1>7, <2>1 DEF PreviewEnds
<1>8. CASE ModeToggle
  BY <1>1, <1>8 DEF ModeToggle, Ui, Voices
<1>9. CASE ClientReceives
  <2>1. PICK a : a \in Asr /\ Becomes(ui, a)
    <3>1. Head(down) \in Downward
      BY <1>9 DEF ClientReceives, Types
    <3> DEFINE m == Head(down)
               s == CASE m.kind = "started" -> "active" [] m.kind = "error" -> "error"
                      [] m.kind = "stopped" -> "idle"   [] m.kind = "transcript" -> asr.state
               a == [asr EXCEPT !.state = s, !.text = IF m.kind = "transcript" THEN m.text ELSE @]
    <3>2. s \in States
      BY <1>1, <3>1 DEF Downward, States, Asr
    <3>3. m.kind = "transcript" => m.text \in Nat
      BY <3>1 DEF Downward
    <3>4. Becomes(ui, a)
      BY <1>9 DEF ClientReceives
    <3> HIDE DEF s
    <3>5. a \in Asr
      BY <1>1, <3>2, <3>3 DEF Asr
    <3> QED BY <3>4, <3>5
  <2> QED BY <1>1, <2>1, AfterKeeps DEF Becomes
<1>10. CASE Leave
  <2>1. Mounted(ui.worklet) \in Ui
    BY <1>1 DEF Mounted, Ui, Voices
  <2> QED BY <1>1, <1>10, <2>1 DEF Leave, Asr
<1>11. ASSUME NEW a \in asks, Granted(a) \/ Wired(a) \/ RecorderDenied(a) \/ RecorderGranted(a)
       PROVE  ui' \in Ui /\ asr' \in Asr
  BY ZenonT(60), <1>1, <1>11 DEF Granted, Wired, RecorderDenied, RecorderGranted, Ui, Voices
<1>12. ASSUME NEW a \in asks, StartFails(a) PROVE ui' \in Ui /\ asr' \in Asr
  <2>1. [asr EXCEPT !.state = "error", !.active = FALSE] \in Asr
    BY <1>1 DEF Asr, States
  <2> QED BY <1>1, <1>12, <2>1, AfterKeeps DEF StartFails, Becomes
<1>13. ASSUME NEW f \in fetches, Transcribed(f) PROVE ui' \in Ui /\ asr' \in Asr
  <2>1. [ui EXCEPT !.voice = "preview", !.transcript = f] \in Ui /\ [ui EXCEPT !.voice = "idle"] \in Ui
    BY <1>1 DEF Ui, Voices
  <2> QED BY <1>1, <1>13, <2>1 DEF Transcribed
<1>14. CASE Server
  BY <1>1, <1>14 DEF Server, ServerReceives, ServiceWorks, ServiceFails, page
<1> QED BY <1>2, <1>3, <1>4, <1>5, <1>6, <1>7, <1>8, <1>9, <1>10, <1>11, <1>12, <1>13, <1>14
        DEF Next, Browser

LEMMA MicTypes ==
  ASSUME Types, Next
  PROVE  mic' \in Mic /\ asks' \subseteq Ask
<1>1. mic \in Mic /\ asks \subseteq Ask /\ presses \in Nat
  BY DEF Types
<1>2. CASE PointerDown
  <2>1. /\ [press |-> presses + 1, at |-> "stream", live |-> TRUE] \in Ask
        /\ [press |-> presses + 1, at |-> "record", live |-> TRUE] \in Ask
    BY <1>1 DEF Ask
  <2> QED BY <1>1, <1>2, <2>1 DEF PointerDown, StartStreaming, StartRecorder, StartASR
<1>3. CASE PointerUp
  <2>1. [mic EXCEPT !.open = @ \ {mic.rec}, !.rec = 0] \in Mic
    BY <1>1 DEF Mic
  <2> QED BY <1>1, <1>3, <2>1, CleanupKeeps DEF PointerUp, StopStreaming, StopASR, StopRecorder
<1>4. CASE PointerMove \/ Speak \/ SafetyTimeout \/ PreviewEnds \/ ModeToggle \/ ClientReceives
           \/ Server \/ \E f \in fetches : Transcribed(f)
  BY <1>1, <1>4 DEF PointerMove, Speak, SafetyTimeout, PreviewEnds, ModeToggle, ClientReceives,
                    Server, ServerReceives, ServiceWorks, ServiceFails, page, Transcribed
<1>5. CASE Leave
  <2>1. [[IF asr.active THEN Cleanup(mic) ELSE mic EXCEPT !.ref = 0] EXCEPT !.rec = 0] \in Mic
    BY <1>1, CleanupKeeps DEF Mic
  <2>2. {[a EXCEPT !.live = FALSE] : a \in asks} \subseteq Ask
    BY <1>1 DEF Ask
  <2> QED BY <1>1, <1>5, <2>1, <2>2, CleanupKeeps DEF Leave, Mic
<1>6. ASSUME NEW a \in asks, Granted(a) PROVE mic' \in Mic /\ asks' \subseteq Ask
  <2>1. [a EXCEPT !.at = "wiring"] \in Ask /\ a.press \in Nat
    BY <1>1 DEF Ask
  <2> QED BY <1>1, <1>6, <2>1 DEF Granted, Mic
<1>7. ASSUME NEW a \in asks, Wired(a) \/ RecorderGranted(a) PROVE mic' \in Mic /\ asks' \subseteq Ask
  <2>1. a.press \in Nat
    BY <1>1 DEF Ask
  <2>2. [mic EXCEPT !.wired = @ \cup {a.press}] \in Mic
    BY <1>1, <2>1 DEF Mic
  <2>3. [mic EXCEPT !.open = @ \cup {a.press}, !.rec = IF a.live THEN a.press ELSE @] \in Mic
    BY <1>1, <2>1 DEF Mic
  <2> QED BY <1>1, <1>7, <2>2, <2>3 DEF Wired, RecorderGranted
<1>8. ASSUME NEW a \in asks, StartFails(a) \/ RecorderDenied(a) PROVE mic' \in Mic /\ asks' \subseteq Ask
  BY <1>1, <1>8, CleanupKeeps DEF StartFails, RecorderDenied
<1> QED BY <1>2, <1>3, <1>4, <1>5, <1>6, <1>7, <1>8 DEF Next, Browser

LEMMA DestroyedKeeps ==
  ASSUME NEW s \in SessionType
  PROVE  /\ Destroyed(s) \in SessionType
         /\ Destroyed(s).gone = s.gone /\ Destroyed(s).heard = s.heard
         /\ s.st = "closed" => Destroyed(s).st = "closed"
BY DEF Destroyed, SessionType

\* The server forgets a session only by destroying it.
LEMMA DestroyCurrentKeeps ==
  ASSUME Types
  PROVE  /\ DestroyCurrent \in Seq(SessionType) /\ Len(DestroyCurrent) = Len(sess)
         /\ \A n \in 1..Len(sess) :
              /\ DestroyCurrent[n].gone = sess[n].gone /\ DestroyCurrent[n].heard = sess[n].heard
              /\ sess[n].st = "closed" => DestroyCurrent[n].st = "closed"
<1>1. sess \in Seq(SessionType) /\ current \in 0..Len(sess)
  BY DEF Types
<1>2. CASE current = 0
  BY <1>1, <1>2 DEF DestroyCurrent
<1>3. CASE current # 0
  <2>1. current \in 1..Len(sess) /\ sess[current] \in SessionType
    BY <1>1, <1>3
  <2>2. DestroyCurrent = [sess EXCEPT ![current] = Destroyed(sess[current])]
    BY <1>3 DEF DestroyCurrent
  <2> QED BY <1>1, <2>1, <2>2, DestroyedKeeps
<1> QED BY <1>2, <1>3

LEMMA ServerTypes ==
  ASSUME Types, Next
  PROVE  sess' \in Seq(SessionType) /\ current' \in 0..Len(sess')
<1>1. sess \in Seq(SessionType) /\ current \in 0..Len(sess) /\ up \in Seq(Upward)
  BY DEF Types
<1>2. CASE UNCHANGED server
  BY <1>1, <1>2 DEF server
<1>3. CASE Leave
  <2>1. DOMAIN sess = 1..Len(sess) /\ Len(sess) \in Nat
    BY <1>1
  <2>2. \A n \in 1..Len(sess) : [DestroyCurrent[n] EXCEPT !.gone = TRUE] \in SessionType
    <3>1. \A n \in 1..Len(sess) : DestroyCurrent[n] \in SessionType
      BY DestroyCurrentKeeps
    <3> QED BY <3>1 DEF SessionType
  <2>3. sess' \in Seq(SessionType)
    <3>1. sess' = [n \in 1..Len(sess) |-> [DestroyCurrent[n] EXCEPT !.gone = TRUE]]
      BY <1>3, <2>1 DEF Leave
    <3>2. sess' \in [1..Len(sess) -> SessionType]
      BY <2>2, <3>1
    <3> QED BY <2>1, <3>2, SeqDef
  <2>4. current' = 0 /\ Len(sess') \in Nat
    BY <1>3, <2>3 DEF Leave
  <2> QED BY <2>3, <2>4
<1>4. CASE ServerReceives
  <2> DEFINE m == Head(up)
  <2>1. m \in Upward
    BY <1>1, <1>4 DEF ServerReceives
  <2>2. \/ m.kind = "start" /\ StartMessage(m.press)
        \/ m.kind = "pcm" /\ SendAudio(m.press)
        \/ m.kind = "stop" /\ StopMessage
    BY <1>4, <2>1 DEF ServerReceives, Upward
  <2> HIDE DEF m
  <2>3. CASE StartMessage(m.press)
    <3>1. [press |-> m.press, st |-> "connecting", dead |-> FALSE, timer |-> FALSE, heard |-> 0,
           gone |-> FALSE] \in SessionType
      BY <2>1 DEF SessionType, Upward
    <3>2. /\ Append(DestroyCurrent, [press |-> m.press, st |-> "connecting", dead |-> FALSE,
                                     timer |-> FALSE, heard |-> 0, gone |-> FALSE]) \in Seq(SessionType)
          /\ Len(Append(DestroyCurrent, [press |-> m.press, st |-> "connecting", dead |-> FALSE,
                                     timer |-> FALSE, heard |-> 0, gone |-> FALSE])) = Len(sess) + 1
      BY <3>1, DestroyCurrentKeeps
    <3>3. CASE configured
      <4>1. /\ sess' = Append(DestroyCurrent, [press |-> m.press, st |-> "connecting", dead |-> FALSE,
                                               timer |-> FALSE, heard |-> 0, gone |-> FALSE])
            /\ current' = Len(sess) + 1 /\ Len(sess) \in Nat
        BY <1>1, <2>3, <3>3 DEF StartMessage
      <4> QED BY <3>2, <4>1
    <3>4. CASE ~configured
      BY <1>1, <2>3, <3>4, DestroyCurrentKeeps DEF StartMessage
    <3> QED BY <3>3, <3>4
  <2>4. CASE SendAudio(m.press)
    <3>1. current # 0 => sess[current] \in SessionType
      BY <1>1
    <3>2. current # 0 => [sess[current] EXCEPT !.heard = m.press] \in SessionType
      BY <2>1, <3>1 DEF SessionType, Upward
    <3> QED BY <1>1, <2>4, <3>2 DEF SendAudio
  <2>5. CASE StopMessage
    <3>1. current # 0 => sess[current] \in SessionType
      BY <1>1
    <3>2. current # 0 => [sess[current] EXCEPT !.timer = TRUE] \in SessionType
      BY <3>1 DEF SessionType
    <3> QED BY <1>1, <2>5, <3>2 DEF StopMessage
  <2> QED BY <2>2, <2>3, <2>4, <2>5
<1>5. ASSUME NEW n \in DOMAIN sess, Progress(n) \/ Errs(n) \/ RemoteCloses(n)
      PROVE  sess' \in Seq(SessionType) /\ current' \in 0..Len(sess')
  <2>1. n \in 1..Len(sess) /\ sess[n] \in SessionType
    BY <1>1
  <2>2. /\ [sess[n] EXCEPT !.st = "open"] \in SessionType
        /\ [sess[n] EXCEPT !.st = "acked"] \in SessionType
        /\ [sess[n] EXCEPT !.heard = 0] \in SessionType
        /\ [sess[n] EXCEPT !.st = "closed"] \in SessionType
        /\ [sess[n] EXCEPT !.st = IF @ = "connecting" THEN "dying" ELSE "acked"] \in SessionType
        /\ [sess[n] EXCEPT !.st = "closed", !.dead = TRUE, !.timer = FALSE] \in SessionType
    BY <2>1 DEF SessionType
  <2>3. PICK s \in SessionType : Session(n, s)
    BY <1>5, <2>1, <2>2, DestroyedKeeps DEF Progress, Errs, RemoteCloses
  <2>4. sess' \in Seq(SessionType) /\ Len(sess') = Len(sess)
    BY <1>1, <2>1, <2>3 DEF Session
  <2>5. current' \in {current, 0}
    BY <1>5 DEF Progress, Errs, RemoteCloses, Forget
  <2> QED BY <1>1, <2>4, <2>5
<1>6. CASE Server
  BY <1>4, <1>5, <1>6 DEF Server, ServiceWorks, ServiceFails
<1> QED BY <1>2, <1>3, <1>6 DEF Next, Browser, PointerDown, PointerMove, PointerUp, Speak,
           SafetyTimeout, PreviewEnds, ModeToggle, ClientReceives, Granted, Wired, StartFails,
           RecorderGranted, RecorderDenied, Transcribed

LEMMA SocketTypes ==
  ASSUME Types, Next
  PROVE  up' \in Seq(Upward) /\ down' \in Seq(Downward)
<1>1. /\ sess \in Seq(SessionType) /\ up \in Seq(Upward) /\ down \in Seq(Downward)
      /\ asks \subseteq Ask /\ presses \in Nat
  BY DEF Types
<1>2. CASE UNCHANGED <<up, down>>
  BY <1>1, <1>2
<1>3. CASE PointerUp \/ Speak
  <2>1. /\ [kind |-> "stop", press |-> presses] \in Upward
        /\ [kind |-> "pcm", press |-> presses] \in Upward
    BY <1>1 DEF Upward
  <2>2. /\ UNCHANGED down
        /\ \/ up' = up
           \/ up' = Append(up, [kind |-> "stop", press |-> presses])
           \/ up' = Append(up, [kind |-> "pcm", press |-> presses])
    <3>1. CASE PointerUp
      <4>1. PICK u : UNCHANGED up \/ StopStreaming(u) \/ StopRecorder(u)
        BY <3>1, Released DEF Types
      <4> QED BY <3>1, <4>1 DEF StopStreaming, StopASR, StopRecorder, PointerUp
    <3>2. CASE Speak
      BY <3>2 DEF Speak
    <3> QED BY <1>3, <3>1, <3>2
  <2>3. PICK m \in Upward : up' = up \/ up' = Append(up, m)
    BY <2>1, <2>2
  <2> QED BY SMTT(30), <1>1, <2>2, <2>3
<1>4. ASSUME NEW a \in asks, Wired(a) PROVE up' \in Seq(Upward) /\ down' \in Seq(Downward)
  <2>1. [kind |-> "start", press |-> a.press] \in Upward
    BY <1>1 DEF Upward, Ask
  <2> QED BY <1>1, <1>4, <2>1 DEF Wired
<1>5. CASE ClientReceives
  BY <1>1, <1>5 DEF ClientReceives
<1>6. CASE Leave
  BY <1>6 DEF Leave
<1>7. \A k \in {"started", "stopped", "error"} : Message(k) \in Downward
  BY DEF Message, Downward
<1>8. CASE ServerReceives
  <2>1. up' \in Seq(Upward)
    BY <1>1, <1>8 DEF ServerReceives
  <2>2. down' = down \/ down' = Append(down, Message("error"))
    <3>1. Head(up) \in Upward
      BY <1>1, <1>8 DEF ServerReceives
    <3>2. \/ StartMessage(Head(up).press)
          \/ SendAudio(Head(up).press)
          \/ StopMessage
      BY <1>8, <3>1 DEF ServerReceives, Upward
    <3> QED BY <3>2 DEF StartMessage, SendAudio, StopMessage
  <2>3. Message("error") \in Downward
    BY <1>7
  <2> QED BY SMTT(30), <1>1, <2>1, <2>2, <2>3
<1>9. ASSUME NEW n \in DOMAIN sess, ServiceWorks(n) \/ ServiceFails(n)
      PROVE  up' \in Seq(Upward) /\ down' \in Seq(Downward)
  <2>4. sess[n] \in SessionType
    BY <1>1
  <2>1. [kind |-> "transcript", text |-> sess[n].heard] \in Downward
    BY <2>4 DEF Downward, SessionType
  <2>2. PICK m \in Downward : down' = down \/ down' = Append(down, m)
    BY <1>7, <1>9, <2>1 DEF ServiceWorks, ServiceFails, Progress, Errs, RemoteCloses, Tell
  <2>3. up' = up
    BY <1>9 DEF ServiceWorks, ServiceFails
  <2> QED BY SMTT(30), <1>1, <2>2, <2>3
<1> QED BY <1>2, <1>3, <1>4, <1>5, <1>6, <1>8, <1>9 DEF Next, Browser, Server, PointerDown,
        PointerMove, SafetyTimeout, PreviewEnds, ModeToggle, Granted, StartFails,
        RecorderGranted, RecorderDenied, Transcribed

LEMMA TypesStep ==
  ASSUME Types, Next
  PROVE  Types'
<1>1. fetches' \subseteq Nat
  <2>1. CASE PointerUp
    BY <2>1 DEF Types, PointerUp, StopStreaming, StopRecorder
  <2>2. CASE Leave \/ \E f \in fetches : Transcribed(f)
    BY <2>2 DEF Types, Leave, Transcribed
  <2>3. CASE UNCHANGED fetches
    BY <2>3 DEF Types
  <2> QED BY <2>1, <2>2, <2>3 DEF Next, Browser, Server, PointerDown, PointerMove, Speak,
       SafetyTimeout, PreviewEnds, ModeToggle, ClientReceives, Granted, Wired, StartFails,
       RecorderGranted, RecorderDenied, ServerReceives, ServiceWorks, ServiceFails, page
<1>2. presses' \in Nat
  <2>1. CASE PointerDown
    BY <2>1 DEF Types, PointerDown
  <2>2. CASE UNCHANGED presses
    BY <2>2 DEF Types
  <2> QED BY <2>1, <2>2 DEF Next, Browser, Server, PointerMove, PointerUp, Speak,
       SafetyTimeout, PreviewEnds, ModeToggle, ClientReceives, Leave, Granted, Wired, StartFails,
       RecorderGranted, RecorderDenied, Transcribed, ServerReceives, ServiceWorks, ServiceFails
<1>4. faults' \in Nat
  <2>1. faults' \in {faults, faults + 1}
    BY DEF Next, Browser, Server, PointerDown, PointerMove, PointerUp, Speak,
       SafetyTimeout, PreviewEnds, ModeToggle, ClientReceives, Leave, Granted, Wired, StartFails,
       RecorderGranted, RecorderDenied, Transcribed, ServerReceives, ServiceWorks, ServiceFails
  <2> QED BY <2>1 DEF Types
<1>3. configured' \in BOOLEAN
  BY DEF Types, Next, Browser, Server, PointerDown, PointerMove, PointerUp,
         Speak, SafetyTimeout, PreviewEnds, ModeToggle, ClientReceives, Leave, Granted, Wired, StartFails,
         RecorderGranted, RecorderDenied, Transcribed, ServerReceives, ServiceWorks, ServiceFails, server
<1> QED BY <1>1, <1>2, <1>3, <1>4, PageTypes, MicTypes, ServerTypes, SocketTypes DEF Types

-----------------------------------------------------------------------------
(* Where the page is in a press. *)

LEMMA PressFacts ==
  ASSUME Types, Press
  PROVE  /\ ui.voice # "recording" => ~asr.active /\ mic.open = {}
         /\ ui.voice # "recognizing" => fetches = {}
         /\ ui.voice \notin {"recording", "recognizing"} => ~ui.streaming
         /\ asks # {} => ui.held /\ (ui.voice = "idle" \/ asr.active)
         /\ asr.active => ui.voice = "recording" /\ ui.streaming /\ ui.held
         /\ ui.streaming /\ ~asr.active => mic.open = {} /\ asks = {} /\ fetches = {}
BY DEF Press, OneUpload, Types, Ask

\* Nobody asks for a microphone, and none is open.
LEMMA QuietPress ==
  ASSUME asks = {}, mic.open = {}, fetches = {}, ~asr.active,
         ui.voice = "recording" => ui.held,
         ui.streaming => ui.voice \in {"recording", "recognizing"}
  PROVE  Press
BY DEF Press, OneUpload

LEMMA PressStep ==
  ASSUME Types, Press, Next, ~raced'
  PROVE  Press'
<1>1. /\ ui \in Ui /\ asr \in Asr /\ mic \in Mic /\ asks \subseteq Ask /\ fetches \subseteq Nat
      /\ presses \in Nat
  BY DEF Types
<1>2. CASE UNCHANGED page
  BY <1>2 DEF page, Press, OneUpload
<1>3. CASE PointerDown
  <2>1. /\ ~ui.held /\ ui.voice = "idle" /\ asks = {} /\ mic.open = {} /\ fetches = {}
        /\ ~asr.active /\ ~ui.streaming /\ mic' = mic /\ fetches' = fetches
    BY <1>3, PressFacts DEF PointerDown
  <2>2. CASE ui.recording
    <3>1. ui' = [ui EXCEPT !.held = TRUE] /\ asr' = asr /\ asks' = asks
      BY <1>3, <2>2 DEF PointerDown
    <3> QED BY <1>1, <2>1, <3>1 DEF Press, OneUpload, Ui
  <2>3. CASE ~ui.recording /\ ui.available
    <3>1. /\ asks' = {[press |-> presses + 1, at |-> "stream", live |-> TRUE]}
          /\ asr' = [state |-> "connecting", text |-> 0, active |-> TRUE]
      BY <1>3, <2>1, <2>3 DEF PointerDown, StartStreaming, StartASR
    <3>2. ui' = [ui EXCEPT !.held = TRUE, !.recording = TRUE, !.streaming = TRUE, !.cancel = FALSE,
                           !.voice = "recording"]
      BY <1>3, <2>3 DEF PointerDown, StartStreaming
    <3>3. ui'.voice = "recording" /\ ui'.streaming /\ ui'.held
      BY <1>1, <3>2 DEF Ui
    <3> QED BY <2>1, <3>1, <3>3 DEF Press, OneUpload
  <2>4. CASE ~ui.recording /\ ~ui.available
    <3>1. /\ asks' = {[press |-> presses + 1, at |-> "record", live |-> TRUE]}
          /\ asr' = asr /\ ui'.voice = "idle" /\ ~ui'.streaming /\ ui'.held
      BY <1>1, <1>3, <2>1, <2>4 DEF PointerDown, StartRecorder, Ui
    <3> QED BY <2>1, <3>1 DEF Press, OneUpload
  <2> QED BY <2>2, <2>3, <2>4
<1>4. CASE PointerMove \/ Speak
  <2>1. /\ UNCHANGED <<asr, mic, asks, fetches>>
        /\ ui'.held = ui.held /\ ui'.voice = ui.voice /\ ui'.streaming = ui.streaming
    BY <1>1, <1>4 DEF PointerMove, Speak, Ui
  <2> QED BY <2>1 DEF Press, OneUpload
<1>5. CASE PointerUp
  <2>1. asks = {} /\ asks' = {} /\ (ui.voice = "recording" \/ mic.open = {})
    BY <1>5 DEF PointerUp
  <2>2. PICK u \in Ui :
          /\ ~u.held /\ u.voice = ui.voice /\ u.streaming = ui.streaming
          /\ \/ ui.voice # "recording" /\ ui' = u /\ UNCHANGED <<asr, mic, fetches, up>>
             \/ ui.voice = "recording" /\ ui.streaming /\ StopStreaming(u)
             \/ ui.voice = "recording" /\ ~ui.streaming /\ StopRecorder(u)
    BY <1>1, <1>5, Released
  <2>3. CASE ui.voice # "recording" /\ ui' = u /\ UNCHANGED <<asr, mic, fetches, up>>
    BY <2>1, <2>2, <2>3, PressFacts DEF Press, OneUpload
  <2>4. CASE ui.voice = "recording" /\ ui.streaming /\ StopStreaming(u)
    <3>1. fetches' = {} /\ ~asr'.active /\ mic'.open = {} /\ asr' \in Asr
      <4>1. fetches' = {}
        BY <2>4, PressFacts DEF StopStreaming
      <4>2. CASE asr.active
        <5>1. mic' = Cleanup(mic) /\ asr' = [asr EXCEPT !.active = FALSE]
          BY <2>4, <4>2 DEF StopStreaming, StopASR
        <5>2. mic.open \subseteq {mic.ref}
          BY <2>4 DEF Press
        <5> QED BY <1>1, <4>1, <5>1, <5>2, CleanupKeeps DEF Asr
      <4>3. CASE ~asr.active
        BY <1>1, <2>4, <4>1, <4>3, PressFacts DEF StopStreaming, StopASR
      <4> QED BY <4>2, <4>3
    <3>2. ui'.voice # "recording" /\ (ui'.streaming => ui'.voice = "recognizing")
      <4>1. \/ ui' = [u EXCEPT !.voice = "idle", !.streaming = FALSE]
            \/ ui' = After([u EXCEPT !.voice = "recognizing"], asr')
        BY <2>4 DEF StopStreaming
      <4> QED BY <2>2, <3>1, <4>1 DEF After, Settled, Ui
    <3> QED BY <2>1, <3>1, <3>2, QuietPress DEF Press, OneUpload
  <2>5. CASE ui.voice = "recording" /\ ~ui.streaming /\ StopRecorder(u)
    <3>1. ~asr.active /\ fetches = {} /\ mic.open \subseteq {mic.rec} /\ asr' = asr
      BY <2>5, PressFacts DEF Press, StopRecorder
    <3>2. mic'.open = {}
      BY <1>1, <2>5, <3>1 DEF StopRecorder, Mic
    <3>4. \/ ui' = [u EXCEPT !.voice = "recognizing"] /\ fetches' = {presses}
          \/ ui' = [u EXCEPT !.voice = "idle"] /\ fetches' = {}
      BY <2>5, <3>1 DEF StopRecorder
    <3>3. /\ ~ui'.streaming
          /\ \/ ui'.voice = "recognizing" /\ fetches' = {presses}
             \/ ui'.voice = "idle" /\ fetches' = {}
      BY <2>2, <2>5, <3>4 DEF Ui
    <3> QED BY <2>1, <3>1, <3>2, <3>3 DEF Press, OneUpload
  <2> QED BY <2>2, <2>3, <2>4, <2>5
<1>6. CASE SafetyTimeout
  <2>1. ui'.voice \in {"preview", "idle"} /\ ~ui'.streaming /\ ui'.held = ui.held
    BY <1>1, <1>6 DEF SafetyTimeout, Settled, Ui
  <2>2. asks = {} /\ mic.open = {} /\ fetches = {} /\ ~asr.active
    BY <1>6, PressFacts DEF SafetyTimeout
  <2> QED BY <1>6, <2>1, <2>2 DEF SafetyTimeout, Press, OneUpload
<1>7. CASE PreviewEnds \/ ModeToggle
  <2>1. ui'.voice = "idle" /\ ui'.streaming = ui.streaming /\ UNCHANGED <<asr, mic, asks, fetches>>
    BY <1>1, <1>7 DEF PreviewEnds, PreviewSend, PreviewEdit, ModeToggle, Ui
  <2>2. ui.voice \notin {"recording", "recognizing"}
    BY <1>7 DEF PreviewEnds, ModeToggle
  <2>3. asks = {}
    BY <1>7, PressFacts DEF PreviewEnds, ModeToggle
  <2> QED BY <2>1, <2>2, <2>3, PressFacts DEF Press, OneUpload
<1>8. CASE ClientReceives
  <2>1. PICK a : /\ Becomes(ui, a) /\ a.active = asr.active
                 /\ a.state = "error" => ~asr.active
    <3> DEFINE m == Head(down)
               s == CASE m.kind = "started" -> "active" [] m.kind = "error" -> "error"
                      [] m.kind = "stopped" -> "idle"   [] m.kind = "transcript" -> asr.state
               a == [asr EXCEPT !.state = s, !.text = IF m.kind = "transcript" THEN m.text ELSE @]
    <3>1. Becomes(ui, a) /\ raced' = (raced \/ (s = "error" /\ asr.active))
      BY <1>8 DEF ClientReceives
    <3> HIDE DEF s
    <3>2. a.active = asr.active /\ a.state = s
      BY <1>1 DEF Asr
    <3> QED BY <3>1, <3>2
  <2>2. UNCHANGED <<mic, asks, fetches>> /\ asr' = a /\ ui' = After(ui, a)
    BY <1>8, <2>1 DEF ClientReceives, Becomes
  <2>3. \/ ui' = ui
        \/ /\ ui.streaming /\ ~asr.active /\ ui'.held = ui.held
           /\ ui'.voice \in {"preview", "idle"} /\ ~ui'.streaming
    <3>1. CASE ui.streaming /\ a.state = "error"
      BY <1>1, <2>1, <2>2, <3>1, PressFacts DEF After, Ui, Press, OneUpload
    <3>2. CASE ui.streaming /\ a.state = "idle" /\ ui.voice = "recognizing"
      BY <1>1, <2>1, <2>2, <3>2, PressFacts DEF After, Settled, Ui
    <3> QED BY <2>2, <3>1, <3>2 DEF After
  <2>4. CASE ui' = ui
    BY <2>1, <2>2, <2>4 DEF Press, OneUpload
  <2>5. CASE ui.streaming /\ ~asr.active /\ ui'.voice \in {"preview", "idle"} /\ ~ui'.streaming
    BY <2>1, <2>2, <2>5, PressFacts DEF Press, OneUpload
  <2> QED BY <2>3, <2>4, <2>5
<1>9. CASE Leave
  <2>1. asks = {} /\ mic.rec = 0 /\ asks' = {} /\ fetches' = {} /\ ui' = Mounted(ui.worklet)
    BY <1>9 DEF Leave
  <2>2. ~asr'.active
    BY <1>1, <1>9 DEF Leave, Asr
  <2>3. mic'.open = {}
    <3>1. mic'.open = (IF asr.active THEN Cleanup(mic) ELSE mic).open
      BY <1>1, <1>9, CleanupKeeps DEF Leave, Mic
    <3>2. asr.active => mic.open \subseteq {mic.ref}
      BY DEF Press
    <3>3. ~asr.active => mic.open = {}
      BY <2>1 DEF Press
    <3> QED BY <1>1, <3>1, <3>2, <3>3, CleanupKeeps
  <2> QED BY <2>1, <2>2, <2>3 DEF Mounted, Press, OneUpload
<1>10. ASSUME NEW a \in asks, Granted(a) PROVE Press'
  <2>1. /\ a.live /\ ui.held /\ asr.active /\ mic.open = {} /\ asks = {a} /\ a \in Ask
        /\ ui.voice = "recording" /\ ui.streaming
    BY <1>1, <1>10 DEF Granted, Press
  <2>2. mic'.open = {a.press} /\ mic'.ref = a.press
    BY <1>1, <1>10, <2>1 DEF Granted, Mic
  <2>3. asks' = {[a EXCEPT !.at = "wiring"]} /\ UNCHANGED <<ui, asr, fetches>>
    BY <1>10, <2>1 DEF Granted
  <2>4. \A b \in asks' : b.live /\ b.at = "wiring" /\ b.press = a.press
    BY <2>1, <2>3 DEF Ask
  <2> QED BY <2>1, <2>2, <2>3, <2>4 DEF Press, OneUpload
<1>11. ASSUME NEW a \in asks, Wired(a) PROVE Press'
  <2>1. asks' = {} /\ mic'.open = mic.open /\ mic'.ref = mic.ref /\ mic'.rec = mic.rec
    BY <1>1, <1>11 DEF Wired, Press, Mic
  <2> QED BY <1>11, <2>1 DEF Wired, Press, OneUpload
<1>12. ASSUME NEW a \in asks, StartFails(a) PROVE Press'
  <2>1. /\ asks' = {} /\ asr.active /\ ui.voice = "recording" /\ ui.streaming
        /\ mic.open \subseteq {mic.ref} /\ fetches' = {}
    BY <1>12, PressFacts DEF StartFails, Press
  <2>2. mic'.open = {}
    BY <1>1, <1>12, <2>1, CleanupKeeps DEF StartFails
  <2>3. ~asr'.active /\ asr'.state = "error" /\ ui' = After(ui, asr')
    BY <1>1, <1>12 DEF StartFails, Becomes, Asr
  <2>4. ui'.voice = "idle" /\ ~ui'.streaming
    BY <1>1, <2>1, <2>3 DEF After, Ui
  <2> QED BY <2>1, <2>2, <2>3, <2>4 DEF Press, OneUpload
<1>13. ASSUME NEW a \in asks, RecorderGranted(a) PROVE Press'
  <2>1. /\ a.live /\ ui.held /\ ~asr.active /\ mic.open = {} /\ asks' = {} /\ a.press # 0
        /\ ui.voice = "idle" /\ ~ui.streaming /\ fetches = {}
    BY <1>1, <1>13, PressFacts DEF RecorderGranted, Press, Ask
  <2>2. mic'.open = {a.press} /\ mic'.rec = a.press
    BY <1>1, <1>13, <2>1 DEF RecorderGranted, Mic
  <2>3. ui'.voice = "recording" /\ ui'.held /\ ~ui'.streaming /\ UNCHANGED <<asr, fetches>>
    BY <1>1, <1>13, <2>1 DEF RecorderGranted, Ui
  <2> QED BY <2>1, <2>2, <2>3 DEF Press, OneUpload
<1>14. ASSUME NEW a \in asks, RecorderDenied(a) PROVE Press'
  <2>1. /\ asks' = {} /\ UNCHANGED <<asr, mic, fetches>>
        /\ ui'.held = ui.held /\ ui'.voice = ui.voice /\ ui'.streaming = ui.streaming
    BY <1>1, <1>14 DEF RecorderDenied, Press, Ui
  <2> QED BY <2>1 DEF Press, OneUpload
<1>15. ASSUME NEW f \in fetches, Transcribed(f) PROVE Press'
  <2>1. ui.voice = "recognizing" /\ ~ui.streaming /\ fetches' = {} /\ UNCHANGED <<asr, mic, asks>>
    BY <1>15 DEF Transcribed, Press, OneUpload
  <2>2. ui'.voice \in {"preview", "idle"} /\ ~ui'.streaming
    BY <1>1, <1>15, <2>1 DEF Transcribed, Ui
  <2> QED BY <2>1, <2>2, PressFacts DEF Press, OneUpload
<1> QED BY <1>2, <1>3, <1>4, <1>5, <1>6, <1>7, <1>8, <1>9, <1>10, <1>11, <1>12, <1>13, <1>14, <1>15
        DEF Next, Browser, Server, ServerReceives, ServiceWorks, ServiceFails

-----------------------------------------------------------------------------
(* Whose words there are. *)

LEMMA WordFacts ==
  ASSUME Types, PageWords
  PROVE  /\ ui.voice \notin {"recording", "recognizing"} => ~ui.streaming
         /\ ui.voice # "recognizing" \/ ui.streaming => fetches = {}
         /\ ui.voice # "recording" \/ ~ui.streaming => ~(asr.active /\ ui.available)
         /\ ui.voice # "idle" => \A a \in asks : ~(a.at = "record" /\ a.live)
BY DEF PageWords, OneUpload

\* What the page shows after the recognition changed.
LEMMA AfterWords ==
  ASSUME Types, PageWords, NEW a \in Asr, a.text = asr.text \/ a.text = presses,
         a.active => asr.active, ui' = After(ui, a), asr' = a, UNCHANGED <<fetches, presses>>,
         asks' \subseteq asks
  PROVE  PageWords'
<1>1. ui \in Ui
  BY DEF Types
<1>2. CASE ui.streaming /\ a.state = "error"
  <2>1. ui'.voice = "idle" /\ ~ui'.streaming /\ ~ui'.available
    BY <1>1, <1>2, WordFacts DEF After, Ui
  <2> QED BY <1>2, <2>1, WordFacts DEF PageWords, OneUpload
<1>3. CASE ui.streaming /\ a.state = "idle" /\ ui.voice = "recognizing"
  <2>1. ui' = Settled(ui, a.text)
    BY <1>3 DEF After
  <2>2. /\ ~ui'.streaming /\ ui'.available = ui.available
        /\ \/ ui'.voice = "idle"
           \/ ui'.voice = "preview" /\ ui'.transcript = a.text /\ a.text # 0
    BY <1>1, <2>1 DEF Settled, Ui
  <2>3. a.text \in {0, presses}
    BY <1>3 DEF PageWords
  <2> QED BY <1>3, <2>2, <2>3, WordFacts DEF PageWords, OneUpload
<1>4. CASE ui' = ui
  BY <1>4 DEF PageWords, OneUpload
<1> QED BY <1>2, <1>3, <1>4 DEF After

LEMMA PageWordsStep ==
  ASSUME Types, Words, Next, ~late'
  PROVE  PageWords'
<1>1. /\ ui \in Ui /\ asr \in Asr /\ mic \in Mic /\ asks \subseteq Ask /\ fetches \subseteq Nat
      /\ presses \in Nat /\ down \in Seq(Downward)
  BY DEF Types
<1> USE DEF Words
<1>2. CASE UNCHANGED <<page, presses>>
  BY <1>2 DEF page, PageWords, OneUpload
<1>3. CASE PointerDown
  <2>1. /\ ui.voice = "idle" /\ asks = {} /\ fetches = {} /\ ~ui.streaming
        /\ ~(asr.active /\ ui.available) /\ fetches' = fetches /\ presses' = presses + 1
    BY <1>3, WordFacts DEF PointerDown
  <2>2. CASE ui.recording
    <3>1. ui' = [ui EXCEPT !.held = TRUE] /\ asr' = asr /\ asks' = asks
      BY <1>3, <2>2 DEF PointerDown
    <3> QED BY <1>1, <2>1, <3>1 DEF PageWords, OneUpload, Ui
  <2>3. CASE ~ui.recording /\ ui.available
    <3>1. /\ asks' = {[press |-> presses + 1, at |-> "stream", live |-> TRUE]}
          /\ asr' = [state |-> "connecting", text |-> 0, active |-> TRUE]
      BY <1>3, <2>1, <2>3 DEF PointerDown, StartStreaming, StartASR
    <3>2. ui' = [ui EXCEPT !.held = TRUE, !.recording = TRUE, !.streaming = TRUE, !.cancel = FALSE,
                           !.voice = "recording"]
      BY <1>3, <2>3 DEF PointerDown, StartStreaming
    <3>3. ui'.voice = "recording" /\ ui'.streaming
      BY <1>1, <3>2 DEF Ui
    <3> QED BY <2>1, <3>1, <3>3 DEF PageWords, OneUpload
  <2>4. CASE ~ui.recording /\ ~ui.available
    <3>1. /\ asks' = {[press |-> presses + 1, at |-> "record", live |-> TRUE]}
          /\ asr' = asr /\ ui'.voice = "idle" /\ ~ui'.streaming /\ ~ui'.available
      BY <1>1, <1>3, <2>1, <2>4 DEF PointerDown, StartRecorder, Ui
    <3> QED BY <2>1, <3>1 DEF PageWords, OneUpload
  <2> QED BY <2>2, <2>3, <2>4
<1>4. CASE PointerMove \/ Speak
  <2>1. /\ UNCHANGED <<asr, asks, fetches, presses>>
        /\ ui'.voice = ui.voice /\ ui'.streaming = ui.streaming /\ ui'.available = ui.available
        /\ ui'.transcript = ui.transcript
    BY <1>1, <1>4 DEF PointerMove, Speak, Ui
  <2> QED BY <2>1 DEF PageWords, OneUpload
<1>5. CASE PointerUp
  <2>1. UNCHANGED <<asks, presses>>
    BY <1>5 DEF PointerUp
  <2>2. PICK u \in Ui :
          /\ u.voice = ui.voice /\ u.streaming = ui.streaming /\ u.available = ui.available
          /\ u.transcript = ui.transcript
          /\ \/ ui.voice # "recording" /\ ui' = u /\ UNCHANGED <<asr, mic, fetches, up>>
             \/ ui.voice = "recording" /\ ui.streaming /\ StopStreaming(u)
             \/ ui.voice = "recording" /\ ~ui.streaming /\ StopRecorder(u)
    BY <1>1, <1>5, Released
  <2>3. CASE ui.voice # "recording" /\ ui' = u /\ UNCHANGED <<asr, mic, fetches, up>>
    BY <2>1, <2>2, <2>3 DEF PageWords, OneUpload
  <2>4. CASE ui.voice = "recording" /\ ui.streaming /\ StopStreaming(u)
    <3>1. asr'.text \in {0, presses} /\ ~asr'.active
      BY <1>1, <2>4 DEF StopStreaming, StopASR, Asr, PageWords
    <3>2. fetches' = {} /\ \A a \in asks : ~(a.at = "record" /\ a.live)
      BY <2>4, WordFacts DEF StopStreaming
    <3>3. \/ ui' = [u EXCEPT !.voice = "idle", !.streaming = FALSE]
          \/ ui' = After([u EXCEPT !.voice = "recognizing"], asr')
      BY <2>4 DEF StopStreaming
    <3>4. /\ ui'.voice = "preview" => ui'.transcript = presses
          /\ ui'.streaming => ui'.voice = "recognizing"
      BY <2>2, <3>1, <3>3 DEF After, Settled, Ui
    <3> QED BY <2>1, <3>1, <3>2, <3>4 DEF PageWords, OneUpload
  <2>5. CASE ui.voice = "recording" /\ ~ui.streaming /\ StopRecorder(u)
    <3>1. /\ fetches = {} /\ ~(asr.active /\ ui.available) /\ asr' = asr
          /\ \A a \in asks : ~(a.at = "record" /\ a.live)
      BY <2>5, WordFacts DEF StopRecorder
    <3>2. \/ ui' = [u EXCEPT !.voice = "recognizing"] /\ fetches' = {presses}
          \/ ui' = [u EXCEPT !.voice = "idle"] /\ fetches' = {}
      BY <2>5, <3>1 DEF StopRecorder
    <3>3. /\ ~ui'.streaming /\ ui'.available = ui.available
          /\ \/ ui'.voice = "recognizing" /\ fetches' = {presses}
             \/ ui'.voice = "idle" /\ fetches' = {}
      BY <2>2, <2>5, <3>2 DEF Ui
    <3> QED BY <2>1, <3>1, <3>3 DEF PageWords, OneUpload
  <2> QED BY <2>2, <2>3, <2>4, <2>5
<1>6. CASE SafetyTimeout
  <2>1. /\ ~ui'.streaming /\ ui'.available = ui.available
        /\ \/ ui'.voice = "idle"
           \/ ui'.voice = "preview" /\ ui'.transcript = asr.text /\ asr.text # 0
    BY <1>1, <1>6 DEF SafetyTimeout, Settled, Ui
  <2>2. /\ fetches = {} /\ ~(asr.active /\ ui.available) /\ asr.text \in {0, presses}
        /\ \A a \in asks : ~(a.at = "record" /\ a.live)
    BY <1>6, WordFacts DEF SafetyTimeout, PageWords
  <2> QED BY <1>6, <2>1, <2>2 DEF SafetyTimeout, PageWords, OneUpload
<1>7. CASE PreviewEnds \/ ModeToggle
  <2>1. /\ ui'.voice = "idle" /\ ui'.streaming = ui.streaming /\ ui'.available = ui.available
        /\ UNCHANGED <<asr, asks, fetches, presses>>
    BY <1>1, <1>7 DEF PreviewEnds, PreviewSend, PreviewEdit, ModeToggle, Ui
  <2>2. ui.voice \notin {"recording", "recognizing"}
    BY <1>7 DEF PreviewEnds, ModeToggle
  <2> QED BY <2>1, <2>2, WordFacts DEF PageWords, OneUpload
<1>8. CASE ClientReceives
  <2>1. PICK a : /\ Becomes(ui, a) /\ a \in Asr /\ a.active = asr.active
                 /\ a.text = asr.text \/ a.text = presses
    <3> DEFINE m == Head(down)
               s == CASE m.kind = "started" -> "active" [] m.kind = "error" -> "error"
                      [] m.kind = "stopped" -> "idle"   [] m.kind = "transcript" -> asr.state
               a == [asr EXCEPT !.state = s, !.text = IF m.kind = "transcript" THEN m.text ELSE @]
    <3>1. Becomes(ui, a)
      BY <1>8 DEF ClientReceives
    <3>2. m \in Downward /\ m = down[1] /\ 1 \in 1..Len(down)
      BY <1>1, <1>8 DEF ClientReceives
    <3>3. s \in States
      BY <1>1, <3>2 DEF Downward, States, Asr
    <3>4. m.kind = "transcript" => m.text = presses
      BY <3>2 DEF OnTheWay
    <3> HIDE DEF s, m
    <3>5. a \in Asr
      BY <1>1, <3>3, <3>4 DEF Asr
    <3>6. a.active = asr.active
      BY <1>1 DEF Asr
    <3>7. a.text = asr.text \/ a.text = presses
      BY <1>1, <3>4 DEF Asr
    <3> QED BY <3>1, <3>5, <3>6, <3>7
  <2>2. UNCHANGED <<asks, fetches, presses>> /\ asr' = a /\ ui' = After(ui, a)
    BY <1>8, <2>1 DEF ClientReceives, Becomes
  <2> QED BY <2>1, <2>2, AfterWords
<1>9. CASE Leave
  <2>1. /\ fetches' = {} /\ ui' = Mounted(ui.worklet) /\ presses' = presses
        /\ asks' = {[a EXCEPT !.live = FALSE] : a \in asks}
    BY <1>9 DEF Leave
  <2>2. ~asr'.active
    BY <1>1, <1>9 DEF Leave, Asr
  <2>3. (\A a \in asks' : ~a.live) /\ (\A a, b \in asks' : a = b)
    BY <1>1, <2>1 DEF Ask, PageWords
  <2> QED BY <2>1, <2>2, <2>3 DEF Mounted, PageWords, OneUpload
<1>10. ASSUME NEW a \in asks, Granted(a) PROVE PageWords'
  <2>1. asks' = {[a EXCEPT !.at = "wiring"]} /\ UNCHANGED <<ui, asr, fetches, presses>>
    BY <1>10 DEF Granted, PageWords
  <2>2. \A b \in asks' : b.at = "wiring"
    BY <1>1, <2>1 DEF Ask
  <2> QED BY <2>1, <2>2 DEF PageWords, OneUpload
<1>11. ASSUME NEW a \in asks, Wired(a) PROVE PageWords'
  BY <1>11 DEF Wired, PageWords, OneUpload
<1>12. ASSUME NEW a \in asks, StartFails(a) PROVE PageWords'
  <2>1. /\ asr' = [asr EXCEPT !.state = "error", !.active = FALSE] /\ ui' = After(ui, asr')
        /\ asks' = asks \ {a} /\ UNCHANGED <<fetches, presses>>
    BY <1>12 DEF StartFails, Becomes
  <2>2. asr' \in Asr /\ asr'.text = asr.text /\ ~asr'.active
    BY <1>1, <2>1 DEF Asr, States
  <2> QED BY <2>1, <2>2, AfterWords
<1>13. ASSUME NEW a \in asks, RecorderGranted(a) PROVE PageWords'
  <2>1. asks' = {} /\ UNCHANGED <<asr, fetches, presses>>
    BY <1>13 DEF RecorderGranted, PageWords
  <2>2. CASE ~a.live
    BY <1>13, <2>1, <2>2 DEF RecorderGranted, PageWords, OneUpload
  <2>3. CASE a.live
    <3>1. ui.voice = "idle" /\ ~ui.streaming /\ fetches = {} /\ ~(asr.active /\ ui.available)
      BY <1>13, <2>3, WordFacts DEF RecorderGranted, PageWords
    <3>2. ui'.voice = "recording" /\ ~ui'.streaming /\ ui'.available = ui.available
      BY <1>1, <1>13, <2>3, <3>1 DEF RecorderGranted, Ui
    <3> QED BY <2>1, <3>1, <3>2 DEF PageWords, OneUpload
  <2> QED BY <2>2, <2>3
<1>14. ASSUME NEW a \in asks, RecorderDenied(a) PROVE PageWords'
  <2>1. /\ asks' \subseteq asks /\ UNCHANGED <<asr, fetches, presses>>
        /\ ui'.voice = ui.voice /\ ui'.streaming = ui.streaming /\ ui'.available = ui.available
        /\ ui'.transcript = ui.transcript
    BY <1>1, <1>14 DEF RecorderDenied, Ui
  <2> QED BY <2>1 DEF PageWords, OneUpload
<1>15. ASSUME NEW f \in fetches, Transcribed(f) PROVE PageWords'
  <2>1. /\ ui.voice = "recognizing" /\ ~ui.streaming /\ f = presses
        /\ fetches' = {} /\ UNCHANGED <<asr, asks, presses>>
    BY <1>15 DEF Transcribed, PageWords, OneUpload
  <2>3. \/ ui' = [ui EXCEPT !.voice = "preview", !.transcript = f]
        \/ ui' = [ui EXCEPT !.voice = "idle"]
    BY <1>15 DEF Transcribed
  <2>2. /\ ~ui'.streaming /\ ui'.available = ui.available
        /\ \/ ui'.voice = "idle"
           \/ ui'.voice = "preview" /\ ui'.transcript = f
    BY <1>1, <2>1, <2>3 DEF Ui
  <2> QED BY <2>1, <2>2, WordFacts DEF PageWords, OneUpload
<1> QED BY <1>2, <1>3, <1>4, <1>5, <1>6, <1>7, <1>8, <1>9, <1>10, <1>11, <1>12, <1>13, <1>14, <1>15
        DEF Next, Browser, Server, ServerReceives, ServiceWorks, ServiceFails

\* A session that changes is destroyed, or told nothing but words of the last press.
LEMMA HeardKept ==
  ASSUME Types, OnTheWay, presses' = presses, NEW n \in 1..Len(sess), NEW s \in SessionType,
         sess' = [sess EXCEPT ![n] = s], s.gone = sess[n].gone,
         sess[n].st = "closed" => s.st = "closed", s.heard \in {sess[n].heard, 0, presses}
  PROVE  \A k \in 1..Len(sess') : sess'[k].gone \/ sess'[k].st = "closed" \/ sess'[k].heard \in {0, presses'}
<1>1. sess \in Seq(SessionType)
  BY DEF Types
<1>2. Len(sess') = Len(sess) /\ sess'[n] = s /\ \A k \in 1..Len(sess) : k # n => sess'[k] = sess[k]
  BY <1>1
<1> QED BY <1>2 DEF OnTheWay

\* What the server does with a message of the page.
LEMMA ReceivedWords ==
  ASSUME Types, OnTheWay, ServerReceives
  PROVE  OnTheWay'
<1>1. /\ sess \in Seq(SessionType) /\ current \in 0..Len(sess) /\ up \in Seq(Upward)
      /\ down \in Seq(Downward) /\ presses \in Nat
  BY DEF Types
<1> DEFINE m == Head(up)
<1>2. m \in Upward /\ m = up[1] /\ 1 \in 1..Len(up) /\ up' = Tail(up) /\ presses' = presses
  BY <1>1 DEF ServerReceives
<1>3. \/ m.kind = "start" /\ StartMessage(m.press)
      \/ m.kind = "pcm" /\ SendAudio(m.press)
      \/ m.kind = "stop" /\ StopMessage
  BY <1>2 DEF ServerReceives, Upward
<1>4. m.kind = "pcm" => m.press = presses
  BY <1>2 DEF OnTheWay
<1> HIDE DEF m
<1>5. \A i \in 1..Len(up') : up'[i].kind = "pcm" => up'[i].press = presses'
  <2>1. Len(up') = Len(up) - 1 /\ \A i \in 1..Len(up') : up'[i] = up[i + 1] /\ i + 1 \in 1..Len(up)
    BY <1>1, <1>2
  <2> QED BY <1>2, <2>1 DEF OnTheWay
<1>6. \A i \in 1..Len(down') : down'[i].kind = "transcript" => down'[i].text = presses'
  <2>1. down' = down \/ down' = Append(down, Message("error"))
    BY <1>3 DEF StartMessage, SendAudio, StopMessage
  <2>2. Message("error").kind # "transcript"
    BY DEF Message
  <2>3. CASE down' = down
    BY <1>2, <2>3 DEF OnTheWay
  <2>4. CASE down' = Append(down, Message("error"))
    <3>1. /\ Len(down') = Len(down) + 1 /\ down'[Len(down) + 1] = Message("error")
          /\ \A i \in 1..Len(down) : down'[i] = down[i]
      BY <1>1, <2>4
    <3>2. \A i \in 1..Len(down') : i \in 1..Len(down) \/ i = Len(down) + 1
      BY <1>1, <3>1
    <3> QED BY <1>2, <2>2, <3>1, <3>2 DEF OnTheWay
  <2> QED BY <2>1, <2>3, <2>4
<1>7. \A n \in 1..Len(sess') : sess'[n].gone \/ sess'[n].st = "closed" \/ sess'[n].heard \in {0, presses'}
  <2>1. CASE StartMessage(m.press)
    <3> DEFINE new == [press |-> m.press, st |-> "connecting", dead |-> FALSE, timer |-> FALSE,
                       heard |-> 0, gone |-> FALSE]
    <3>1. /\ DestroyCurrent \in Seq(SessionType) /\ Len(DestroyCurrent) = Len(sess)
          /\ \A n \in 1..Len(sess) : \/ DestroyCurrent[n].gone \/ DestroyCurrent[n].st = "closed"
                                     \/ DestroyCurrent[n].heard \in {0, presses}
      BY DestroyCurrentKeeps DEF OnTheWay
    <3>2. sess' = DestroyCurrent \/ sess' = Append(DestroyCurrent, new)
      BY <2>1 DEF StartMessage
    <3>3. new.heard = 0
      OBVIOUS
    <3> HIDE DEF new
    <3>4. CASE sess' = DestroyCurrent
      BY <1>2, <3>1, <3>4
    <3>5. CASE sess' = Append(DestroyCurrent, new)
      <4>1. /\ Len(sess') = Len(sess) + 1 /\ sess'[Len(sess) + 1] = new
            /\ \A n \in 1..Len(sess) : sess'[n] = DestroyCurrent[n]
        BY <1>1, <3>1, <3>5
      <4>2. \A n \in 1..Len(sess') : n \in 1..Len(sess) \/ n = Len(sess) + 1
        BY <1>1, <4>1
      <4> QED BY <1>2, <3>1, <3>3, <4>1, <4>2
    <3> QED BY <3>2, <3>4, <3>5
  <2>2. CASE sess' = sess
    BY <1>2, <2>2 DEF OnTheWay
  <2>3. CASE SendAudio(m.press) /\ sess' # sess /\ m.kind = "pcm"
    <3>1. current \in 1..Len(sess) /\ sess[current] \in SessionType
      BY <1>1, <2>3 DEF SendAudio
    <3> DEFINE s == [sess[current] EXCEPT !.heard = presses]
    <3>2. sess' = [sess EXCEPT ![current] = s]
      BY <1>4, <2>3 DEF SendAudio
    <3>3. s \in SessionType /\ s.gone = sess[current].gone /\ s.st = sess[current].st /\ s.heard = presses
      BY <1>1, <3>1 DEF SessionType
    <3> QED BY <1>2, <3>1, <3>2, <3>3, HeardKept
  <2>4. CASE StopMessage /\ sess' # sess
    <3>1. current \in 1..Len(sess) /\ sess[current] \in SessionType
      BY <1>1, <2>4 DEF StopMessage
    <3> DEFINE s == [sess[current] EXCEPT !.timer = TRUE]
    <3>2. sess' = [sess EXCEPT ![current] = s]
      BY <2>4 DEF StopMessage
    <3>3. /\ s \in SessionType /\ s.gone = sess[current].gone /\ s.st = sess[current].st
          /\ s.heard = sess[current].heard
      BY <3>1 DEF SessionType
    <3> QED BY <1>2, <3>1, <3>2, <3>3, HeardKept
  <2> QED BY <1>3, <2>1, <2>2, <2>3, <2>4
<1> QED BY <1>5, <1>6, <1>7 DEF OnTheWay

\* The service answers with what was said, if at all.
LEMMA ServedWords ==
  ASSUME Types, OnTheWay, NEW n \in DOMAIN sess, ServiceWorks(n) \/ ServiceFails(n)
  PROVE  OnTheWay'
<1>1. /\ n \in 1..Len(sess) /\ sess[n] \in SessionType
      /\ down \in Seq(Downward) /\ presses \in Nat
  BY DEF Types
<1>2. presses' = presses /\ up' = up
  BY DEF ServiceWorks, ServiceFails
<1>3. Progress(n) \/ Errs(n) \/ RemoteCloses(n)
  BY DEF ServiceWorks, ServiceFails
<1>4. \E s \in SessionType :
        /\ sess' = [sess EXCEPT ![n] = s] /\ s.gone = sess[n].gone
        /\ sess[n].st = "closed" => s.st = "closed"
        /\ s.heard \in {sess[n].heard, 0}
  <2>1. \/ sess' = [sess EXCEPT ![n] = Destroyed(sess[n])]
        \/ sess[n].st # "closed" /\ sess' = [sess EXCEPT ![n] = [sess[n] EXCEPT !.st = "open"]]
        \/ sess[n].st # "closed" /\ sess' = [sess EXCEPT ![n] = [sess[n] EXCEPT !.st = "acked"]]
        \/ sess[n].st # "closed" /\ sess' = [sess EXCEPT ![n] = [sess[n] EXCEPT !.st = "dying"]]
        \/ sess[n].st # "closed" /\ sess' = [sess EXCEPT ![n] = [sess[n] EXCEPT !.heard = 0]]
        \/ sess' = [sess EXCEPT ![n] = [sess[n] EXCEPT !.st = "closed"]]
        \/ sess' = [sess EXCEPT ![n] = [sess[n] EXCEPT !.st = "closed", !.dead = TRUE, !.timer = FALSE]]
    <3>1. CASE Progress(n)
      BY <3>1 DEF Progress, Session
    <3>2. CASE Errs(n)
      <4>1. sess[n].st # "closed" /\ \/ sess' = [sess EXCEPT ![n] = [sess[n] EXCEPT !.st = "dying"]]
                                     \/ sess' = [sess EXCEPT ![n] = [sess[n] EXCEPT !.st = "acked"]]
        BY <1>1, <3>2 DEF Errs, Alive, Session, SessionType
      <4> QED BY <4>1
    <3>3. CASE RemoteCloses(n)
      BY <3>3 DEF RemoteCloses, Session
    <3> QED BY <1>3, <3>1, <3>2, <3>3
  <2>2. /\ Destroyed(sess[n]) \in SessionType /\ Destroyed(sess[n]).gone = sess[n].gone
        /\ Destroyed(sess[n]).heard = sess[n].heard
        /\ sess[n].st = "closed" => Destroyed(sess[n]).st = "closed"
    BY <1>1, DestroyedKeeps
  <2>3. \A st \in {"open", "acked", "dying", "closed"} :
          LET s == [sess[n] EXCEPT !.st = st]
          IN s \in SessionType /\ s.gone = sess[n].gone /\ s.st = st /\ s.heard = sess[n].heard
    BY <1>1 DEF SessionType
  <2>4. LET s == [sess[n] EXCEPT !.heard = 0]
        IN s \in SessionType /\ s.gone = sess[n].gone /\ s.heard = 0
    BY <1>1 DEF SessionType
  <2>5. LET s == [sess[n] EXCEPT !.st = "closed", !.dead = TRUE, !.timer = FALSE]
        IN s \in SessionType /\ s.gone = sess[n].gone /\ s.st = "closed" /\ s.heard = sess[n].heard
    BY <1>1 DEF SessionType
  <2> QED BY <2>1, <2>2, <2>3, <2>4, <2>5
<1>5. \A i \in 1..Len(down') : down'[i].kind = "transcript" => down'[i].text = presses'
  <2>1. \E d : (d.kind = "transcript" => d.text = presses) /\ (down' = down \/ down' = Append(down, d))
    <3>1. \A k \in {"started", "stopped", "error"} : Message(k).kind # "transcript"
      BY DEF Message
    <3>2. CASE \E k \in {"started", "stopped", "error"} : Tell(n, Message(k))
      BY <3>1, <3>2 DEF Tell
    <3>3. CASE down' = down
      BY <3>1, <3>3
    <3>4. CASE sess[n].st = "acked" /\ sess[n].heard # 0
               /\ Tell(n, [kind |-> "transcript", text |-> sess[n].heard])
      <4>1. CASE sess[n].gone
        BY <3>3, <3>4, <4>1 DEF Tell
      <4>2. CASE ~sess[n].gone
        <5>1. sess[n].heard = presses
          BY <1>1, <3>4, <4>2 DEF OnTheWay
        <5>2. [kind |-> "transcript", text |-> sess[n].heard].text = presses
          BY <5>1
        <5> QED BY <3>4, <4>2, <5>2 DEF Tell
      <4> QED BY <4>1, <4>2
    <3> QED BY <1>3, <3>2, <3>3, <3>4 DEF Progress, Errs, RemoteCloses
  <2>2. PICK d : (d.kind = "transcript" => d.text = presses) /\ (down' = down \/ down' = Append(down, d))
    BY <2>1
  <2>3. CASE down' = down
    BY <1>2, <2>3 DEF OnTheWay
  <2>4. CASE down' = Append(down, d)
    <3>1. /\ Len(down') = Len(down) + 1 /\ down'[Len(down) + 1] = d
          /\ \A i \in 1..Len(down) : down'[i] = down[i]
      BY <1>1, <2>4
    <3>2. \A i \in 1..Len(down') : i \in 1..Len(down) \/ i = Len(down) + 1
      BY <1>1, <3>1
    <3> QED BY <1>2, <2>2, <3>1, <3>2 DEF OnTheWay
  <2> QED BY <2>2, <2>3, <2>4
<1> QED BY <1>1, <1>2, <1>4, <1>5, HeardKept DEF OnTheWay

LEMMA OnTheWayStep ==
  ASSUME Types, Words, Next, ~late'
  PROVE  OnTheWay'
<1>1. /\ up \in Seq(Upward) /\ down \in Seq(Downward) /\ sess \in Seq(SessionType)
      /\ presses \in Nat /\ current \in 0..Len(sess)
  BY DEF Types
<1> USE DEF Words
<1>2. CASE UNCHANGED <<up, down, sess, presses>>
  BY <1>2 DEF OnTheWay
<1>3. CASE PointerDown
  <2>1. up = <<>> /\ down = <<>> /\ \A n \in DOMAIN sess : sess[n].gone \/ sess[n].st = "closed"
    BY <1>3 DEF PointerDown, Unsettled
  <2>2. UNCHANGED <<up, down, sess>> /\ DOMAIN sess = 1..Len(sess)
    BY <1>1, <1>3 DEF PointerDown, server
  <2> QED BY <2>1, <2>2 DEF OnTheWay
<1>4. ASSUME NEW m, up' = Append(up, m), m.kind = "pcm" => m.press = presses,
             UNCHANGED <<down, sess, presses>>
      PROVE  OnTheWay'
  <2>1. /\ Len(up') = Len(up) + 1 /\ up'[Len(up) + 1] = m
        /\ \A i \in 1..Len(up) : up'[i] = up[i]
    BY <1>1, <1>4
  <2>2. \A i \in 1..Len(up') : i \in 1..Len(up) \/ i = Len(up) + 1
    BY <1>1, <2>1
  <2> QED BY <1>4, <2>1, <2>2 DEF OnTheWay
<1>5. CASE PointerUp
  <2>1. up' = up \/ up' = Append(up, [kind |-> "stop", press |-> presses])
    <3>1. PICK u : UNCHANGED up \/ StopStreaming(u) \/ StopRecorder(u)
      BY <1>5, Released DEF Types
    <3> QED BY <3>1 DEF StopStreaming, StopASR, StopRecorder
  <2>2. UNCHANGED <<down, sess, presses>>
    BY <1>5 DEF PointerUp, server
  <2> QED BY <1>2, <1>4, <2>1, <2>2
<1>6. CASE Speak
  <2>1. up' = up \/ up' = Append(up, [kind |-> "pcm", press |-> presses])
    BY <1>6 DEF Speak
  <2>2. UNCHANGED <<down, sess, presses>>
    BY <1>6 DEF Speak, server
  <2> QED BY <1>2, <1>4, <2>1, <2>2
<1>7. ASSUME NEW a \in asks, Wired(a) PROVE OnTheWay'
  <2>1. up' = up \/ up' = Append(up, [kind |-> "start", press |-> a.press])
    BY <1>7 DEF Wired
  <2>2. UNCHANGED <<down, sess, presses>>
    BY <1>7 DEF Wired, server
  <2> QED BY <1>2, <1>4, <2>1, <2>2
<1>8. CASE ClientReceives
  <2>1. down' = Tail(down) /\ down # <<>> /\ UNCHANGED <<up, sess, presses>>
    BY <1>8 DEF ClientReceives, server
  <2>2. Len(down') = Len(down) - 1 /\ \A i \in 1..Len(down') : down'[i] = down[i + 1] /\ i + 1 \in 1..Len(down)
    BY <1>1, <2>1
  <2> QED BY <2>1, <2>2 DEF OnTheWay
<1>9. CASE Leave
  <2>1. up' = <<>> /\ down' = <<>>
    BY <1>9 DEF Leave
  <2>2. sess' = [n \in 1..Len(sess) |-> [DestroyCurrent[n] EXCEPT !.gone = TRUE]]
    BY <1>1, <1>9 DEF Leave
  <2>3. \A n \in 1..Len(sess) : DestroyCurrent[n] \in SessionType
    BY DestroyCurrentKeeps
  <2>4. \A n \in 1..Len(sess) : sess'[n].gone
    BY <2>2, <2>3 DEF SessionType
  <2>5. Len(sess') = Len(sess)
    BY <1>1, <2>2
  <2> QED BY <2>1, <2>4, <2>5 DEF OnTheWay
<1> QED BY <1>2, <1>3, <1>5, <1>6, <1>7, <1>8, <1>9, ReceivedWords, ServedWords
        DEF Next, Browser, Server, PointerMove, SafetyTimeout, PreviewEnds, ModeToggle, Granted,
            StartFails, RecorderGranted, RecorderDenied, Transcribed, server

-----------------------------------------------------------------------------
LEMMA ButtonInit == Init => ButtonInv
<1> SUFFICES ASSUME Init PROVE ButtonInv
  OBVIOUS
<1>1. PICK w \in BOOLEAN : ui = Mounted(w)
  BY DEF Init
<1>2. ui \in Ui
  BY <1>1 DEF Mounted, Ui, Voices
<1>3. asr \in Asr /\ mic \in Mic /\ ~asr.active /\ mic.open = {}
  BY DEF Init, Asr, Mic, States
<1>4. Types
  BY <1>2, <1>3 DEF Init, Types
<1>5. Press
  BY <1>1, <1>3, QuietPress DEF Init, Mounted
<1>6. PageWords
  BY <1>1, <1>3 DEF Init, Mounted, PageWords, OneUpload
<1>7. OnTheWay
  BY DEF Init, OnTheWay
<1> QED BY <1>4, <1>5, <1>6, <1>7 DEF ButtonInv, PressUnlessRaced, WordsUnlessLate, Words

LEMMA ButtonStep == ButtonInv /\ [Next]_vars => ButtonInv'
<1> SUFFICES ASSUME ButtonInv, [Next]_vars PROVE ButtonInv'
  OBVIOUS
<1>1. CASE Next
  <2>1. raced => raced'
    <3>1. CASE UNCHANGED raced
      BY <3>1
    <3>2. CASE PointerUp \/ ModeToggle \/ Leave \/ \E a \in asks : StartFails(a)
      BY <3>2 DEF PointerUp, ModeToggle, Leave, StartFails
    <3>3. CASE ClientReceives
      BY <3>3 DEF ClientReceives
    <3> QED BY <1>1, <3>1, <3>2, <3>3 DEF Next, Browser, Server, PointerDown, PointerMove, Speak,
       SafetyTimeout, PreviewEnds, Granted, Wired, RecorderGranted, RecorderDenied, Transcribed,
       ServerReceives, ServiceWorks, ServiceFails
  <2>2. late => late'
    BY <1>1 DEF Next, Browser, Server, PointerDown, PointerMove, PointerUp, Speak, SafetyTimeout,
       PreviewEnds, ModeToggle, ClientReceives, Leave, Granted, Wired, StartFails, RecorderGranted,
       RecorderDenied, Transcribed, ServerReceives, ServiceWorks, ServiceFails
  <2> QED BY <1>1, <2>1, <2>2, TypesStep, PressStep, PageWordsStep, OnTheWayStep
          DEF ButtonInv, PressUnlessRaced, WordsUnlessLate, Words
<1>2. CASE UNCHANGED vars
  BY <1>2 DEF vars, ButtonInv, Types, PressUnlessRaced, Press, WordsUnlessLate, Words, PageWords,
              OnTheWay, OneUpload
<1> QED BY <1>1, <1>2

\* Whatever the browser grants, refuses or delays, the service fails and the page
\* does in between: unless a press ended before its microphone came or recognition
\* broke off in mid-press, nobody is recorded who does not hold the button
\* (startRecording, stopRecording, startASR, stopASR), and unless a press began
\* before the sessions of the earlier ones had ended, the words for confirmation
\* are of the last press.
THEOREM ButtonIsSound == Spec => []ButtonIsSoundUnlessCrossed
<1>1. ButtonInv => ButtonIsSoundUnlessCrossed
  BY DEF ButtonInv, PressUnlessRaced, Press, WordsUnlessLate, Words, PageWords,
         ButtonIsSoundUnlessCrossed, MicOnlyWhileHeldUnlessRaced, PreviewIsOfTheLastPressUnlessLate
<1> QED BY <1>1, ButtonInit, ButtonStep, PTL DEF Spec

(* Calls and the voice view. ************************************************)

Owners == {"call", "view"}
Phases == {"recording", "processing", "playing"}
CallType ==
  [active : BOOLEAN, phase : Phases, stream : Nat, rec : Nat, play : Nat, ctx : BOOLEAN,
   starts : Nat, rtc : BOOLEAN]
ViewType ==
  [state : Phases \cup {"idle"}, stream : Nat, rec : Nat, play : Nat,
   text : {"none", "plain", "base64"}, url : BOOLEAN]
MicAsk  == [of : Owners, id : Nat \ {0}]
Request == [of : Owners, id : Nat, at : {"stt", "task", "tts", "error", "text", "audio"}]
Source  == [of : Owners, id : Nat]

HandsTypes ==
  /\ shown \in {"chat", "voice", "elsewhere"}
  /\ call \in CallType /\ vv \in ViewType
  /\ handsAsks \subseteq MicAsk /\ reqs \subseteq Request /\ sources \subseteq Source
  /\ open \subseteq Nat \ {0}
  /\ asked \in Nat /\ calls \in Nat /\ handsSent \in Nat

\* Only an active call records.
CallRefs == call.rec # 0 => call.active

NoneOf(s, of) == \A x \in s : x.of # of
AtMostOne(s, of) == \A x, y \in s : x.of = of /\ y.of = of => x = y

\* While a call lasts it is shown, and its parts take turns: the microphone is asked for, or
\* records, or a request is under way, or an answer is played.
CallTakesTurns ==
  call.active =>
    /\ shown = "chat" /\ ~call.rtc
    /\ AtMostOne(handsAsks, "call") /\ AtMostOne(reqs, "call") /\ AtMostOne(sources, "call")
    /\ NoneOf(handsAsks, "call") \/ (NoneOf(reqs, "call") /\ NoneOf(sources, "call") /\ call.phase = "recording")
    /\ NoneOf(reqs, "call") \/ NoneOf(sources, "call")
    /\ call.rec # 0 =>
         /\ NoneOf(handsAsks, "call") /\ NoneOf(reqs, "call") /\ NoneOf(sources, "call")
         /\ call.phase = "recording" /\ call.stream = call.rec

\* So do those of the view.
ViewTakesTurns ==
  /\ AtMostOne(handsAsks, "view")
  /\ shown = "chat" => vv.state = "idle" /\ NoneOf(reqs, "view") /\ NoneOf(sources, "view")
  /\ shown # "voice" => NoneOf(handsAsks, "view")
  /\ shown = "voice" =>
       /\ AtMostOne(reqs, "view")
       /\ vv.state # "idle" => NoneOf(handsAsks, "view")
       /\ vv.state # "processing" => NoneOf(reqs, "view")
       /\ vv.state # "playing" => NoneOf(sources, "view")
       /\ \A s \in sources : s.of = "view" => s.id = vv.play

\* A stream whose tracks run is the one that is recorded.
OpenIsHeard ==
  \A id \in open :
    \/ call.active /\ call.rec = id
    \/ shown = "voice" /\ vv.state = "recording" /\ vv.stream = id

HandsInv ==
  /\ HandsTypes
  /\ CallRefs
  /\ ~handsRaced => CallTakesTurns /\ ViewTakesTurns /\ OpenIsHeard

(* What asking and sending add. *********************************************)

LEMMA AskMicAdds ==
  ASSUME HandsTypes, NEW of \in Owners, AskMic(of)
  PROVE  /\ handsAsks' \subseteq MicAsk /\ asked' \in Nat
         /\ handsAsks \subseteq handsAsks'
         /\ \A a \in handsAsks' : a.of # of => a \in handsAsks
         /\ NoneOf(handsAsks, of) => AtMostOne(handsAsks', of)
<1>1. CASE asked < MaxAsks
  <2> DEFINE new == [of |-> of, id |-> asked + 1]
  <2>1. handsAsks' = handsAsks \cup {new} /\ asked' = asked + 1
    BY <1>1 DEF AskMic
  <2>2. new \in MicAsk /\ new.of = of
    BY DEF MicAsk, HandsTypes
  <2> HIDE DEF new
  <2> QED BY <2>1, <2>2 DEF HandsTypes, NoneOf, AtMostOne
<1>2. CASE ~(asked < MaxAsks)
  BY <1>2 DEF AskMic, HandsTypes, NoneOf, AtMostOne
<1> QED BY <1>1, <1>2

LEMMA SendAdds ==
  ASSUME HandsTypes, NEW of \in Owners, Send(of)
  PROVE  /\ reqs' \subseteq Request /\ handsSent' \in Nat
         /\ reqs \subseteq reqs'
         /\ \A r \in reqs' : r.of # of => r \in reqs
         /\ NoneOf(reqs, of) => AtMostOne(reqs', of)
<1>1. CASE handsSent < MaxReqs
  <2> DEFINE new == [of |-> of, id |-> handsSent + 1, at |-> "stt"]
  <2>1. reqs' = reqs \cup {new} /\ handsSent' = handsSent + 1
    BY <1>1 DEF Send
  <2>2. new \in Request /\ new.of = of
    BY DEF Request, HandsTypes
  <2> HIDE DEF new
  <2> QED BY <2>1, <2>2 DEF HandsTypes, NoneOf, AtMostOne
<1>2. CASE ~(handsSent < MaxReqs)
  BY <1>2 DEF Send, HandsTypes, NoneOf, AtMostOne
<1> QED BY <1>1, <1>2

LEMMA HandsInitial == HandsInit => HandsInv
<1> SUFFICES ASSUME HandsInit PROVE HandsInv
  OBVIOUS
<1>1. HandsTypes
  BY DEF HandsInit, HandsTypes, CallType, ViewType, Phases
<1> QED BY <1>1 DEF HandsInit, HandsInv, CallRefs, CallTakesTurns, ViewTakesTurns, OpenIsHeard,
    NoneOf, AtMostOne

LEMMA StartCallRecordingStep ==
  ASSUME HandsTypes, NEW c \in CallType, StartCallRecording(c)
  PROVE  /\ call' \in CallType /\ handsAsks' \subseteq MicAsk /\ asked' \in Nat
         /\ c.active => call'.phase = "recording"
         /\ ~c.active => handsAsks' = handsAsks /\ call' = c
         /\ call'.active = c.active /\ call'.rtc = c.rtc /\ call'.rec = c.rec /\ call'.stream = c.stream
         /\ handsAsks \subseteq handsAsks'
         /\ \A a \in handsAsks' : a.of # "call" => a \in handsAsks
         /\ NoneOf(handsAsks, "call") => AtMostOne(handsAsks', "call")
<1>1. CASE c.active
  <2>1. call' = [c EXCEPT !.phase = "recording"] /\ AskMic("call")
    BY <1>1 DEF StartCallRecording
  <2> QED BY <1>1, <2>1, AskMicAdds DEF CallType, Phases, Owners
<1>2. CASE ~c.active
  BY <1>2 DEF StartCallRecording, HandsTypes, NoneOf, AtMostOne
<1> QED BY <1>1, <1>2

LEMMA StopCallRecordingStep ==
  ASSUME HandsTypes, StopCallRecording
  PROVE  /\ call' \in CallType /\ reqs' \subseteq Request /\ handsSent' \in Nat
         /\ open' = open \ {call.stream}
         /\ call.rec # 0 => call'.phase = "processing"
         /\ call.rec = 0 => reqs' = reqs /\ call'.phase = call.phase
         /\ call'.active = call.active /\ call'.rtc = call.rtc /\ call'.rec = 0
         /\ reqs \subseteq reqs'
         /\ \A r \in reqs' : r.of # "call" => r \in reqs
         /\ NoneOf(reqs, "call") => AtMostOne(reqs', "call")
<1>0. call \in CallType
  BY DEF HandsTypes
<1>1. CASE call.rec # 0
  <2>1. /\ call' = [call EXCEPT !.rec = 0, !.stream = 0, !.phase = "processing"]
        /\ Send("call")
    BY <1>1 DEF StopCallRecording
  <2>2. call' \in CallType
    BY <1>0, <2>1 DEF CallType, Phases
  <2> QED BY <1>1, <2>1, <2>2, SendAdds DEF StopCallRecording, Owners
<1>2. CASE call.rec = 0
  BY <1>2 DEF StopCallRecording, HandsTypes, CallType, NoneOf, AtMostOne
<1> QED BY <1>1, <1>2

(* Steps of the two views. ****************************************************)

\* What the beginning of a call makes of its state, at a click or after one.
LEMMA BeginStep ==
  ASSUME HandsInv, NEW c \in CallType, c.rec = call.rec, c.active = call.active, c.rtc = call.rtc,
         Begin(c), UNCHANGED <<shown, vv, open, reqs, sources, handsSent>>, calls' \in Nat
  PROVE  HandsInv'
<1> DEFINE d == [c EXCEPT !.active = TRUE]
<1>0. d \in CallType /\ d.active /\ d.rec = call.rec /\ d.rtc = call.rtc
  BY DEF CallType
<1>a. StartCallRecording(d) /\ handsRaced' = (handsRaced \/ Pending \/ call.active \/ call.rtc \/ shown # "chat")
  BY DEF Begin
<1> HIDE DEF d
<1>b. /\ call' \in CallType /\ handsAsks' \subseteq MicAsk /\ asked' \in Nat
      /\ call'.phase = "recording" /\ call'.active /\ call'.rtc = call.rtc /\ call'.rec = call.rec
      /\ handsAsks \subseteq handsAsks'
      /\ \A a \in handsAsks' : a.of # "call" => a \in handsAsks
      /\ NoneOf(handsAsks, "call") => AtMostOne(handsAsks', "call")
  BY <1>0, <1>a, StartCallRecordingStep DEF HandsInv
<1>1. HandsTypes'
  BY <1>b DEF HandsInv, HandsTypes
<1>2. CallRefs'
  BY <1>b DEF CallRefs
<1>3. ~handsRaced' => CallTakesTurns'
  BY <1>a, <1>b DEF Pending, HandsInv, CallRefs, CallTakesTurns, NoneOf, AtMostOne
<1>4. ~handsRaced' => ViewTakesTurns'
  BY <1>a, <1>b DEF HandsInv, ViewTakesTurns, NoneOf, AtMostOne
<1>5. ~handsRaced' => OpenIsHeard'
  BY <1>a, <1>b DEF HandsInv, OpenIsHeard
<1> QED BY <1>1, <1>2, <1>3, <1>4, <1>5 DEF HandsInv

\* A change of the call's refs that leaves its parts as they are.
LEMMA RefsChange ==
  ASSUME HandsInv, call' \in CallType, call'.phase = call.phase, call'.active = call.active,
         call'.stream = call.stream, call'.rec = call.rec,
         ~handsRaced' => ~handsRaced /\ (call.active => call'.rtc = call.rtc), calls' \in Nat,
         UNCHANGED <<shown, vv, handsAsks, open, reqs, sources, asked, handsSent>>
  PROVE  HandsInv'
<1>1. HandsTypes'
  BY DEF HandsInv, HandsTypes
<1>2. CallRefs'
  BY DEF HandsInv, CallRefs
<1>3. ~handsRaced' => CallTakesTurns'
  BY DEF HandsInv, CallTakesTurns
<1>4. ~handsRaced' => ViewTakesTurns'
  BY DEF HandsInv, ViewTakesTurns
<1>5. ~handsRaced' => OpenIsHeard'
  BY DEF HandsInv, OpenIsHeard
<1> QED BY <1>1, <1>2, <1>3, <1>4, <1>5 DEF HandsInv

LEMMA StartCallStep ==
  ASSUME HandsInv, StartCall
  PROVE  HandsInv'
<1>0. call \in CallType /\ calls' \in Nat
  BY DEF StartCall, HandsInv, HandsTypes
<1>1. CASE Begin([call EXCEPT !.ctx = TRUE])
  <2>1. [call EXCEPT !.ctx = TRUE] \in CallType
    BY <1>0 DEF CallType
  <2> QED BY <1>0, <1>1, <2>1, BeginStep DEF StartCall, CallType
<1>2. CASE /\ call' = [call EXCEPT !.ctx = TRUE, !.starts = @ + 1]
           /\ UNCHANGED <<handsAsks, asked, handsRaced>>
  <2>1. call.starts + 1 \in Nat
    BY <1>0 DEF CallType
  <2>2. /\ call' \in CallType /\ call'.phase = call.phase /\ call'.active = call.active
        /\ call'.stream = call.stream /\ call'.rec = call.rec /\ call'.rtc = call.rtc
    BY <1>0, <1>2, <2>1 DEF CallType
  <2> QED BY <1>0, <1>2, <2>2, RefsChange DEF StartCall
<1> QED BY <1>1, <1>2 DEF StartCall

LEMMA ResumedStep ==
  ASSUME HandsInv, Resumed
  PROVE  HandsInv'
<1> DEFINE c == [call EXCEPT !.starts = @ - 1]
<1>1. call \in CallType /\ call.starts > 0 /\ calls' \in Nat
  BY DEF Resumed, HandsInv, HandsTypes
<1>2. c \in CallType /\ c.rec = call.rec /\ c.active = call.active /\ c.rtc = call.rtc
  BY <1>1 DEF CallType
<1>3. Begin(c) /\ UNCHANGED <<shown, vv, open, reqs, sources, handsSent>>
  BY DEF Resumed
<1> HIDE DEF c
<1> QED BY <1>1, <1>2, <1>3, BeginStep

LEMMA RtcConfigAnswersStep ==
  ASSUME HandsInv, RtcConfigAnswers
  PROVE  HandsInv'
<1>1. call \in CallType /\ call' = [call EXCEPT !.rtc = TRUE] /\ calls' \in Nat
  BY DEF RtcConfigAnswers, HandsInv, HandsTypes
<1>2. /\ call' \in CallType /\ call'.phase = call.phase /\ call'.active = call.active
      /\ call'.stream = call.stream /\ call'.rec = call.rec
  BY <1>1 DEF CallType
<1> QED BY <1>1, <1>2, RefsChange DEF RtcConfigAnswers

LEMMA CallGrantedStep ==
  ASSUME HandsInv, NEW a \in handsAsks, CallGranted(a)
  PROVE  HandsInv'
<1>1. CASE call.active /\ Take(a.id)
  <2> DEFINE id == a.id
  <2>0. /\ id \in Nat \ {0} /\ a.of = "call" /\ handsAsks' = handsAsks \ {a} /\ call.active
        /\ call' = [call EXCEPT !.stream = id, !.rec = id] /\ open' = open \cup {id}
        /\ UNCHANGED <<shown, vv, reqs, sources, asked, calls, handsSent, handsRaced>>
    BY <1>1 DEF CallGranted, Take, HandsInv, HandsTypes, MicAsk
  <2> HIDE DEF id
  <2>a. call' \in CallType /\ call'.active /\ call'.rec = id /\ call'.stream = id
        /\ call'.phase = call.phase /\ call'.rtc = call.rtc
    BY <2>0 DEF HandsInv, HandsTypes, CallType
  <2>1. HandsTypes'
    BY <2>0, <2>a DEF HandsInv, HandsTypes
  <2>2. CallRefs'
    BY <2>0, <2>a DEF HandsInv, CallRefs
  <2>3. ~handsRaced' => CallTakesTurns'
    BY <2>0 DEF HandsInv, CallTakesTurns, NoneOf, AtMostOne
  <2>4. ~handsRaced' => ViewTakesTurns'
    BY <2>0 DEF HandsInv, ViewTakesTurns, NoneOf, AtMostOne
  <2>5. ~handsRaced' => OpenIsHeard'
    BY <2>0 DEF HandsInv, HandsTypes, OpenIsHeard, CallTakesTurns, NoneOf
  <2> QED BY <2>1, <2>2, <2>3, <2>4, <2>5 DEF HandsInv
<1>2. CASE UNCHANGED <<call, open>>
  <2>1. HandsTypes'
    BY <1>2 DEF CallGranted, HandsInv, HandsTypes
  <2>2. CallRefs'
    BY <1>2 DEF HandsInv, CallRefs
  <2>3. ~handsRaced' => CallTakesTurns'
    BY <1>2 DEF CallGranted, HandsInv, CallTakesTurns, NoneOf, AtMostOne
  <2>4. ~handsRaced' => ViewTakesTurns'
    BY DEF CallGranted, HandsInv, ViewTakesTurns, NoneOf, AtMostOne
  <2>5. ~handsRaced' => OpenIsHeard'
    BY <1>2 DEF CallGranted, HandsInv, OpenIsHeard
  <2> QED BY <2>1, <2>2, <2>3, <2>4, <2>5 DEF HandsInv
<1> QED BY <1>1, <1>2 DEF CallGranted, Take

LEMMA SilenceStep ==
  ASSUME HandsInv, Silence
  PROVE  HandsInv'
<1>1. HandsTypes'
  BY StopCallRecordingStep DEF Silence, HandsInv, HandsTypes
<1>2. CallRefs'
  BY StopCallRecordingStep DEF Silence, HandsInv, CallRefs
<1>3. ~handsRaced' => CallTakesTurns'
  BY StopCallRecordingStep DEF Silence, HandsInv, CallTakesTurns
<1>4. ~handsRaced' => ViewTakesTurns'
  BY StopCallRecordingStep DEF Silence, HandsInv, ViewTakesTurns, NoneOf, AtMostOne
<1>5. ~handsRaced' => OpenIsHeard'
  BY StopCallRecordingStep DEF Silence, HandsInv, OpenIsHeard, CallTakesTurns
<1> QED BY <1>1, <1>2, <1>3, <1>4, <1>5 DEF HandsInv

LEMMA HandleCallTapStep ==
  ASSUME HandsInv, HandleCallTap
  PROVE  HandsInv'
<1>1. CASE call.phase = "recording"
  <2>0. /\ shown = "chat" /\ call.active /\ StopCallRecording
        /\ UNCHANGED <<handsAsks, asked, sources, handsRaced, shown, vv, calls>>
    BY <1>1 DEF HandleCallTap
  <2>1. HandsTypes'
    BY <2>0, StopCallRecordingStep DEF HandsInv, HandsTypes
  <2>2. CallRefs'
    BY <2>0, StopCallRecordingStep DEF HandsInv, CallRefs
  <2>3. ~handsRaced' => CallTakesTurns'
    BY <2>0, StopCallRecordingStep DEF HandsInv, CallTakesTurns
  <2>4. ~handsRaced' => ViewTakesTurns'
    BY <2>0, StopCallRecordingStep DEF HandsInv, ViewTakesTurns, NoneOf
  <2>5. ~handsRaced' => OpenIsHeard'
    BY <2>0, StopCallRecordingStep DEF HandsInv, OpenIsHeard, CallTakesTurns
  <2> QED BY <2>1, <2>2, <2>3, <2>4, <2>5 DEF HandsInv
<1>2. CASE call.phase # "recording"
  <2> DEFINE c == [call EXCEPT !.play = 0]
  <2>0. c \in CallType /\ c.active = call.active /\ c.rtc = call.rtc /\ c.rec = call.rec /\ c.stream = call.stream
    BY DEF HandsInv, HandsTypes, CallType
  <2>a. /\ shown = "chat" /\ call.active /\ StartCallRecording(c) /\ handsRaced'
        /\ UNCHANGED <<open, reqs, handsSent, sources, shown, vv, calls>>
    BY <1>2 DEF HandleCallTap
  <2> HIDE DEF c
  <2>1. HandsTypes'
    BY <2>0, <2>a, StartCallRecordingStep DEF HandsInv, HandsTypes
  <2>2. CallRefs'
    BY <2>0, <2>a, StartCallRecordingStep DEF HandsInv, CallRefs
  <2> QED BY <2>a, <2>1, <2>2 DEF HandsInv
<1> QED BY <1>1, <1>2

LEMMA EndCallStep ==
  ASSUME HandsInv, EndCall
  PROVE  HandsInv'
<1>1. HandsTypes'
  BY DEF EndCall, HandsInv, HandsTypes, CallType
<1>2. CallRefs'
  BY DEF EndCall, CallRefs
<1>3. ~handsRaced' => CallTakesTurns'
  BY DEF EndCall, CallTakesTurns
<1>4. ~handsRaced' => ViewTakesTurns'
  BY DEF EndCall, HandsInv, ViewTakesTurns
<1>5. ~handsRaced' => OpenIsHeard'
  BY DEF EndCall, HandsInv, HandsTypes, OpenIsHeard, CallTakesTurns
<1> QED BY <1>1, <1>2, <1>3, <1>4, <1>5 DEF HandsInv

LEMMA CallAnsweredStep ==
  ASSUME HandsInv, NEW r \in reqs, CallAnswered(r)
  PROVE  HandsInv'
<1>1. CASE r.at = "audio" /\ call.ctx
  <2> DEFINE id == r.id  new == [of |-> "call", id |-> id]
  <2>0. /\ id \in Nat /\ r.of = "call" /\ reqs' = reqs \ {r}
        /\ call' = [call EXCEPT !.phase = "playing", !.play = id] /\ sources' = sources \cup {new}
        /\ UNCHANGED <<handsAsks, asked, shown, vv, open, calls, handsSent, handsRaced>>
    BY <1>1 DEF CallAnswered, HandsInv, HandsTypes, Request
  <2> HIDE DEF id
  <2>a. /\ call' \in CallType /\ call'.active = call.active /\ call'.rtc = call.rtc
        /\ call'.rec = call.rec /\ call'.stream = call.stream
    BY <2>0 DEF HandsInv, HandsTypes, CallType, Phases
  <2>b. new \in Source /\ new.of = "call"
    BY <2>0 DEF Source, Owners
  <2> HIDE DEF new
  <2>1. HandsTypes'
    BY <2>0, <2>a, <2>b DEF HandsInv, HandsTypes
  <2>2. CallRefs'
    BY <2>a DEF HandsInv, CallRefs
  <2>3. ~handsRaced' => CallTakesTurns'
    BY <2>0 DEF HandsInv, CallTakesTurns, NoneOf, AtMostOne
  <2>4. ~handsRaced' => ViewTakesTurns'
    BY <2>0, <2>b DEF HandsInv, ViewTakesTurns, NoneOf, AtMostOne
  <2>5. ~handsRaced' => OpenIsHeard'
    BY <2>0 DEF HandsInv, OpenIsHeard
  <2> QED BY <2>1, <2>2, <2>3, <2>4, <2>5 DEF HandsInv
<1>2. CASE ~(r.at = "audio" /\ call.ctx)
  <2>0. /\ r.of = "call" /\ reqs' = reqs \ {r} /\ StartCallRecording(call)
        /\ UNCHANGED <<sources, shown, vv, open, calls, handsSent, handsRaced>>
    BY <1>2 DEF CallAnswered
  <2>1. HandsTypes'
    BY <2>0, StartCallRecordingStep DEF HandsInv, HandsTypes
  <2>2. CallRefs'
    BY <2>0, StartCallRecordingStep DEF HandsInv, HandsTypes, CallRefs
  <2>3. ~handsRaced' => CallTakesTurns'
    BY <2>0, StartCallRecordingStep DEF HandsInv, HandsTypes, CallTakesTurns, NoneOf, AtMostOne
  <2>4. ~handsRaced' => ViewTakesTurns'
    BY <2>0, StartCallRecordingStep DEF HandsInv, HandsTypes, ViewTakesTurns, NoneOf, AtMostOne
  <2>5. ~handsRaced' => OpenIsHeard'
    BY <2>0, StartCallRecordingStep DEF HandsInv, HandsTypes, OpenIsHeard
  <2> QED BY <2>1, <2>2, <2>3, <2>4, <2>5 DEF HandsInv
<1> QED BY <1>1, <1>2

LEMMA CallSourceEndsStep ==
  ASSUME HandsInv, NEW s \in sources, CallSourceEnds(s)
  PROVE  HandsInv'
<1>0. [call EXCEPT !.play = 0] \in CallType /\ [call EXCEPT !.play = 0].active = call.active
  BY DEF HandsInv, HandsTypes, CallType
<1>a. ~handsRaced /\ call.active =>
        NoneOf(handsAsks, "call") /\ NoneOf(reqs, "call") /\ NoneOf(sources', "call")
  BY DEF CallSourceEnds, HandsInv, CallTakesTurns, NoneOf, AtMostOne
<1>1. HandsTypes'
  BY StartCallRecordingStep DEF CallSourceEnds, HandsInv, HandsTypes, CallType
<1>2. CallRefs'
  BY StartCallRecordingStep DEF CallSourceEnds, HandsInv, HandsTypes, CallRefs, CallType
<1>3. ~handsRaced' => CallTakesTurns'
  BY <1>0, StartCallRecordingStep DEF CallSourceEnds, HandsInv, CallTakesTurns, NoneOf, AtMostOne,
      CallType
<1>4. ~handsRaced' => ViewTakesTurns'
  BY StartCallRecordingStep DEF CallSourceEnds, HandsInv, HandsTypes, ViewTakesTurns, NoneOf,
      AtMostOne, CallType
<1>5. ~handsRaced' => OpenIsHeard'
  BY StartCallRecordingStep DEF CallSourceEnds, HandsInv, HandsTypes, OpenIsHeard, CallType
<1> QED BY <1>1, <1>2, <1>3, <1>4, <1>5 DEF HandsInv

LEMMA LeaveChatStep ==
  ASSUME HandsInv, LeaveChat
  PROVE  HandsInv'
<1>1. HandsTypes'
  BY StopCallRecordingStep DEF LeaveChat, HandsInv, HandsTypes
<1>2. CallRefs'
  BY StopCallRecordingStep DEF LeaveChat, HandsInv, CallRefs
<1>3. ~handsRaced' => CallTakesTurns'
  BY DEF LeaveChat, CallTakesTurns
<1>4. ~handsRaced' => ViewTakesTurns'
  BY DEF LeaveChat, HandsInv, ViewTakesTurns, NoneOf, AtMostOne
<1>5. ~handsRaced' => OpenIsHeard'
  BY DEF LeaveChat, HandsInv, OpenIsHeard
<1> QED BY <1>1, <1>2, <1>3, <1>4, <1>5 DEF HandsInv

LEMMA HandleMicClickStep ==
  ASSUME HandsInv, HandleMicClick
  PROVE  HandsInv'
<1>1. CASE /\ shown = "voice" /\ vv.state = "idle" /\ AskMic("view")
         /\ handsRaced' = (handsRaced \/ \E a \in handsAsks : a.of = "view")
         /\ UNCHANGED <<vv, open, reqs, handsSent, sources, shown, call, calls>>
  <2>1. HandsTypes'
    BY <1>1, AskMicAdds DEF HandsInv, HandsTypes, Owners
  <2>2. CallRefs'
    BY <1>1 DEF HandsInv, CallRefs
  <2>3. ~handsRaced' => CallTakesTurns'
    BY <1>1 DEF HandsInv, CallTakesTurns
  <2>4. ~handsRaced' => ViewTakesTurns'
    BY <1>1, AskMicAdds DEF HandsInv, ViewTakesTurns, NoneOf, Owners
  <2>5. ~handsRaced' => OpenIsHeard'
    BY <1>1 DEF HandsInv, OpenIsHeard
  <2> QED BY <2>1, <2>2, <2>3, <2>4, <2>5 DEF HandsInv
<1>2. CASE /\ shown = "voice" /\ vv.state = "recording" /\ vv.rec # 0 /\ StopRecording
         /\ UNCHANGED <<handsAsks, asked, sources, handsRaced, shown, call, calls>>
  <2>1. HandsTypes'
    BY <1>2, SendAdds DEF StopRecording, HandsInv, HandsTypes, ViewType, Phases, Owners
  <2>2. CallRefs'
    BY <1>2 DEF HandsInv, CallRefs
  <2>3. ~handsRaced' => CallTakesTurns'
    BY <1>2 DEF HandsInv, CallTakesTurns
  <2>4. ~handsRaced' => ViewTakesTurns'
    BY <1>2, SendAdds DEF StopRecording, HandsInv, ViewTakesTurns, Owners
  <2>5. ~handsRaced' => OpenIsHeard'
    BY <1>2 DEF StopRecording, HandsInv, OpenIsHeard
  <2> QED BY <2>1, <2>2, <2>3, <2>4, <2>5 DEF HandsInv
<1>3. CASE /\ shown = "voice" /\ vv.state = "playing"
         /\ vv' = [vv EXCEPT !.state = "idle", !.play = 0]
         /\ sources' = {s \in sources : s.of = "call" \/ s.id # vv.play}
         /\ UNCHANGED <<handsAsks, asked, open, reqs, handsSent, handsRaced, shown, call, calls>>
  <2>1. HandsTypes'
    BY <1>3 DEF HandsInv, HandsTypes, ViewType
  <2>2. CallRefs'
    BY <1>3 DEF HandsInv, CallRefs
  <2>3. ~handsRaced' => CallTakesTurns'
    BY <1>3 DEF HandsInv, CallTakesTurns
  <2>4. ~handsRaced' => ViewTakesTurns'
    BY <1>3 DEF HandsInv, ViewTakesTurns, NoneOf
  <2>5. ~handsRaced' => OpenIsHeard'
    BY <1>3 DEF HandsInv, OpenIsHeard
  <2> QED BY <2>1, <2>2, <2>3, <2>4, <2>5 DEF HandsInv
<1> QED BY <1>1, <1>2, <1>3 DEF HandleMicClick

LEMMA ViewGrantedStep ==
  ASSUME HandsInv, NEW a \in handsAsks, ViewGranted(a)
  PROVE  HandsInv'
<1>1. HandsTypes'
  BY DEF ViewGranted, HandsInv, HandsTypes, ViewType, Phases, MicAsk
<1>2. CallRefs'
  BY DEF ViewGranted, HandsInv, CallRefs
<1>3. ~handsRaced' => CallTakesTurns'
  BY DEF ViewGranted, HandsInv, CallTakesTurns, NoneOf, AtMostOne
<1>4. ~handsRaced' => ViewTakesTurns'
  BY DEF ViewGranted, HandsInv, ViewTakesTurns, NoneOf, AtMostOne
<1>5. ASSUME ~handsRaced' PROVE OpenIsHeard'
  <2>1. ViewTakesTurns /\ OpenIsHeard
    BY <1>5 DEF ViewGranted, HandsInv
  <2>2. shown = "voice" /\ vv.state = "idle"
    BY <2>1 DEF ViewGranted, ViewTakesTurns, NoneOf
  <2>3. \A id \in open : call.active /\ call.rec = id
    BY <2>1, <2>2 DEF OpenIsHeard
  <2>4. CASE open' = open
    BY <2>3, <2>4 DEF ViewGranted, OpenIsHeard
  <2>5. CASE open' # open
    <3>1. open' = open \cup {a.id} /\ vv'.state = "recording" /\ vv'.stream = a.id
      BY <2>5 DEF ViewGranted, HandsInv, HandsTypes, ViewType
    <3> QED BY <2>2, <2>3, <3>1 DEF ViewGranted, OpenIsHeard
  <2> QED BY <2>4, <2>5
<1> QED BY <1>1, <1>2, <1>3, <1>4, <1>5 DEF HandsInv

LEMMA ViewAnsweredStep ==
  ASSUME HandsInv, NEW r \in reqs, ViewAnswered(r)
  PROVE  HandsInv'
<1>1. CASE r.at = "audio"
  <2> DEFINE id == r.id  new == [of |-> "view", id |-> id]
  <2>0. /\ id \in Nat /\ r.of = "view" /\ reqs' = reqs \ {r}
        /\ vv' = [vv EXCEPT !.text = "base64", !.url = TRUE, !.state = "playing", !.play = id]
        /\ sources' = sources \cup {new}
        /\ UNCHANGED <<shown, call, handsAsks, open, asked, calls, handsSent, handsRaced>>
    BY <1>1 DEF ViewAnswered, Answered, HandsInv, HandsTypes, Request
  <2> HIDE DEF id
  <2>a. vv' \in ViewType /\ vv'.state = "playing" /\ vv'.play = id
    BY <2>0 DEF HandsInv, HandsTypes, ViewType, Phases
  <2>b. new \in Source /\ new.of = "view" /\ new.id = id
    BY <2>0 DEF Source, Owners
  <2> HIDE DEF new
  <2>1. HandsTypes'
    BY <2>0, <2>a, <2>b DEF HandsInv, HandsTypes
  <2>2. CallRefs'
    BY <2>0 DEF HandsInv, CallRefs
  <2>3. ~handsRaced' => CallTakesTurns'
    BY <2>0, <2>b DEF HandsInv, CallTakesTurns, NoneOf, AtMostOne
  <2>4. ~handsRaced' => ViewTakesTurns'
    BY <2>0, <2>b DEF HandsInv, ViewTakesTurns, NoneOf, AtMostOne
  <2>5. ~handsRaced' => OpenIsHeard'
    BY <2>0 DEF HandsInv, OpenIsHeard, ViewTakesTurns, NoneOf
  <2> QED BY <2>1, <2>2, <2>3, <2>4, <2>5 DEF HandsInv
<1>2. CASE r.at # "audio"
  <2>0. /\ r.of = "view" /\ reqs' = reqs \ {r}
        /\ vv' = [vv EXCEPT !.text = "plain", !.state = "idle"]
        /\ UNCHANGED <<sources, shown, call, handsAsks, open, asked, calls, handsSent, handsRaced>>
    BY <1>2 DEF ViewAnswered, Answered
  <2>1. HandsTypes'
    BY <2>0 DEF HandsInv, HandsTypes, ViewType
  <2>2. CallRefs'
    BY <2>0 DEF HandsInv, CallRefs
  <2>3. ~handsRaced' => CallTakesTurns'
    BY <2>0 DEF HandsInv, CallTakesTurns, NoneOf, AtMostOne
  <2>4. ~handsRaced' => ViewTakesTurns'
    BY <2>0 DEF HandsInv, ViewTakesTurns, NoneOf, AtMostOne
  <2>5. ~handsRaced' => OpenIsHeard'
    BY <2>0 DEF HandsInv, OpenIsHeard, ViewTakesTurns, NoneOf
  <2> QED BY <2>1, <2>2, <2>3, <2>4, <2>5 DEF HandsInv
<1> QED BY <1>1, <1>2

LEMMA PlayAudioStep ==
  ASSUME HandsInv, PlayAudio
  PROVE  HandsInv'
<1>0. [of |-> "view", id |-> handsSent] \in Source
  BY DEF HandsInv, HandsTypes, Source, Owners
<1>a. vv' \in ViewType
  BY DEF PlayAudio, HandsInv, HandsTypes, ViewType, Phases
<1>1. HandsTypes'
  BY <1>0, <1>a DEF PlayAudio, HandsInv, HandsTypes
<1>2. CallRefs'
  BY DEF PlayAudio, HandsInv, CallRefs
<1>3. ~handsRaced' => CallTakesTurns'
  BY DEF PlayAudio, HandsInv, CallTakesTurns
<1>4. ~handsRaced' => ViewTakesTurns'
  BY DEF PlayAudio, HandsInv, HandsTypes, ViewTakesTurns, NoneOf, ViewType
<1>5. ~handsRaced' => OpenIsHeard'
  BY DEF PlayAudio, HandsInv, OpenIsHeard
<1> QED BY <1>1, <1>2, <1>3, <1>4, <1>5 DEF HandsInv

LEMMA ViewSourceEndsStep ==
  ASSUME HandsInv, NEW s \in sources, ViewSourceEnds(s)
  PROVE  HandsInv'
<1>a. ~handsRaced /\ shown = "voice" => NoneOf(sources', "view")
  <2> SUFFICES ASSUME ~handsRaced, shown = "voice", NEW x \in sources', x.of = "view" PROVE FALSE
    BY DEF NoneOf
  <2>1. x \in Source /\ s \in Source /\ x.id = vv.play /\ s.id = vv.play /\ s.of = "view" /\ x # s
    BY DEF ViewSourceEnds, HandsInv, HandsTypes, ViewTakesTurns
  <2> QED BY <2>1 DEF Source
<1>1. HandsTypes'
  BY DEF ViewSourceEnds, HandsInv, HandsTypes, ViewType
<1>2. CallRefs'
  BY DEF ViewSourceEnds, HandsInv, CallRefs
<1>3. ~handsRaced' => CallTakesTurns'
  BY DEF ViewSourceEnds, HandsInv, CallTakesTurns, NoneOf, AtMostOne
<1>4. ~handsRaced' => ViewTakesTurns'
  BY <1>a DEF ViewSourceEnds, HandsInv, ViewTakesTurns, NoneOf
<1>5. ~handsRaced' => OpenIsHeard'
  BY DEF ViewSourceEnds, HandsInv, OpenIsHeard, ViewTakesTurns, NoneOf
<1> QED BY <1>1, <1>2, <1>3, <1>4, <1>5 DEF HandsInv

LEMMA LeaveVoiceStep ==
  ASSUME HandsInv, LeaveVoice
  PROVE  HandsInv'
<1>1. HandsTypes'
  BY DEF LeaveVoice, HandsInv, HandsTypes, ViewType
<1>2. CallRefs'
  BY DEF LeaveVoice, HandsInv, CallRefs
<1>3. ~handsRaced' => CallTakesTurns'
  BY DEF LeaveVoice, HandsInv, CallTakesTurns
<1>4. ~handsRaced' => ViewTakesTurns'
  BY DEF LeaveVoice, ViewTakesTurns, NoneOf, AtMostOne
<1>5. ~handsRaced' => OpenIsHeard'
  BY DEF LeaveVoice, HandsInv, OpenIsHeard
<1> QED BY <1>1, <1>2, <1>3, <1>4, <1>5 DEF HandsInv

LEMMA ServeStep ==
  ASSUME HandsInv, NEW r \in reqs, Serve(r)
  PROVE  HandsInv'
<1>0. PICK next \in HandleVoiceRequest(r) : reqs' = (reqs \ {r}) \cup {[r EXCEPT !.at = next]}
  BY DEF Serve
<1> DEFINE new == [r EXCEPT !.at = next]
<1>a. new \in Request /\ new.of = r.of
  BY DEF Serve, HandleVoiceRequest, HandsInv, HandsTypes, Request
<1>b. reqs' = (reqs \ {r}) \cup {new}
  BY <1>0
<1> HIDE DEF new
<1>c. \A of : /\ NoneOf(reqs, of) => NoneOf(reqs', of)
              /\ AtMostOne(reqs, of) => AtMostOne(reqs', of)
  BY <1>a, <1>b DEF NoneOf, AtMostOne
<1>1. HandsTypes'
  BY <1>a, <1>b DEF Serve, HandsInv, HandsTypes
<1>2. CallRefs'
  BY DEF Serve, HandsInv, CallRefs
<1>3. ~handsRaced' => CallTakesTurns'
  BY <1>c DEF Serve, HandsInv, CallTakesTurns
<1>4. ~handsRaced' => ViewTakesTurns'
  BY <1>c DEF Serve, HandsInv, ViewTakesTurns
<1>5. ~handsRaced' => OpenIsHeard'
  BY DEF Serve, HandsInv, OpenIsHeard
<1> QED BY <1>1, <1>2, <1>3, <1>4, <1>5 DEF HandsInv

LEMMA HandsStep == HandsInv /\ [HandsNext]_handsVars => HandsInv'
<1> SUFFICES ASSUME HandsInv, [HandsNext]_handsVars PROVE HandsInv'
  OBVIOUS
<1>1. CASE HandsNext
  BY <1>1, StartCallStep, ResumedStep, RtcConfigAnswersStep, CallGrantedStep, SilenceStep, HandleCallTapStep, EndCallStep,
      CallAnsweredStep, CallSourceEndsStep, LeaveChatStep, HandleMicClickStep, ViewGrantedStep,
      ViewAnsweredStep, PlayAudioStep, ViewSourceEndsStep, LeaveVoiceStep, ServeStep DEF
      HandsNext, PageMoves, AnswerComes, Handle
<1>2. CASE UNCHANGED handsVars
  BY <1>2 DEF handsVars, HandsInv, HandsTypes, CallRefs, CallTakesTurns, ViewTakesTurns, OpenIsHeard
<1> QED BY <1>1, <1>2

\* Whatever the browser grants or denies, whenever answers and playbacks end and
\* however the user taps and moves between the views (startCallRecording,
\* handleCallTap, startCall, endCall, startRecording, handleMicClick, playAudio),
\* and whenever the answer of /api/rtc/config changes the mode of a call: unless
\* callbacks crossed in one of the ways the property names, a stream whose tracks
\* run is the one of a shown call that records or of a voice view that does.
THEOREM MicIsHeard == HandsSpec => []MicOnlyWhileListeningUnlessRaced
<1>1. HandsInv => MicOnlyWhileListeningUnlessRaced
  BY DEF HandsInv, HandsTypes, CallTakesTurns, OpenIsHeard, MicOnlyWhileListeningUnlessRaced
<1> QED BY <1>1, HandsInitial, HandsStep, PTL DEF HandsSpec

(* Calls over RTC. **********************************************************)

Stages == {"fetch", "answer", "join", "capture", "failed"}
HookType ==
  [shown : BOOLEAN, rtc : BOOLEAN, active : BOOLEAN, phase : {"connecting", "connected", "ended", "error"},
   engine : Nat, info : Nat, words : SUBSET Nat, incoming : Nat]
ProcType   == [call : Nat, at : Stages, room : Nat]
EndType    == [room : Nat \ {0}, words : SUBSET Nat, at : {"post", "stop"}]
RtcSession == [by : {"user", "agent"}, status : {"active", "stopped"}, words : SUBSET Nat]
Frame      == [socket : {"layout", "chat"}, room : Nat]
Poll       == [st : {"none", "waiting", "heard", "gaveUp"}, got : SUBSET Nat]

RtcTypes ==
  /\ hook \in HookType /\ frames \subseteq Frame /\ procs \subseteq ProcType /\ ends \subseteq EndType
  /\ svc \in Seq(RtcSession) /\ Len(svc) \in 0..MaxSessions
  /\ engines \in [Rooms -> {"none", "made", "joined", "live", "muted", "gone"}]
  /\ polls \in [Rooms -> Poll]
  /\ rtcCalls \in Nat /\ rtcFaults \in Nat

Made == 1..Len(svc)   \* the rooms there are

\* What names a room names one that was made.
RoomsAreMade ==
  /\ hook.engine \in Made \cup {0} /\ hook.info \in Made \cup {0} /\ hook.incoming \in Made \cup {0}
  /\ \A f \in frames : f.room \in Made
  /\ \A p \in procs : IF p.at \in {"fetch", "failed"} THEN p.room = 0 ELSE p.room \in Made
  /\ \A e \in ends : e.room \in Made
  /\ said \subseteq Made
  /\ \A n \in Rooms : n > Len(svc) => engines[n] = "none" /\ polls[n].st = "none"

\* One call at a time: one startCall or one endCall runs, and the engine that is
\* not gone is the hook's, of the call that is on.
OneCall ==
  /\ \A p, q \in procs : p = q
  /\ \A d, e \in ends : d = e
  /\ hook.active => hook.shown /\ hook.rtc /\ ends = {}
  /\ procs # {} => hook.active
  /\ \A n \in Rooms : engines[n] \notin {"none", "gone"} => hook.active /\ hook.engine = n
  /\ hook.engine # 0 => hook.active /\ hook.info = hook.engine
  /\ \A p \in procs :
      IF p.at \in {"join", "capture"} THEN hook.engine = p.room ELSE hook.engine = 0

\* A call that ends is the one the hook knows; once it has ended the hook knows none.
Over == \A e \in ends : hook.info = e.room
InfoGone == ~hook.active /\ hook.shown /\ ends = {} => hook.info = 0

\* The words of a room reach the hook, then endCall, then the service, then the
\* poll that waits for them, unless a request failed.
WordsAreKept ==
  /\ hook.info \in said => hook.info \in hook.words
  /\ \A e \in ends : e.room \in said =>
        IF e.at = "post" THEN e.room \in e.words ELSE rtcFaults > 0 \/ e.room \in svc[e.room].words
  /\ \A n \in Rooms : polls[n].st = "heard" /\ n \in said /\ rtcFaults = 0 => n \in polls[n].got

\* A poll that has heard is of a room in which no more is said.
Heard(n) == n \in Rooms /\ polls[n].st = "heard"
NothingMoreIsSaid ==
  /\ ~Heard(hook.engine)
  /\ \A p \in procs : ~Heard(p.room)
  /\ hook.active => ~Heard(hook.info)

\* Nothing is said, heard or ended yet in a room that was not entered, and a call
\* whose room is known but not entered is of such a room.
RoomsToCome ==
  /\ \A n \in Rooms : engines[n] = "none" =>
        /\ n \notin said \cup {hook.info} /\ polls[n].st # "heard"
        /\ \A e \in ends : e.room # n
  /\ \A p \in procs : p.at = "answer" => engines[p.room] = "none"

RtcInv ==
  /\ RtcTypes /\ RoomsAreMade
  /\ ~rtcRaced => OneCall /\ Over /\ InfoGone /\ WordsAreKept /\ NothingMoreIsSaid /\ RoomsToCome

LEMMA RtcInitial == RtcInit => RtcInv
<1> SUFFICES ASSUME RtcInit PROVE RtcInv
  OBVIOUS
<1>1. RtcTypes
  BY RtcAssumption DEF RtcInit, HookMounted, RtcTypes, HookType, Poll
<1>2. RoomsAreMade
  BY DEF RtcInit, HookMounted, RoomsAreMade
<1> QED BY <1>1, <1>2, RtcAssumption DEF RtcInit, HookMounted, RtcInv, Rooms, OneCall, Over, InfoGone, WordsAreKept,
    NothingMoreIsSaid, RoomsToCome, Heard

(* What the operators of an action do to the types. *************************)

LEMMA Connects ==
  ASSUME NEW h \in HookType
  PROVE  /\ Connecting(h) \in HookType /\ Connecting(h).active /\ Connecting(h).words = {}
         /\ Connecting(h).shown = h.shown /\ Connecting(h).engine = h.engine
         /\ Connecting(h).info = h.info /\ Connecting(h).incoming = h.incoming
         /\ Connecting(h).rtc = h.rtc
BY DEF Connecting, HookType

LEMMA RoomMade ==
  ASSUME RtcTypes, NEW by \in {"user", "agent"}, Len(svc) < MaxSessions, StartVoiceChat(by)
  PROVE  /\ svc' \in Seq(RtcSession) /\ Len(svc') = Len(svc) + 1 /\ Len(svc') \in Rooms
         /\ \A n \in 1..Len(svc) : svc'[n] = svc[n]
<1> DEFINE new == [by |-> by, status |-> "active", words |-> {}]
<1>1. new \in RtcSession
  BY DEF RtcSession
<1>2. svc' = Append(svc, new)
  BY DEF StartVoiceChat
<1> HIDE DEF new
<1>3. svc' \in Seq(RtcSession) /\ Len(svc') = Len(svc) + 1 /\ \A n \in 1..Len(svc) : svc'[n] = svc[n]
  BY <1>1, <1>2 DEF RtcTypes
<1> QED BY <1>3, RtcAssumption DEF Rooms

LEMMA SessionChanged ==
  ASSUME RtcTypes, NEW n \in 1..Len(svc), NEW s \in RtcSession
  PROVE  /\ [svc EXCEPT ![n] = s] \in Seq(RtcSession)
         /\ Len([svc EXCEPT ![n] = s]) = Len(svc)
         /\ \A k \in 1..Len(svc) : [svc EXCEPT ![n] = s][k] = IF k = n THEN s ELSE svc[k]
BY DEF RtcTypes

LEMMA SessionOf ==
  ASSUME RtcTypes, NEW n \in 1..Len(svc)
  PROVE  svc[n] \in RtcSession /\ n \in Rooms /\ n \in Nat \ {0} /\ svc[n].words \subseteq Nat
<1>1. svc[n] \in RtcSession
  BY DEF RtcTypes
<1> QED BY <1>1, RtcAssumption DEF RtcTypes, Rooms, RtcSession

LEMMA LeavesRoom ==
  RtcTypes => Left \in [Rooms -> {"none", "made", "joined", "live", "muted", "gone"}]
BY DEF RtcTypes, Left

LEMMA ProcMoves ==
  ASSUME RtcTypes, NEW p \in procs, NEW q \in ProcType, procs' = (procs \ {p}) \cup {q}
  PROVE  procs' \subseteq ProcType /\ (OneCall => procs' = {q})
BY DEF RtcTypes, OneCall

LEMMA RingStep ==
  ASSUME RtcInv, Ring
  PROVE  RtcInv'
<1>a. /\ svc' \in Seq(RtcSession) /\ Len(svc') = Len(svc) + 1 /\ Len(svc') \in Rooms
      /\ \A n \in 1..Len(svc) : svc'[n] = svc[n]
  BY RoomMade DEF Ring, RtcInv
<1>b. frames' \subseteq Frame /\ \A f \in frames' : f \in frames \/ f.room = Len(svc) + 1
  <2> DEFINE room == Len(svc) + 1
  <2>1. room \in Nat /\ frames' = frames \cup {[socket |-> k, room |-> room] : k \in Sockets}
    BY DEF Ring, RtcInv, RtcTypes
  <2> HIDE DEF room
  <2>2. frames' \subseteq Frame /\ \A f \in frames' : f \in frames \/ f.room = room
    BY <2>1 DEF Sockets, Frame, RtcInv, RtcTypes
  <2> QED BY <2>2 DEF room
<1>c. polls' \in [Rooms -> Poll]
  BY DEF Ring, RtcInv, RtcTypes, Poll
<1>1. RtcTypes'
  BY <1>a, <1>b, <1>c DEF Ring, RtcInv, RtcTypes, Rooms
<1>2. RoomsAreMade'
  BY <1>a, <1>b DEF Ring, history, RtcInv, RtcTypes, RoomsAreMade, Made, Rooms
<1>3. ~rtcRaced' => OneCall'
  BY DEF Ring, history, RtcInv, OneCall
<1>4. ~rtcRaced' => Over'
  BY DEF Ring, history, RtcInv, Over
<1>5. ~rtcRaced' => InfoGone'
  BY DEF Ring, history, RtcInv, InfoGone, Rooms
<1>6. ~rtcRaced' => WordsAreKept'
  BY DEF Ring, history, StartVoiceChat, RtcInv, RoomsAreMade, Made, WordsAreKept, RtcSession, Poll,
      Stages, Rooms
<1>7. ~rtcRaced' => NothingMoreIsSaid'
  BY DEF Ring, history, RtcInv, NothingMoreIsSaid, Heard, RtcTypes, RtcSession, Poll, Stages, Rooms
<1>8. ~rtcRaced' => RoomsToCome'
  BY DEF Ring, history, RtcInv, RoomsToCome, Rooms
<1> QED BY <1>1, <1>2, <1>3, <1>4, <1>5, <1>6, <1>7, <1>8 DEF RtcInv

LEMMA FrameArrivesStep ==
  ASSUME RtcInv, NEW f \in frames, FrameArrives(f)
  PROVE  RtcInv'
<1>a. /\ hook' \in HookType /\ hook'.incoming = f.room /\ hook'.words = hook.words
      /\ hook'.shown = hook.shown /\ hook'.rtc = hook.rtc /\ hook'.active = hook.active
      /\ hook'.engine = hook.engine /\ hook'.info = hook.info
  <2>1. hook \in HookType /\ f.room \in Nat /\ hook' = [hook EXCEPT !.incoming = f.room]
    BY DEF FrameArrives, RtcInv, RtcTypes, Frame
  <2> QED BY <2>1 DEF HookType
<1>b. /\ frames' \subseteq frames
      /\ UNCHANGED <<procs, ends, svc, engines, polls, rtcCalls, rtcFaults, said, rtcRaced>>
  BY DEF FrameArrives, history
<1>1. RtcTypes'
  BY <1>a, <1>b DEF RtcInv, RtcTypes
<1>2. RoomsAreMade'
  BY <1>a, <1>b DEF RtcInv, RoomsAreMade, Made
<1>3. ~rtcRaced' => OneCall'
  BY <1>a, <1>b DEF RtcInv, OneCall
<1>4. ~rtcRaced' => Over' /\ InfoGone'
  BY <1>a, <1>b DEF RtcInv, Over, InfoGone
<1>5. ~rtcRaced' => WordsAreKept'
  BY <1>a, <1>b DEF RtcInv, WordsAreKept
<1>6. ~rtcRaced' => NothingMoreIsSaid' /\ RoomsToCome'
  BY <1>a, <1>b DEF RtcInv, NothingMoreIsSaid, Heard, RoomsToCome
<1> QED BY <1>1, <1>2, <1>3, <1>4, <1>5, <1>6 DEF RtcInv

LEMMA WaitTimesOutStep ==
  ASSUME RtcInv, NEW n \in Made, WaitTimesOut(n)
  PROVE  RtcInv'
<1>a. polls' \in [Rooms -> Poll]
  <2>1. n \in Rooms /\ svc[n].words \subseteq Nat
    BY SessionOf DEF RtcInv, Made
  <2> QED BY <2>1 DEF WaitTimesOut, RtcInv, RtcTypes, Poll
<1>1. RtcTypes'
  BY <1>a DEF WaitTimesOut, RtcInv, RtcTypes
<1>2. RoomsAreMade'
  BY DEF WaitTimesOut, history, RtcInv, RoomsAreMade, Made
<1>3. ~rtcRaced' => OneCall'
  BY DEF WaitTimesOut, history, RtcInv, OneCall
<1>4. ~rtcRaced' => Over'
  BY DEF WaitTimesOut, history, RtcInv, Over
<1>5. ~rtcRaced' => InfoGone'
  BY DEF WaitTimesOut, history, RtcInv, InfoGone
<1>6. ~rtcRaced' => WordsAreKept'
  BY DEF WaitTimesOut, history, RtcInv, WordsAreKept, Poll, Stages, Rooms
<1>7. ~rtcRaced' => NothingMoreIsSaid'
  BY DEF WaitTimesOut, history, RtcInv, NothingMoreIsSaid, Heard, Poll, Stages, Rooms
<1>8. ~rtcRaced' => RoomsToCome'
  BY DEF WaitTimesOut, history, RtcInv, RoomsToCome, Rooms
<1> QED BY <1>1, <1>2, <1>3, <1>4, <1>5, <1>6, <1>7, <1>8 DEF RtcInv

LEMMA StartRtcCallStep ==
  ASSUME RtcInv, StartRtcCall
  PROVE  RtcInv'
<1>a. /\ hook' \in HookType /\ hook'.active /\ hook'.words = {} /\ hook'.shown = hook.shown
      /\ hook'.engine = hook.engine /\ hook'.info = hook.info /\ hook'.incoming = hook.incoming
      /\ hook'.rtc = hook.rtc
  <2> DEFINE h == Connecting(hook)
  <2>1. /\ h \in HookType /\ h.active /\ h.words = {} /\ h.shown = hook.shown
        /\ h.engine = hook.engine /\ h.info = hook.info /\ h.incoming = hook.incoming
        /\ h.rtc = hook.rtc
    BY Connects DEF RtcInv, RtcTypes
  <2>2. hook' = h
    BY DEF StartRtcCall
  <2> HIDE DEF h
  <2> QED BY <2>1, <2>2
<1> DEFINE new == [call |-> rtcCalls + 1, at |-> "fetch", room |-> 0]
<1>b. new \in ProcType /\ new.at = "fetch" /\ new.room = 0
  BY DEF RtcInv, RtcTypes, ProcType, Stages
<1>c. procs' = procs \cup {new}
  BY DEF StartRtcCall
<1> HIDE DEF new
<1>d. ~rtcRaced' => ~rtcRaced /\ ends' = {} /\ hook'.info \notin said'
  <2>1. ~rtcRaced' => ~rtcRaced /\ ends = {}
    BY DEF StartRtcCall
  <2>2. ~rtcRaced => OneCall /\ InfoGone
    BY DEF RtcInv
  <2>3. 0 \notin said
    BY DEF RtcInv, RoomsAreMade, Made
  <2> QED BY <1>a, <2>2, <2>3 DEF StartRtcCall, InfoGone
<1>1. RtcTypes'
  BY <1>a, <1>b, <1>c DEF StartRtcCall, RtcInv, RtcTypes
<1>2. RoomsAreMade'
  BY <1>a DEF StartRtcCall, RtcInv, RoomsAreMade, Made
<1>3. ~rtcRaced' => OneCall'
  BY <1>a, <1>b, <1>c DEF StartRtcCall, RtcInv, OneCall
<1>4. ~rtcRaced' => Over'
  BY DEF StartRtcCall, Over
<1>5. ~rtcRaced' => InfoGone'
  BY <1>a DEF InfoGone
<1>6. ~rtcRaced' => WordsAreKept'
  BY <1>d DEF StartRtcCall, RtcInv, WordsAreKept
<1>7. ~rtcRaced' => NothingMoreIsSaid'
  BY <1>a, <1>b, <1>c DEF StartRtcCall, RtcInv, OneCall, InfoGone, NothingMoreIsSaid, Heard
<1>8. ~rtcRaced' => RoomsToCome'
  BY <1>a, <1>b, <1>c DEF StartRtcCall, RtcInv, RoomsToCome
<1> QED BY <1>1, <1>2, <1>3, <1>4, <1>5, <1>6, <1>7, <1>8 DEF RtcInv

LEMMA ServeStartStep ==
  ASSUME RtcInv, NEW p \in procs, ServeStart(p)
  PROVE  RtcInv'
<1>1. CASE /\ Len(svc) < MaxSessions /\ StartVoiceChat("user")
            /\ procs' = (procs \ {p}) \cup {[p EXCEPT !.at = "answer", !.room = Len(svc) + 1]}
            /\ UNCHANGED rtcFaults
  <2>a. /\ svc' \in Seq(RtcSession) /\ Len(svc') = Len(svc) + 1 /\ Len(svc') \in Rooms
        /\ \A n \in 1..Len(svc) : svc'[n] = svc[n]
    BY <1>1, RoomMade DEF RtcInv
  <2> DEFINE new == [p EXCEPT !.at = "answer", !.room = Len(svc) + 1]
  <2> DEFINE room == Len(svc) + 1
  <2>r. room \in Nat /\ p \in ProcType
    BY DEF RtcInv, RtcTypes
  <2>b. new \in ProcType /\ new.at = "answer" /\ new.room = Len(svc) + 1
    <3> HIDE DEF room
    <3>1. [p EXCEPT !.at = "answer", !.room = room] \in ProcType
      BY <2>r DEF ProcType, Stages
    <3>2. [p EXCEPT !.at = "answer", !.room = room].at = "answer" /\ [p EXCEPT !.at = "answer", !.room = room].room = room
      OBVIOUS
    <3> QED BY <3>1 DEF room
  <2>c. procs' = (procs \ {p}) \cup {new}
    BY <1>1
  <2> HIDE DEF new
  <2>d. procs' \subseteq ProcType /\ (OneCall => procs' = {new})
    BY <2>b, <2>c, ProcMoves DEF RtcInv
  <2>e. p.at = "fetch" /\ UNCHANGED <<frames, hook, ends, engines, polls, rtcCalls, rtcFaults, said, rtcRaced>>
    BY <1>1 DEF ServeStart, history
  <2>1. RtcTypes'
    BY <2>a, <2>d, <2>e DEF RtcInv, RtcTypes, Rooms
  <2>2. RoomsAreMade'
    BY <2>a, <2>b, <2>c, <2>e DEF RtcInv, RtcTypes, RoomsAreMade, Made, Rooms
  <2>3. ~rtcRaced' => OneCall'
    BY <2>b, <2>d, <2>e DEF RtcInv, OneCall
  <2>4. ~rtcRaced' => Over'
    BY <2>e DEF RtcInv, Over
  <2>5. ~rtcRaced' => InfoGone'
    BY <2>e DEF RtcInv, InfoGone
  <2>6. ~rtcRaced' => WordsAreKept'
    BY <2>e DEF RtcInv, WordsAreKept, OneCall, Rooms
  <2>7. ~rtcRaced' => NothingMoreIsSaid'
    BY <2>b, <2>d, <2>e DEF RtcInv, RoomsAreMade, NothingMoreIsSaid, Heard, Rooms
  <2>8. ~rtcRaced' => RoomsToCome'
    BY <2>a, <2>b, <2>d, <2>e DEF RtcInv, RoomsAreMade, RtcTypes, RoomsToCome
  <2> QED BY <2>1, <2>2, <2>3, <2>4, <2>5, <2>6, <2>7, <2>8 DEF RtcInv
<1>2. CASE /\ rtcFaults' \in {rtcFaults, rtcFaults + 1}
            /\ procs' = (procs \ {p}) \cup {[p EXCEPT !.at = "failed"]}
            /\ UNCHANGED svc
  <2> DEFINE new == [p EXCEPT !.at = "failed"]
  <2>b. new \in ProcType /\ new.at = "failed" /\ new.room = p.room
    BY DEF RtcInv, RtcTypes, ProcType, Stages
  <2>c. procs' = (procs \ {p}) \cup {new}
    BY <1>2
  <2> HIDE DEF new
  <2>d. procs' \subseteq ProcType /\ (OneCall => procs' = {new})
    BY <2>b, <2>c, ProcMoves DEF RtcInv
  <2>e. /\ p.at = "fetch" /\ rtcFaults' \in {rtcFaults, rtcFaults + 1}
        /\ UNCHANGED <<frames, svc, hook, ends, engines, polls, rtcCalls, said, rtcRaced>>
    BY <1>2 DEF ServeStart, history
  <2>1. RtcTypes'
    BY <2>d, <2>e DEF RtcInv, RtcTypes
  <2>2. RoomsAreMade'
    BY <2>b, <2>c, <2>e DEF RtcInv, RoomsAreMade, Made
  <2>3. ~rtcRaced' => OneCall'
    BY <2>b, <2>d, <2>e DEF RtcInv, OneCall
  <2>4. ~rtcRaced' => Over'
    BY <2>e DEF RtcInv, Over
  <2>5. ~rtcRaced' => InfoGone'
    BY <2>e DEF RtcInv, InfoGone
  <2>6. ~rtcRaced' => WordsAreKept'
    BY <2>e DEF RtcInv, WordsAreKept, RtcTypes, Rooms
  <2>7. ~rtcRaced' => NothingMoreIsSaid'
    BY <2>b, <2>d, <2>e DEF RtcInv, NothingMoreIsSaid, Heard, Rooms
  <2>8. ~rtcRaced' => RoomsToCome'
    BY <2>b, <2>d, <2>e DEF RtcInv, RoomsToCome
  <2> QED BY <2>1, <2>2, <2>3, <2>4, <2>5, <2>6, <2>7, <2>8 DEF RtcInv
<1> QED BY <1>1, <1>2 DEF ServeStart

LEMMA JoinCallStep ==
  ASSUME RtcInv, JoinCall
  PROVE  RtcInv'
<1>a. /\ hook' \in HookType /\ hook'.active /\ hook'.words = {} /\ hook'.shown = hook.shown
      /\ hook'.engine = hook.engine /\ hook'.info = hook.info /\ hook'.incoming = 0
      /\ hook'.rtc = hook.rtc
  <2> DEFINE h == Connecting(hook)
  <2>1. /\ h \in HookType /\ h.active /\ h.words = {} /\ h.shown = hook.shown
        /\ h.engine = hook.engine /\ h.info = hook.info /\ h.incoming = hook.incoming
        /\ h.rtc = hook.rtc
    BY Connects DEF RtcInv, RtcTypes
  <2>2. hook' = [h EXCEPT !.incoming = 0]
    BY DEF JoinCall
  <2> HIDE DEF h
  <2> QED BY <2>1, <2>2 DEF HookType
<1> DEFINE new == [call |-> rtcCalls + 1, at |-> "answer", room |-> hook.incoming]
<1>b. new \in ProcType /\ new.at = "answer" /\ new.room = hook.incoming
  BY DEF RtcInv, RtcTypes, ProcType, Stages, HookType
<1>c. procs' = procs \cup {new}
  BY DEF JoinCall
<1> HIDE DEF new
<1>d. ~rtcRaced' => ~rtcRaced /\ ends' = {} /\ hook'.info \notin said'
  <2>1. ~rtcRaced' => ~rtcRaced /\ ends = {}
    BY DEF JoinCall
  <2>2. ~rtcRaced => OneCall /\ InfoGone
    BY DEF RtcInv
  <2>3. 0 \notin said
    BY DEF RtcInv, RoomsAreMade, Made
  <2> QED BY <1>a, <2>1, <2>2, <2>3 DEF JoinCall, InfoGone
<1>1. RtcTypes'
  BY <1>a, <1>b, <1>c DEF JoinCall, RtcInv, RtcTypes
<1>2. RoomsAreMade'
  BY <1>a DEF JoinCall, RtcInv, RoomsAreMade, Made
<1>3. ~rtcRaced' => OneCall'
  BY <1>a, <1>b, <1>c DEF JoinCall, RtcInv, OneCall
<1>4. ~rtcRaced' => Over'
  BY DEF JoinCall, Over
<1>5. ~rtcRaced' => InfoGone'
  BY <1>a DEF InfoGone
<1>6. ~rtcRaced' => WordsAreKept'
  BY <1>d DEF JoinCall, RtcInv, WordsAreKept
<1>7. ~rtcRaced' => NothingMoreIsSaid'
  BY <1>a, <1>b, <1>c DEF JoinCall, RtcInv, OneCall, InfoGone, NothingMoreIsSaid, RoomsToCome, Heard
<1>8. ~rtcRaced' => RoomsToCome'
  BY <1>a, <1>b, <1>c DEF JoinCall, RtcInv, RoomsToCome
<1> QED BY <1>1, <1>2, <1>3, <1>4, <1>5, <1>6, <1>7, <1>8 DEF RtcInv

LEMMA CreateEngineStep ==
  ASSUME RtcInv, NEW p \in procs, CreateEngine(p)
  PROVE  RtcInv'
<1> DEFINE new == [p EXCEPT !.at = "join"]
<1>a. new \in ProcType /\ new.at = "join" /\ new.room = p.room
  BY DEF RtcInv, RtcTypes, ProcType, Stages
<1>b. procs' = (procs \ {p}) \cup {new}
  BY DEF CreateEngine
<1> HIDE DEF new
<1>c. procs' \subseteq ProcType /\ (OneCall => procs' = {new})
  BY <1>a, <1>b, ProcMoves DEF RtcInv
<1>d. p.at = "answer" /\ p.room \in Rooms /\ (~rtcRaced => engines[p.room] = "none")
  <2>1. p.at = "answer" /\ p.room \in Made
    BY DEF CreateEngine, RtcInv, RoomsAreMade
  <2>2. p.room \in Rooms
    BY <2>1, RtcAssumption DEF RtcInv, RtcTypes, Made, Rooms
  <2> QED BY <2>1, <2>2 DEF RtcInv, RoomsToCome
<1>1. RtcTypes'
  BY <1>c DEF CreateEngine, RtcInv, RtcTypes, HookType, ProcType
<1>2. RoomsAreMade'
  BY <1>a, <1>b DEF CreateEngine, history, RtcInv, RoomsAreMade, Made
<1>3. ~rtcRaced' => OneCall'
  BY <1>a, <1>c DEF CreateEngine, history, RtcInv, OneCall, InfoGone, Rooms
<1>4. ~rtcRaced' => Over'
  BY DEF CreateEngine, history, RtcInv, Over, OneCall
<1>5. ~rtcRaced' => InfoGone'
  BY DEF CreateEngine, history, RtcInv, InfoGone, OneCall
<1>6. ~rtcRaced' => WordsAreKept'
  BY <1>d DEF CreateEngine, history, RtcInv, RtcTypes, HookType, WordsAreKept, RoomsToCome
<1>7. ~rtcRaced' => NothingMoreIsSaid'
  BY <1>a, <1>c DEF CreateEngine, history, RtcInv, RoomsAreMade, Made, NothingMoreIsSaid, Over,
      RoomsToCome, Heard, Poll, Stages, Rooms
<1>8. ~rtcRaced' => RoomsToCome'
  BY <1>a, <1>c, <1>d DEF CreateEngine, history, RtcInv, RtcTypes, HookType, RoomsToCome
<1> QED BY <1>1, <1>2, <1>3, <1>4, <1>5, <1>6, <1>7, <1>8 DEF RtcInv

LEMMA JoinRoomStep ==
  ASSUME RtcInv, NEW p \in procs, JoinRoom(p)
  PROVE  RtcInv'
<1> DEFINE new == [p EXCEPT !.at = "capture"]
<1>a. new \in ProcType /\ new.at = "capture" /\ new.room = p.room
  BY DEF RtcInv, RtcTypes, ProcType, Stages
<1>b. procs' = (procs \ {p}) \cup {new}
  BY DEF JoinRoom
<1> HIDE DEF new
<1>c. procs' \subseteq ProcType /\ (OneCall => procs' = {new})
  BY <1>a, <1>b, ProcMoves DEF RtcInv
<1>1. RtcTypes'
  BY <1>c DEF JoinRoom, RtcInv, RtcTypes
<1>2. RoomsAreMade'
  BY <1>a, <1>b DEF JoinRoom, history, RtcInv, RoomsAreMade, Made
<1>3. ~rtcRaced' => OneCall'
  BY <1>a, <1>c DEF JoinRoom, history, RtcInv, OneCall
<1>4. ~rtcRaced' => Over'
  BY DEF JoinRoom, history, RtcInv, Over
<1>5. ~rtcRaced' => InfoGone'
  BY DEF JoinRoom, history, RtcInv, InfoGone
<1>6. ~rtcRaced' => WordsAreKept'
  BY DEF JoinRoom, history, RtcInv, WordsAreKept, Poll, Stages, Rooms
<1>7. ~rtcRaced' => NothingMoreIsSaid'
  BY <1>a, <1>c DEF JoinRoom, history, RtcInv, NothingMoreIsSaid, OneCall, Heard, Poll, Stages,
      Rooms
<1>8. ~rtcRaced' => RoomsToCome'
  BY <1>a, <1>c DEF JoinRoom, history, RtcInv, RoomsToCome, Rooms
<1> QED BY <1>1, <1>2, <1>3, <1>4, <1>5, <1>6, <1>7, <1>8 DEF RtcInv

LEMMA StartCaptureStep ==
  ASSUME RtcInv, NEW p \in procs, StartCapture(p)
  PROVE  RtcInv'
<1>1. RtcTypes'
  BY DEF StartCapture, RtcInv, RtcTypes, HookType
<1>2. RoomsAreMade'
  BY DEF StartCapture, history, RtcInv, RoomsAreMade, Made
<1>3. ~rtcRaced' => OneCall'
  BY DEF StartCapture, history, RtcInv, OneCall
<1>4. ~rtcRaced' => Over'
  BY DEF StartCapture, history, RtcInv, Over
<1>5. ~rtcRaced' => InfoGone'
  BY DEF StartCapture, history, RtcInv, InfoGone
<1>6. ~rtcRaced' => WordsAreKept'
  BY DEF StartCapture, history, RtcInv, WordsAreKept, Poll, Stages, Rooms
<1>7. ~rtcRaced' => NothingMoreIsSaid'
  BY DEF StartCapture, history, RtcInv, NothingMoreIsSaid, Heard, Poll, Stages, Rooms
<1>8. ~rtcRaced' => RoomsToCome'
  BY DEF StartCapture, history, RtcInv, RtcTypes, HookType, OneCall, RoomsToCome
<1> QED BY <1>1, <1>2, <1>3, <1>4, <1>5, <1>6, <1>7, <1>8 DEF RtcInv

LEMMA CatchStep ==
  ASSUME RtcInv, NEW p \in procs, Catch(p)
  PROVE  RtcInv'
<1>a. hook' \in HookType
  <2>1. hook \in HookType /\ hook' = [hook EXCEPT !.phase = "error", !.engine = 0]
    BY DEF Catch, RtcInv, RtcTypes
  <2> QED BY <2>1 DEF HookType
<1>b. rtcFaults' \in Nat
  BY DEF Catch, RtcInv, RtcTypes
<1>1. RtcTypes'
  BY <1>a, LeavesRoom DEF Catch, RtcInv, RtcTypes
<1>2. RoomsAreMade'
  BY DEF Catch, history, Left, RtcInv, RoomsAreMade, Made
<1>3. ~rtcRaced' => OneCall'
  BY DEF Catch, history, Left, RtcInv, OneCall, RtcTypes
<1>4. ~rtcRaced' => Over'
  BY DEF Catch, history, RtcInv, Over
<1>5. ~rtcRaced' => InfoGone'
  BY DEF Catch, history, RtcInv, InfoGone, Rooms
<1>6. ~rtcRaced' => WordsAreKept'
  BY DEF Catch, history, RtcInv, WordsAreKept, Over, RoomsToCome, RtcTypes, RtcSession, Poll, Stages,
      Rooms
<1>7. ~rtcRaced' => NothingMoreIsSaid'
  BY DEF Catch, history, RtcInv, NothingMoreIsSaid, Heard, RtcSession, Poll, Stages, Rooms
<1>8. ~rtcRaced' => RoomsToCome'
  BY DEF Catch, Left, history, RtcInv, RtcTypes, HookType, OneCall, RoomsToCome
<1> QED BY <1>1, <1>2, <1>3, <1>4, <1>5, <1>6, <1>7, <1>8 DEF RtcInv

LEMMA SubtitleStep ==
  ASSUME RtcInv, NEW n \in Made, Subtitle(n)
  PROVE  RtcInv'
<1>a. n \in Nat \ {0} /\ n \in Rooms
  BY SessionOf DEF RtcInv, Made
<1>b. /\ hook' \in HookType /\ hook'.words = hook.words \cup {n} /\ hook'.shown = hook.shown
      /\ hook'.active = hook.active /\ hook'.engine = hook.engine /\ hook'.info = hook.info
      /\ hook'.incoming = hook.incoming
  <2> DEFINE w == hook.words \cup {n}
  <2>1. w \in SUBSET Nat /\ hook' = [hook EXCEPT !.words = w]
    BY <1>a DEF Subtitle, RtcInv, RtcTypes, HookType
  <2> HIDE DEF w
  <2>2. hook' \in HookType /\ hook'.words = w
    BY <2>1 DEF RtcInv, RtcTypes, HookType
  <2> QED BY <2>1, <2>2 DEF w
<1>c. ~rtcRaced => /\ hook.active /\ hook.engine = n /\ hook.info = n /\ ends = {}
                   /\ polls[n].st # "heard"
                   /\ \A p \in procs : p.at \in {"join", "capture"}
  BY <1>a DEF Subtitle, RtcInv, OneCall, NothingMoreIsSaid, Heard
<1>1. RtcTypes'
  BY <1>b DEF Subtitle, RtcInv, RtcTypes
<1>2. RoomsAreMade'
  BY DEF Subtitle, RtcInv, RoomsAreMade, Made
<1>3. ~rtcRaced' => OneCall'
  BY DEF Subtitle, RtcInv, OneCall
<1>4. ~rtcRaced' => Over'
  BY <1>c DEF Subtitle, Over
<1>5. ~rtcRaced' => InfoGone'
  BY <1>c DEF Subtitle, InfoGone
<1>6. ~rtcRaced' => WordsAreKept'
  BY <1>c DEF Subtitle, RtcInv, WordsAreKept
<1>7. ~rtcRaced' => NothingMoreIsSaid'
  BY DEF Subtitle, RtcInv, NothingMoreIsSaid, Heard
<1>8. ~rtcRaced' => RoomsToCome'
  BY <1>c DEF Subtitle, RtcInv, RoomsToCome
<1> QED BY <1>1, <1>2, <1>3, <1>4, <1>5, <1>6, <1>7, <1>8 DEF RtcInv

LEMMA ToggleMuteStep ==
  ASSUME RtcInv, ToggleMute
  PROVE  RtcInv'
<1>1. RtcTypes'
  BY DEF ToggleMute, RtcInv, RtcTypes
<1>2. RoomsAreMade'
  BY DEF ToggleMute, history, RtcInv, RoomsAreMade, Made
<1>3. ~rtcRaced' => OneCall'
  BY DEF ToggleMute, history, RtcInv, OneCall
<1>4. ~rtcRaced' => Over'
  BY DEF ToggleMute, history, RtcInv, Over
<1>5. ~rtcRaced' => InfoGone'
  BY DEF ToggleMute, InfoGone
<1>6. ~rtcRaced' => WordsAreKept'
  BY DEF ToggleMute, history, RtcInv, WordsAreKept, Poll, Stages, Rooms
<1>7. ~rtcRaced' => NothingMoreIsSaid'
  BY DEF ToggleMute, history, RtcInv, NothingMoreIsSaid, Heard, Poll, Stages, Rooms
<1>8. ~rtcRaced' => RoomsToCome'
  BY DEF ToggleMute, history, RtcInv, RoomsToCome, Rooms
<1> QED BY <1>1, <1>2, <1>3, <1>4, <1>5, <1>6, <1>7, <1>8 DEF RtcInv

LEMMA EndRtcCallStep ==
  ASSUME RtcInv, EndRtcCall
  PROVE  RtcInv'
<1>a. hook' \in HookType
  <2> DEFINE w == IF hook.info = 0 THEN {} ELSE hook.words
  <2>1. /\ w \in SUBSET Nat /\ hook \in HookType
        /\ hook' = [hook EXCEPT !.active = FALSE, !.phase = "ended", !.engine = 0, !.words = w]
    BY DEF EndRtcCall, RtcInv, RtcTypes, HookType
  <2> HIDE DEF w
  <2> QED BY <2>1 DEF HookType
<1>w. Collected \in SUBSET Nat
  BY DEF Collected, RtcInv, RtcTypes, HookType
<1>b. ends' \subseteq EndType
  <2>1. CASE hook.info = 0
    BY <2>1 DEF EndRtcCall, RtcInv, RtcTypes
  <2>2. CASE hook.info # 0
    <3>1. [room |-> hook.info, words |-> Collected, at |-> FirstOf(Collected)] \in EndType
      BY <1>w, <2>2 DEF RtcInv, RtcTypes, HookType, EndType, FirstOf
    <3> QED BY <2>2, <3>1 DEF EndRtcCall, RtcInv, RtcTypes
  <2> QED BY <2>1, <2>2
<1>1. RtcTypes'
  BY <1>a, <1>b, LeavesRoom DEF EndRtcCall, RtcInv, RtcTypes
<1>2. RoomsAreMade'
  BY DEF EndRtcCall, Left, RtcInv, RoomsAreMade, Made
<1>3. ~rtcRaced' => OneCall'
  BY DEF EndRtcCall, Left, RtcInv, OneCall, RtcTypes, HookType, Rooms
<1>4. ~rtcRaced' => Over'
  BY DEF EndRtcCall, RtcInv, Over, RtcTypes, HookType, Rooms
<1>5. ~rtcRaced' => InfoGone'
  BY <1>1 DEF EndRtcCall, InfoGone, RtcTypes, HookType, Stages, Rooms
<1>6. ~rtcRaced' => WordsAreKept'
  BY DEF EndRtcCall, FirstOf, Collected, RtcInv, RoomsAreMade, Made, WordsAreKept, RtcTypes, HookType,
      EndType, RtcSession, Poll, Stages, Rooms
<1>7. ~rtcRaced' => NothingMoreIsSaid'
  BY DEF EndRtcCall, RtcInv, NothingMoreIsSaid, Heard, RtcTypes, HookType, EndType, RtcSession, Poll,
      Stages, Rooms
<1>8. ~rtcRaced' => RoomsToCome'
  BY DEF EndRtcCall, Left, RtcInv, RoomsToCome, RtcTypes, HookType
<1> QED BY <1>1, <1>2, <1>3, <1>4, <1>5, <1>6, <1>7, <1>8 DEF RtcInv

LEMMA SubmitTranscriptStep ==
  ASSUME RtcInv, NEW e \in ends, SubmitTranscript(e)
  PROVE  RtcInv'
<1>0. e.room \in 1..Len(svc) /\ e.words \in SUBSET Nat /\ svc[e.room] \in RtcSession
  BY DEF RtcInv, RtcTypes, RoomsAreMade, Made, EndType
<1> DEFINE new == [e EXCEPT !.at = "stop"]
<1>a. new \in EndType /\ new.at = "stop" /\ new.room = e.room
  BY DEF RtcInv, RtcTypes, EndType
<1>b. ends' = (ends \ {e}) \cup {new}
  BY DEF SubmitTranscript
<1> HIDE DEF new
<1>c. ends' \subseteq EndType /\ (OneCall => ends' = {new})
  BY <1>a, <1>b DEF RtcInv, RtcTypes, OneCall
<1>d. /\ svc' \in Seq(RtcSession) /\ Len(svc') = Len(svc)
      /\ \A n \in 1..Len(svc) : n # e.room => svc'[n] = svc[n]
      /\ rtcFaults' \in Nat /\ rtcFaults' >= rtcFaults
      /\ svc'[e.room].words = e.words \/ rtcFaults' > 0
  <2>1. CASE svc' = SetTranscript(e.room, e.words) /\ UNCHANGED rtcFaults
    <3> DEFINE s == [svc[e.room] EXCEPT !.words = e.words]
    <3>1. s \in RtcSession /\ s.words = e.words
      BY <1>0 DEF RtcSession
    <3>2. svc' = [svc EXCEPT ![e.room] = s]
      BY <2>1 DEF SetTranscript
    <3> HIDE DEF s
    <3> QED BY <1>0, <2>1, <3>1, <3>2 DEF RtcInv, RtcTypes
  <2>2. CASE rtcFaults < MaxRtcFaults /\ rtcFaults' = rtcFaults + 1 /\ UNCHANGED svc
    BY <2>2 DEF RtcInv, RtcTypes
  <2> QED BY <2>1, <2>2 DEF SubmitTranscript
<1>e. e.at = "post" /\ UNCHANGED <<frames, hook, procs, engines, polls, rtcCalls, said, rtcRaced>>
  BY DEF SubmitTranscript, history
<1>1. RtcTypes'
  BY <1>c, <1>d, <1>e DEF RtcInv, RtcTypes
<1>2. RoomsAreMade'
  BY <1>a, <1>b, <1>d, <1>e DEF RtcInv, RoomsAreMade, Made
<1>3. ~rtcRaced' => OneCall'
  BY <1>c, <1>e DEF RtcInv, OneCall
<1>4. ~rtcRaced' => Over'
  BY <1>a, <1>c, <1>e DEF RtcInv, Over
<1>5. ~rtcRaced' => InfoGone'
  BY <1>c, <1>e DEF RtcInv, InfoGone
<1>6. ~rtcRaced' => WordsAreKept'
  BY <1>a, <1>c, <1>d, <1>e DEF RtcInv, RtcTypes, WordsAreKept
<1>7. ~rtcRaced' => NothingMoreIsSaid'
  BY <1>e DEF RtcInv, NothingMoreIsSaid, Heard
<1>8. ~rtcRaced' => RoomsToCome'
  BY <1>a, <1>c, <1>e DEF RtcInv, RoomsToCome
<1> QED BY <1>1, <1>2, <1>3, <1>4, <1>5, <1>6, <1>7, <1>8 DEF RtcInv

LEMMA StopSessionStep ==
  ASSUME RtcInv, NEW e \in ends, StopSession(e)
  PROVE  RtcInv'
<1>0. e.room \in 1..Len(svc) /\ svc[e.room] \in RtcSession /\ e.room \in Rooms /\ svc[e.room].words \subseteq Nat
  BY SessionOf DEF RtcInv, RoomsAreMade, Made
<1>a. /\ hook' \in HookType /\ hook'.words = {} /\ hook'.shown = hook.shown
      /\ hook'.active = hook.active /\ hook'.engine = hook.engine /\ hook'.info = 0
      /\ hook'.incoming = hook.incoming
  <2>1. hook \in HookType /\ hook' = [hook EXCEPT !.info = 0, !.words = {}]
    BY DEF StopSession, RtcInv, RtcTypes
  <2> QED BY <2>1 DEF HookType
<1>b. ends' = ends \ {e} /\ (OneCall => ends' = {})
  BY DEF StopSession, OneCall
<1>c. /\ svc' \in Seq(RtcSession) /\ Len(svc') = Len(svc)
      /\ \A n \in 1..Len(svc) : svc'[n].words = svc[n].words
      /\ rtcFaults' \in Nat /\ rtcFaults' >= rtcFaults
      /\ \A n \in Rooms : polls'[n] = polls[n] \/ (n = e.room /\ polls[n].st = "waiting" /\ polls'[n].st = "heard" /\ polls'[n].got = svc[n].words)
      /\ polls' \in [Rooms -> Poll]
  <2>1. CASE svc' = StopVoiceChat(svc, e.room) /\ Resolve(e.room, svc') /\ UNCHANGED rtcFaults
    <3> DEFINE s == [svc[e.room] EXCEPT !.status = "stopped"]
    <3>1. s \in RtcSession /\ s.words = svc[e.room].words
      BY <1>0 DEF RtcSession
    <3>2. svc' = [svc EXCEPT ![e.room] = s]
      BY <2>1 DEF StopVoiceChat
    <3> HIDE DEF s
    <3>3. /\ svc' \in Seq(RtcSession) /\ Len(svc') = Len(svc) /\ svc'[e.room].words = svc[e.room].words
          /\ \A n \in 1..Len(svc) : svc'[n].words = svc[n].words
      BY <1>0, <3>1, <3>2, SessionChanged DEF RtcInv
    <3>4. \A n \in Rooms : polls'[n] = IF n = e.room /\ polls[n].st = "waiting"
                                        THEN [st |-> "heard", got |-> svc[n].words] ELSE polls[n]
      BY <2>1, <3>3 DEF Resolve, RtcInv, RtcTypes
    <3>5. polls' \in [Rooms -> Poll]
      BY <1>0, <2>1, <3>3 DEF Resolve, RtcInv, RtcTypes, Poll
    <3> QED BY <2>1, <3>3, <3>4, <3>5 DEF RtcInv, RtcTypes
  <2>2. CASE rtcFaults < MaxRtcFaults /\ rtcFaults' = rtcFaults + 1 /\ UNCHANGED <<svc, polls>>
    BY <2>2 DEF RtcInv, RtcTypes
  <2> QED BY <2>1, <2>2 DEF StopSession
<1>d. e.at = "stop" /\ UNCHANGED <<frames, procs, engines, rtcCalls, said, rtcRaced>>
  BY DEF StopSession, history
<1>1. RtcTypes'
  BY <1>a, <1>b, <1>c, <1>d DEF RtcInv, RtcTypes
<1>2. RoomsAreMade'
  <2>1. \A n \in Rooms : n > Len(svc') => engines'[n] = "none" /\ polls'[n].st = "none"
    BY <1>c, <1>d DEF RtcInv, RoomsAreMade
  <2> QED BY <1>a, <1>b, <1>c, <1>d DEF RtcInv, RoomsAreMade, Made
<1>3. ~rtcRaced' => OneCall'
  BY <1>a, <1>b, <1>d DEF RtcInv, OneCall
<1>4. ~rtcRaced' => Over'
  BY <1>b, <1>d DEF RtcInv, Over
<1>5. ~rtcRaced' => InfoGone'
  BY <1>a DEF InfoGone
<1>6. ~rtcRaced' => WordsAreKept'
  <2> SUFFICES ASSUME ~rtcRaced' PROVE WordsAreKept'
    OBVIOUS
  <2>0. ~rtcRaced /\ OneCall /\ WordsAreKept /\ hook'.info \notin said
    BY <1>a, <1>d DEF RtcInv, RoomsAreMade, Made
  <2>1. ASSUME NEW n \in Rooms, polls'[n].st = "heard", n \in said, rtcFaults' = 0
        PROVE  n \in polls'[n].got
    <3>1. rtcFaults = 0
      BY <1>c, <2>1 DEF RtcInv, RtcTypes
    <3>2. CASE polls'[n] = polls[n]
      BY <2>0, <2>1, <3>1, <3>2 DEF WordsAreKept
    <3>3. CASE n = e.room /\ polls'[n].got = svc[n].words
      BY <1>d, <2>0, <2>1, <3>1, <3>3 DEF WordsAreKept
    <3> QED BY <1>c, <3>2, <3>3
  <2> QED BY <1>b, <1>d, <2>0, <2>1 DEF WordsAreKept
<1>7. ~rtcRaced' => NothingMoreIsSaid'
  BY <1>0, <1>a, <1>c, <1>d DEF RtcInv, NothingMoreIsSaid, OneCall, Heard, RoomsToCome
<1>8. ~rtcRaced' => RoomsToCome'
  BY <1>a, <1>b, <1>c, <1>d, RtcAssumption DEF RtcInv, RoomsToCome, Rooms
<1> QED BY <1>1, <1>2, <1>3, <1>4, <1>5, <1>6, <1>7, <1>8 DEF RtcInv

LEMMA UnmountStep ==
  ASSUME RtcInv, Unmount
  PROVE  RtcInv'
<1>1. RtcTypes'
  BY DEF Unmount, Left, RtcInv, RtcTypes, HookType
<1>2. RoomsAreMade'
  BY DEF Unmount, Left, RtcInv, RoomsAreMade, Made
<1>3. ~rtcRaced' => OneCall'
  BY DEF Unmount, RtcInv, OneCall, RtcTypes, HookType
<1>4. ~rtcRaced' => Over'
  BY DEF Unmount, RtcInv, Over, RtcTypes, HookType
<1>5. ~rtcRaced' => InfoGone'
  BY DEF Unmount, InfoGone, Rooms
<1>6. ~rtcRaced' => WordsAreKept'
  BY DEF Unmount, RtcInv, WordsAreKept, RtcTypes, HookType, RtcSession, Poll, Stages, Rooms
<1>7. ~rtcRaced' => NothingMoreIsSaid'
  BY DEF Unmount, RtcInv, NothingMoreIsSaid, Heard, RtcTypes, HookType, RtcSession, Poll, Stages, Rooms
<1>8. ~rtcRaced' => RoomsToCome'
  BY DEF Unmount, RtcInv, RoomsToCome, RtcTypes, HookType, Stages, Rooms
<1> QED BY <1>1, <1>2, <1>3, <1>4, <1>5, <1>6, <1>7, <1>8 DEF RtcInv

LEMMA RemountStep ==
  ASSUME RtcInv, Remount
  PROVE  RtcInv'
<1>1. RtcTypes'
  BY DEF Remount, HookMounted, history, RtcInv, RtcTypes, HookType
<1>2. RoomsAreMade'
  BY DEF Remount, HookMounted, history, RtcInv, RoomsAreMade, Made
<1>3. ~rtcRaced' => OneCall' /\ Over' /\ InfoGone'
  BY DEF Remount, HookMounted, history, RtcInv, OneCall, Over, InfoGone
<1>4. ~rtcRaced' => WordsAreKept'
  <2>1. 0 \notin said
    BY DEF RtcInv, RoomsAreMade, Made
  <2> QED BY <2>1 DEF Remount, HookMounted, history, RtcInv, WordsAreKept
<1>5. ~rtcRaced' => NothingMoreIsSaid' /\ RoomsToCome'
  BY DEF Remount, HookMounted, history, RtcInv, NothingMoreIsSaid, Heard, Rooms, RoomsToCome
<1> QED BY <1>1, <1>2, <1>3, <1>4, <1>5 DEF RtcInv

LEMMA RtcConfiguredStep ==
  ASSUME RtcInv, RtcConfigured
  PROVE  RtcInv'
<1>a. /\ hook' \in HookType /\ hook'.rtc /\ hook'.incoming = hook.incoming /\ hook'.words = hook.words
      /\ hook'.shown = hook.shown /\ hook'.active = hook.active
      /\ hook'.engine = hook.engine /\ hook'.info = hook.info
  BY DEF RtcConfigured, RtcInv, RtcTypes, HookType
<1>b. UNCHANGED <<frames, procs, ends, svc, engines, polls, rtcCalls, rtcFaults, said, rtcRaced>>
  BY DEF RtcConfigured, history
<1>1. RtcTypes' /\ RoomsAreMade'
  BY <1>a, <1>b DEF RtcInv, RtcTypes, RoomsAreMade, Made
<1>2. ~rtcRaced' => OneCall' /\ Over' /\ InfoGone'
  BY <1>a, <1>b DEF RtcInv, OneCall, Over, InfoGone
<1>3. ~rtcRaced' => WordsAreKept' /\ NothingMoreIsSaid' /\ RoomsToCome'
  BY <1>a, <1>b DEF RtcInv, WordsAreKept, NothingMoreIsSaid, Heard, RoomsToCome
<1> QED BY <1>1, <1>2, <1>3 DEF RtcInv

LEMMA RtcStep == RtcInv /\ [RtcNext]_rtcVars => RtcInv'
<1> SUFFICES ASSUME RtcInv, [RtcNext]_rtcVars PROVE RtcInv'
  OBVIOUS
<1>0. DOMAIN svc = Made
  BY DEF Made
<1>1. CASE RtcNext
  BY <1>0, <1>1, RingStep, WaitTimesOutStep, StartRtcCallStep, ServeStartStep, JoinCallStep,
      CreateEngineStep, JoinRoomStep, StartCaptureStep, CatchStep, SubtitleStep, ToggleMuteStep,
      EndRtcCallStep, SubmitTranscriptStep, StopSessionStep, UnmountStep, RemountStep,
      RtcConfiguredStep, FrameArrivesStep DEF RtcNext, User, Proceed, Finish, Waits
<1>2. CASE UNCHANGED rtcVars
  BY <1>2 DEF rtcVars, RtcInv, RtcTypes, RoomsAreMade, Made, OneCall, Over, InfoGone,
      WordsAreKept, NothingMoreIsSaid, RoomsToCome, Heard
<1> QED BY <1>1, <1>2

\* However calls are begun, joined and hung up, whatever the room service and the
\* agent's long poll do (useRtcCallMode, RtcVoiceChatService), on either socket: a
\* microphone is published by the call that is shown alone, and who waited for the
\* end of a call gets what was said in it unless a request was lost; but for calls
\* that crossed, which MicOnlyInCallUnlessRaced lists one by one, a room joined
\* again by the frame of the second socket among them.
THEOREM CallIsSound == RtcSpec => []CallIsSoundUnlessCrossed
<1>1. RtcInv => CallIsSoundUnlessCrossed
  BY DEF RtcInv, RtcTypes, OneCall, WordsAreKept, CallIsSoundUnlessCrossed, MicOnlyInCallUnlessRaced, WaiterHearsTheCallUnlessLost
<1> QED BY <1>1, RtcInitial, RtcStep, PTL DEF RtcSpec
=============================================================================
