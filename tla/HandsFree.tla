------------------------------ MODULE HandsFree ------------------------------
(***************************************************************************)
(* The two hands-free voice features of the web client: the call of the    *)
(* chat view (record, send, play the answer, record again) and the voice   *)
(* view (tap, speak, tap, listen), both served by POST /api/voice.         *)
(*                                                                         *)
(* Every step of either is a callback: getUserMedia's answer, a recorder's *)
(* stop, an answer to a request, the end of a playback.  call and vv keep  *)
(* what the hooks' refs hold; handsAsks, reqs and sources are what the     *)
(* browser still owes them.  open is the set of microphone streams whose tracks    *)
(* run.  A view that is left is unmounted, but its callbacks still come.   *)
(*                                                                         *)
(* The chat view has two modes of a call; rtc says that the answer of      *)
(* /api/rtc/config made it take the other one (RtcCalls).  From then on    *)
(* overlay and hang-up are those of the RTC call, whatever this one does.  *)
(***************************************************************************)
EXTENDS Naturals, FiniteSets

CONSTANTS MaxAsks,     \* bound: times the microphone is asked for
          MaxCalls,    \* bound: calls begun
          MaxReqs      \* bound: recordings sent

VARIABLES
  shown, call, vv, handsAsks, open, reqs, sources, asked, calls, handsSent,
  handsRaced

ASSUME HandsAssumption == MaxAsks \in Nat /\ MaxCalls \in Nat /\ MaxReqs \in Nat

handsVars ==
  <<shown, call, vv, handsAsks, open, reqs, sources, asked, calls, handsSent,
    handsRaced>>

HandsInit ==
  /\ shown = "chat"
  /\ call = [active |-> FALSE, phase |-> "recording", stream |-> 0, rec |-> 0, play |-> 0,
             ctx |-> FALSE, starts |-> 0, rtc |-> FALSE]
  /\ vv = [state |-> "idle", stream |-> 0, rec |-> 0, play |-> 0, text |-> "none", url |-> FALSE]
  /\ handsAsks = {}
  /\ open = {}
  /\ reqs = {}
  /\ sources = {}
  /\ asked = 0
  /\ calls = 0
  /\ handsSent = 0
  /\ handsRaced = FALSE

AskMic(of) == IF asked < MaxAsks
             THEN handsAsks' = handsAsks \cup {[of |-> of, id |-> asked + 1]} /\ asked' = asked + 1
             ELSE UNCHANGED <<handsAsks, asked>>
Send(of) == IF handsSent < MaxReqs
              THEN reqs' = reqs \cup {[of |-> of, id |-> handsSent + 1, at |-> "stt"]} /\ handsSent' = handsSent + 1
              ELSE UNCHANGED <<reqs, handsSent>>

-----------------------------------------------------------------------------
(* The call of the chat view.                                              *)

StartCallRecording(c) ==
  IF c.active THEN call' = [c EXCEPT !.phase = "recording"] /\ AskMic("call")
  ELSE call' = c /\ UNCHANGED <<handsAsks, asked>>

Pending == handsAsks # {} \/ reqs # {} \/ sources # {}

(* The call is active, and listens: also if it was before, if its view is  *)
(* gone, or if the view has changed to the other mode.                     *)
Begin(c) ==
  /\ StartCallRecording([c EXCEPT !.active = TRUE])
  /\ handsRaced' = (handsRaced \/ Pending \/ c.active \/ c.rtc \/ shown # "chat")

(* A click.  A playback context that is suspended is resumed first: until  *)
(* then the call is not active, and the button can be clicked again.       *)
StartCall ==
  /\ shown = "chat" /\ ~call.rtc /\ ~call.active /\ calls < MaxCalls
  /\ calls' = calls + 1
  /\ \/ Begin([call EXCEPT !.ctx = TRUE])
     \/ /\ call' = [call EXCEPT !.ctx = TRUE, !.starts = @ + 1]
        /\ UNCHANGED <<handsAsks, asked, handsRaced>>
  /\ UNCHANGED <<shown, vv, open, reqs, sources, handsSent>>

Resumed ==
  /\ call.starts > 0
  /\ Begin([call EXCEPT !.starts = @ - 1])
  /\ UNCHANGED <<shown, vv, open, reqs, sources, calls, handsSent>>

(* GET /api/rtc/config is asked when the view is mounted and answers when  *)
(* it does, in the middle of a call too.                                   *)
RtcConfigAnswers ==
  /\ shown = "chat" /\ ~call.rtc
  /\ call' = [call EXCEPT !.rtc = TRUE]
  /\ handsRaced' = (handsRaced \/ call.active)
  /\ UNCHANGED <<shown, vv, handsAsks, open, reqs, sources, asked, calls, handsSent>>

(* A bug: the call is not looked at again once the microphone is granted.  *)
TakeAnyway(id) ==
  /\ call' = [call EXCEPT !.stream = id, !.rec = id]
  /\ open' = open \cup {id}

(* A stream that comes after the call ended is stopped at once.            *)
Take(id) ==
  IF call.active THEN /\ call' = [call EXCEPT !.stream = id, !.rec = id]
                      /\ open' = open \cup {id}
  ELSE UNCHANGED <<call, open>>

CallGranted(a) ==
  /\ a \in handsAsks /\ a.of = "call"
  /\ handsAsks' = handsAsks \ {a}
  /\ (Take(a.id) \/ UNCHANGED <<call, open>>)   \* granted, or denied
  /\ UNCHANGED <<shown, vv, reqs, sources, asked, calls, handsSent, handsRaced>>

(* The recorder stops, by a silence, a tap or because its view is gone;    *)
(* its onstop sends what was recorded.                                     *)
StopCallRecording ==
  /\ open' = open \ {call.stream}
  /\ IF call.rec # 0
       THEN /\ call' = [call EXCEPT !.rec = 0, !.stream = 0, !.phase = "processing"]
            /\ Send("call")
       ELSE call' = [call EXCEPT !.stream = 0] /\ UNCHANGED <<reqs, handsSent>>

Silence ==
  /\ call.active /\ call.rec # 0 /\ call.stream \in open
  /\ StopCallRecording
  /\ UNCHANGED <<shown, vv, handsAsks, sources, asked, calls, handsRaced>>

(* A tap: the end of a recording, or of a playback, whose onended will     *)
(* still come.                                                             *)
HandleCallTap ==
  /\ shown = "chat" /\ call.active /\ ~call.rtc
  /\ \/ /\ call.phase = "recording" /\ StopCallRecording
        /\ UNCHANGED <<handsAsks, asked, sources, handsRaced>>
     \/ /\ call.phase = "playing"
        /\ StartCallRecording([call EXCEPT !.play = 0])
        /\ handsRaced' = TRUE
        /\ UNCHANGED <<open, reqs, handsSent, sources>>
  /\ UNCHANGED <<shown, vv, calls>>

EndCall ==
  /\ shown = "chat" /\ call.active /\ ~call.rtc
  /\ call' = [call EXCEPT !.active = FALSE, !.rec = 0, !.stream = 0, !.play = 0, !.ctx = FALSE]
  /\ open' = open \ {call.stream}
  /\ UNCHANGED <<shown, vv, handsAsks, reqs, sources, asked, calls, handsSent, handsRaced>>

(* The answer to a recording: an error or plain text starts the next one,  *)
(* speech is played first.                                                 *)
CallAnswered(r) ==
  /\ r \in reqs /\ r.of = "call" /\ r.at \in {"error", "text", "audio"}
  /\ reqs' = reqs \ {r}
  /\ IF r.at = "audio" /\ call.ctx
       THEN /\ call' = [call EXCEPT !.phase = "playing", !.play = r.id]
            /\ sources' = sources \cup {[of |-> "call", id |-> r.id]}
            /\ UNCHANGED <<handsAsks, asked>>
       ELSE StartCallRecording(call) /\ UNCHANGED sources
  /\ UNCHANGED <<shown, vv, open, calls, handsSent, handsRaced>>

CallSourceEnds(s) ==
  /\ s \in sources /\ s.of = "call"
  /\ sources' = sources \ {s}
  /\ StartCallRecording([call EXCEPT !.play = 0])
  /\ UNCHANGED <<shown, vv, open, reqs, calls, handsSent, handsRaced>>

(* Leaving the chat view stops the tracks; callActiveRef stays as it is.   *)
LeaveChat ==
  /\ shown = "chat"
  /\ shown' = "voice"
  /\ IF call.active /\ call.rec # 0 THEN StopCallRecording
     ELSE open' = open \ {call.stream} /\ UNCHANGED <<call, reqs, handsSent>>
  /\ handsRaced' = (handsRaced \/ call.active)
  /\ UNCHANGED <<vv, handsAsks, sources, asked, calls>>

-----------------------------------------------------------------------------
(* The voice view.                                                         *)

StopRecording ==
  /\ open' = open \ {vv.stream}
  /\ vv' = [vv EXCEPT !.rec = 0, !.stream = 0, !.state = "processing"]
  /\ Send("view")

HandleMicClick ==
  /\ shown = "voice"
  /\ \/ /\ vv.state = "idle" /\ AskMic("view")
        /\ handsRaced' = (handsRaced \/ \E a \in handsAsks : a.of = "view")
        /\ UNCHANGED <<vv, open, reqs, handsSent, sources>>
     \/ /\ vv.state = "recording" /\ vv.rec # 0 /\ StopRecording
        /\ UNCHANGED <<handsAsks, asked, sources, handsRaced>>
     \/ /\ vv.state = "playing"
        /\ vv' = [vv EXCEPT !.state = "idle", !.play = 0]
        /\ sources' = {s \in sources : s.of = "call" \/ s.id # vv.play}
        /\ UNCHANGED <<handsAsks, asked, open, reqs, handsSent, handsRaced>>
  /\ UNCHANGED <<shown, call, calls>>

ViewGranted(a) ==
  /\ a \in handsAsks /\ a.of = "view"
  /\ handsAsks' = handsAsks \ {a}
  /\ \/ /\ vv' = [vv EXCEPT !.state = "recording", !.stream = a.id, !.rec = a.id,
                            !.text = "none", !.url = FALSE]
        /\ open' = open \cup {a.id}
     \/ UNCHANGED <<vv, open>>
  /\ UNCHANGED <<shown, call, reqs, sources, asked, calls, handsSent, handsRaced>>

(* handleSendAudio: the headers carry base64, which decodeURIComponent     *)
(* leaves as it is.                                                        *)
Answered(v, kind) ==
  IF kind = "audio" THEN [v EXCEPT !.text = "base64", !.url = TRUE, !.state = "playing"]
  ELSE [v EXCEPT !.text = "plain", !.state = "idle"]

ViewAnswered(r) ==
  /\ r \in reqs /\ r.of = "view" /\ r.at \in {"error", "text", "audio"}
  /\ reqs' = reqs \ {r}
  /\ vv' = [Answered(vv, r.at) EXCEPT !.play = IF r.at = "audio" THEN r.id ELSE @]
  /\ sources' = IF r.at = "audio" THEN sources \cup {[of |-> "view", id |-> r.id]} ELSE sources
  /\ UNCHANGED <<shown, call, handsAsks, open, asked, calls, handsSent, handsRaced>>

PlayAudio ==
  /\ shown = "voice" /\ vv.state = "idle" /\ vv.url
  /\ vv' = [vv EXCEPT !.state = "playing", !.play = handsSent]
  /\ sources' = sources \cup {[of |-> "view", id |-> handsSent]}
  /\ handsRaced' = (handsRaced \/ handsAsks # {})
  /\ UNCHANGED <<shown, call, handsAsks, open, reqs, asked, calls, handsSent>>

ViewSourceEnds(s) ==
  /\ s \in sources /\ s.of = "view"
  /\ sources' = sources \ {s}
  /\ vv' = [vv EXCEPT !.state = "idle"]
  /\ UNCHANGED <<shown, call, handsAsks, open, reqs, asked, calls, handsSent, handsRaced>>

LeaveVoice ==
  /\ shown = "voice"
  /\ shown' = "elsewhere"
  /\ open' = open \ {vv.stream}
  /\ sources' = {s \in sources : s.of = "call" \/ s.id # vv.play}
  /\ vv' = [vv EXCEPT !.state = "idle", !.stream = 0, !.rec = 0, !.play = 0]
  /\ handsRaced' = (handsRaced \/ \E a \in handsAsks : a.of = "view")
  /\ UNCHANGED <<call, handsAsks, reqs, asked, calls, handsSent>>

-----------------------------------------------------------------------------
(* The server's side of a request: speech to text, the bot's task (refused *)
(* while the chat has another), text to speech (whose failure falls back   *)
(* to the text alone).  The request itself may fail at any stage.          *)

HandleVoiceRequest(r) ==
  CASE r.at = "stt"  -> {"error", "text", "task"}
    [] r.at = "task" -> IF \E q \in reqs : q.id < r.id /\ q.of = "call" /\ r.of = "call" /\ q.at = "task"
                          THEN {"text"} ELSE {"error", "text", "tts"}
    [] r.at = "tts"  -> {"error", "text", "audio"}

Serve(r) ==
  /\ r \in reqs /\ r.at \in {"stt", "task", "tts"}
  /\ \E next \in HandleVoiceRequest(r) : reqs' = (reqs \ {r}) \cup {[r EXCEPT !.at = next]}
  /\ UNCHANGED <<shown, call, vv, handsAsks, open, sources, asked, calls, handsSent, handsRaced>>

-----------------------------------------------------------------------------
PageMoves ==
  \/ StartCall \/ Resumed \/ RtcConfigAnswers \/ Silence \/ HandleCallTap \/ EndCall \/ LeaveChat
  \/ HandleMicClick \/ PlayAudio \/ LeaveVoice
  \/ \E a \in handsAsks : CallGranted(a) \/ ViewGranted(a)
  \/ \E s \in sources : CallSourceEnds(s) \/ ViewSourceEnds(s)
AnswerComes == \E r \in reqs : CallAnswered(r) \/ ViewAnswered(r)
Handle == \E r \in reqs : Serve(r)

HandsNext == PageMoves \/ AnswerComes \/ Handle

HandsSpec == HandsInit /\ [][HandsNext]_handsVars

-----------------------------------------------------------------------------
(* A microphone is open only while its page shows that it records, unless  *)
(* callbacks crossed.  The crossings excused are those the code does not   *)
(* guard: a second click before the playback context was resumed, a view   *)
(* left before it was, a call begun before the last one's callbacks came,  *)
(* the answer of /api/rtc/config in mid-call, a tap during the answer, a   *)
(* view left in mid-call, a second click before the microphone was granted.*)
MicOnlyWhileListeningUnlessRaced ==
  \A id \in open :
    \/ call.active /\ call.phase = "recording" /\ call.stream = id /\ shown = "chat" /\ ~call.rtc
    \/ shown = "voice" /\ vv.state = "recording" /\ vv.stream = id
    \/ handsRaced

=============================================================================
