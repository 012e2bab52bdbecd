----------------------------- MODULE HoldToTalk -----------------------------
(***************************************************************************)
(* Hold-to-talk voice input of the web client, and the streaming speech    *)
(* recognition behind it.                                                  *)
(*                                                                         *)
(* The page: ui is InputBar's state (its refs included), asr what the      *)
(* store shows of the recognition, mic the microphone streams that are     *)
(* open and the one each hook still refers to.  A press asks the browser   *)
(* for the microphone and is not told when: asks are the calls that wait.  *)
(* The server keeps one asrSession per socket (current), but the sessions  *)
(* it replaced live on until their own sockets close; up and down are the  *)
(* two directions of the page's socket.                                    *)
(*                                                                         *)
(* Words are the number of the press they were spoken in, 0 for none.  The *)
(* socket is lost with its view only: one that breaks and is opened again  *)
(* under a view that stays is not modelled.                                *)
(***************************************************************************)
EXTENDS Naturals, Sequences, FiniteSets

CONSTANTS MaxPresses,   \* bound: presses of the button
          MaxFaults     \* bound: failures of the recognition service, and leavings of the page

VARIABLES ui, asr, mic, asks, fetches, up, down, sess, current, configured, presses, faults, raced, late

vars == <<ui, asr, mic, asks, fetches, up, down, sess, current, configured, presses, faults, raced, late>>
page == <<ui, asr, mic, asks, fetches>>
server == <<sess, current, configured>>

Mounted(worklet) ==
  [voice |-> "idle", mode |-> "voice", held |-> FALSE, cancel |-> FALSE, streaming |-> FALSE,
   recording |-> FALSE, worklet |-> worklet, available |-> worklet, transcript |-> 0, spoke |-> 0]

Init ==
  /\ ui \in {Mounted(w) : w \in BOOLEAN}
  /\ asr = [state |-> "idle", text |-> 0, active |-> FALSE]
  /\ mic = [open |-> {}, wired |-> {}, ref |-> 0, rec |-> 0]
  /\ asks = {}
  /\ fetches = {}
  /\ up = <<>>
  /\ down = <<>>
  /\ sess = <<>>
  /\ current = 0
  /\ configured \in BOOLEAN
  /\ presses = 0
  /\ faults = 0
  /\ raced = FALSE
  /\ late = FALSE

-----------------------------------------------------------------------------
(* What the page's effects make of a change of voiceState, asrState or the *)
(* partial text.                                                           *)

Settled(u, text) ==
  [u EXCEPT !.voice = IF text # 0 THEN "preview" ELSE "idle",
            !.transcript = IF text # 0 THEN text ELSE @, !.streaming = FALSE]

After(u, a) ==
  IF u.streaming /\ a.state = "error"
    THEN [u EXCEPT !.available = FALSE, !.streaming = FALSE, !.recording = FALSE,
                   !.voice = IF @ \in {"recording", "recognizing"} THEN "idle" ELSE @]
  ELSE IF u.streaming /\ a.state = "idle" /\ u.voice = "recognizing" THEN Settled(u, a.text)
  ELSE u

Becomes(u, a) == ui' = After(u, a) /\ asr' = a

(* A bug: the worklet is disconnected, the microphone's tracks go on.      *)
CleanupWorklet(m) == [m EXCEPT !.wired = @ \ {m.ref}, !.ref = 0]

Cleanup(m) == [m EXCEPT !.open = @ \ {m.ref}, !.wired = @ \ {m.ref}, !.ref = 0]

SafetyTimeout ==
  /\ ui.voice = "recognizing" /\ ui.streaming
  /\ ui' = Settled(ui, asr.text)
  /\ UNCHANGED <<asr, mic, asks, fetches, up, down, server, presses, faults, raced, late>>

-----------------------------------------------------------------------------
(* Pressing.  startRecording asks for the microphone on one of two paths.  *)

StartASR(p) ==
  IF asr.active THEN UNCHANGED <<asr, asks>>
  ELSE /\ asks' = asks \cup {[press |-> p, at |-> "stream", live |-> TRUE]}
       /\ asr' = [state |-> "connecting", text |-> 0, active |-> TRUE]

StartStreaming(p) ==
  /\ ui' = [ui EXCEPT !.held = TRUE, !.recording = TRUE, !.streaming = TRUE, !.cancel = FALSE,
                      !.voice = "recording"]
  /\ StartASR(p)

StartRecorder(p) ==
  /\ ui' = [ui EXCEPT !.held = TRUE, !.recording = TRUE]
  /\ asks' = asks \cup {[press |-> p, at |-> "record", live |-> TRUE]}
  /\ UNCHANGED asr

Unsettled == 
  \/ down # <<>> \/ up # <<>>
  \/ \E n \in DOMAIN sess : ~sess[n].gone /\ sess[n].st # "closed"

PointerDown ==
  /\ presses < MaxPresses
  /\ ui.mode = "voice" /\ ui.voice = "idle" /\ ~ui.held
  /\ presses' = presses + 1
  /\ IF ui.recording THEN ui' = [ui EXCEPT !.held = TRUE] /\ UNCHANGED <<asr, asks>>
     ELSE IF ui.available THEN StartStreaming(presses + 1) ELSE StartRecorder(presses + 1)
  /\ late' = (late \/ Unsettled \/ asks # {})
  /\ UNCHANGED <<mic, fetches, up, down, server, faults, raced>>

PointerMove ==
  /\ ui.held /\ ui.voice = "recording"
  /\ ui' = [ui EXCEPT !.cancel = ~@]
  /\ UNCHANGED <<asr, mic, asks, fetches, up, down, server, presses, faults, raced, late>>

(* getUserMedia answers; then the worklet is loaded and the server told.   *)
Granted(a) ==
  /\ a \in asks /\ a.at = "stream"
  /\ asks' = (asks \ {a}) \cup {[a EXCEPT !.at = "wiring"]}
  /\ mic' = [mic EXCEPT !.open = @ \cup {a.press}, !.ref = IF a.live THEN a.press ELSE @]
  /\ UNCHANGED <<ui, asr, fetches, up, down, server, presses, faults, raced, late>>

Wired(a) ==
  /\ a \in asks /\ a.at = "wiring"
  /\ asks' = asks \ {a}
  /\ mic' = [mic EXCEPT !.wired = @ \cup {a.press}]
  /\ up' = IF a.live THEN Append(up, [kind |-> "start", press |-> a.press]) ELSE up
  /\ UNCHANGED <<ui, asr, fetches, down, server, presses, faults, raced, late>>

(* The catch of startASR.                                                  *)
StartFails(a) ==
  /\ a \in asks /\ a.at \in {"stream", "wiring"} /\ a.live /\ faults < MaxFaults
  /\ faults' = faults + 1
  /\ asks' = asks \ {a}
  /\ mic' = Cleanup(mic)
  /\ Becomes(ui, [asr EXCEPT !.state = "error", !.active = FALSE])
  /\ raced' = (raced \/ (mic.ref # a.press /\ mic.open # {}))
  /\ UNCHANGED <<fetches, up, down, server, presses, late>>

RecorderGranted(a) ==
  /\ a \in asks /\ a.at = "record"
  /\ asks' = asks \ {a}
  /\ mic' = [mic EXCEPT !.open = @ \cup {a.press}, !.rec = IF a.live THEN a.press ELSE @]
  /\ ui' = IF a.live THEN [ui EXCEPT !.cancel = FALSE, !.voice = "recording"] ELSE ui
  /\ UNCHANGED <<asr, fetches, up, down, server, presses, faults, raced, late>>

RecorderDenied(a) ==
  /\ a \in asks /\ a.at = "record" /\ a.live /\ faults < MaxFaults
  /\ faults' = faults + 1
  /\ asks' = asks \ {a}
  /\ ui' = [ui EXCEPT !.recording = FALSE]
  /\ UNCHANGED <<asr, mic, fetches, up, down, server, presses, raced, late>>

(* The user speaks while a microphone is open: to the socket while the     *)
(* hook is active, to the recorder's chunks otherwise.                     *)
Speak ==
  /\ ui.held /\ ui.voice = "recording" /\ ui.spoke # presses
  /\ \/ asr.active /\ mic.open \cap mic.wired # {}
        /\ up' = Append(up, [kind |-> "pcm", press |-> presses])
     \/ mic.rec # 0 /\ UNCHANGED up
  /\ ui' = [ui EXCEPT !.spoke = presses]
  /\ UNCHANGED <<asr, mic, asks, fetches, down, server, presses, faults, raced, late>>

-----------------------------------------------------------------------------
(* Releasing: stopRecording on the path that useStreamingRef says.         *)

StopASR ==
  IF asr.active
    THEN /\ up' = Append(up, [kind |-> "stop", press |-> presses])
         /\ mic' = Cleanup(mic)
         /\ asr' = [asr EXCEPT !.active = FALSE]
    ELSE UNCHANGED <<up, mic, asr>>

StopStreaming(u) ==
  /\ StopASR
  /\ ui' = IF u.cancel THEN [u EXCEPT !.voice = "idle", !.streaming = FALSE]
           ELSE After([u EXCEPT !.voice = "recognizing"], asr')
  /\ UNCHANGED fetches

StopRecorder(u) ==
  /\ mic' = [mic EXCEPT !.open = @ \ {mic.rec}, !.rec = 0]
  /\ IF mic.rec # 0 /\ ~u.cancel /\ u.spoke = presses
       THEN /\ fetches' = fetches \cup {presses}
            /\ ui' = [u EXCEPT !.voice = "recognizing"]
       ELSE ui' = [u EXCEPT !.voice = "idle"] /\ UNCHANGED fetches
  /\ UNCHANGED <<up, asr>>

(* Only a release that finds voiceState recording stops anything.          *)
PointerUp ==
  /\ ui.held
  /\ LET u == [ui EXCEPT !.held = FALSE, !.recording = IF ui.voice = "recording" THEN FALSE ELSE @]
     IN IF ui.voice # "recording" THEN ui' = u /\ UNCHANGED <<asr, mic, fetches, up>>
        ELSE IF ui.streaming THEN StopStreaming(u) ELSE StopRecorder(u)
  /\ raced' = (raced \/ asks # {} \/ (ui.voice # "recording" /\ mic.open # {}))
  /\ UNCHANGED <<asks, down, server, presses, faults, late>>

(* transcribeFinal's answer.                                               *)
Transcribed(f) ==
  /\ f \in fetches
  /\ fetches' = fetches \ {f}
  /\ ui' \in {[ui EXCEPT !.voice = "preview", !.transcript = f], [ui EXCEPT !.voice = "idle"]}
  /\ UNCHANGED <<asr, mic, asks, up, down, server, presses, faults, raced, late>>

PreviewSend == [ui EXCEPT !.voice = "idle", !.transcript = 0]
PreviewEdit == [ui EXCEPT !.voice = "idle", !.transcript = 0, !.mode = "keyboard"]
PreviewEnds ==
  /\ ui.voice = "preview"
  /\ ui' \in {PreviewSend, PreviewEdit}
  /\ UNCHANGED <<asr, mic, asks, fetches, up, down, server, presses, faults, raced, late>>

ModeToggle ==
  /\ ui.voice \notin {"recording", "recognizing"}
  /\ ui' = [ui EXCEPT !.mode = IF @ = "voice" THEN "keyboard" ELSE "voice", !.voice = "idle", !.transcript = 0,
                      !.held = FALSE]
  /\ raced' = (raced \/ asks # {})
  /\ UNCHANGED <<asr, mic, asks, fetches, up, down, server, presses, faults, late>>

-----------------------------------------------------------------------------
(* The server's side: sessions with the recognition service.               *)

Alive(s) == s.st \in {"connecting", "open", "acked"}

(* A session that is still connecting has no socket to terminate.          *)
Destroyed(s) ==
  IF s.st = "connecting" THEN [s EXCEPT !.dead = TRUE]
  ELSE [s EXCEPT !.dead = TRUE, !.timer = FALSE, !.st = IF @ = "closed" THEN @ ELSE "dying"]

DestroyCurrent == IF current = 0 THEN sess ELSE [sess EXCEPT ![current] = Destroyed(@)]
Tell(n, m) == down' = IF sess[n].gone THEN down ELSE Append(down, m)
Forget(n) == current' = IF sess[n].gone THEN current ELSE 0
Message(k) == [kind |-> k, text |-> 0]

Takes(s) == s.st \in {"open", "acked"} /\ ~s.dead

StartMessage(p) ==
  IF configured
    THEN /\ sess' = Append(DestroyCurrent, [press |-> p, st |-> "connecting", dead |-> FALSE,
                                            timer |-> FALSE, heard |-> 0, gone |-> FALSE])
         /\ current' = Len(sess) + 1
         /\ UNCHANGED down
    ELSE /\ sess' = DestroyCurrent
         /\ current' = 0
         /\ down' = Append(down, Message("error"))

SendAudio(p) ==
  /\ sess' = IF current # 0 /\ Takes(sess[current]) THEN [sess EXCEPT ![current].heard = p] ELSE sess
  /\ UNCHANGED <<current, down>>

StopMessage ==
  /\ sess' = IF current # 0 /\ Takes(sess[current]) THEN [sess EXCEPT ![current].timer = TRUE] ELSE sess
  /\ UNCHANGED <<current, down>>

ServerReceives ==
  /\ up # <<>>
  /\ up' = Tail(up)
  /\ LET m == Head(up)
     IN CASE m.kind = "start" -> StartMessage(m.press)
          [] m.kind = "pcm"   -> SendAudio(m.press)
          [] m.kind = "stop"  -> StopMessage
  /\ UNCHANGED <<page, configured, presses, faults, raced, late>>

Session(n, s) == sess' = [sess EXCEPT ![n] = s]

(* The service's answers: opening, the acknowledgement that resolves       *)
(* start(), transcripts, errors, and the close of the socket.              *)
Progress(n) ==
  \/ sess[n].st = "connecting" /\ Session(n, [sess[n] EXCEPT !.st = "open"]) /\ UNCHANGED <<current, down>>
  \/ /\ sess[n].st = "open"
     /\ Session(n, [sess[n] EXCEPT !.st = "acked"]) /\ Tell(n, Message("started"))
     /\ UNCHANGED current
  \/ /\ sess[n].st = "acked" /\ sess[n].heard # 0
     /\ Session(n, [sess[n] EXCEPT !.heard = 0])
     /\ Tell(n, [kind |-> "transcript", text |-> sess[n].heard])
     /\ UNCHANGED current
  \/ sess[n].timer /\ Session(n, Destroyed(sess[n])) /\ UNCHANGED <<current, down>>
  \/ /\ sess[n].st = "dying"
     /\ Session(n, [sess[n] EXCEPT !.st = "closed"]) /\ Tell(n, Message("stopped")) /\ Forget(n)

Errs(n) ==
  /\ Alive(sess[n])
  /\ Session(n, [sess[n] EXCEPT !.st = IF @ = "connecting" THEN "dying" ELSE "acked"])
  /\ Tell(n, Message("error")) /\ Forget(n)

RemoteCloses(n) ==
  /\ sess[n].st \in {"open", "acked"}
  /\ Session(n, [sess[n] EXCEPT !.st = "closed", !.dead = TRUE, !.timer = FALSE])
  /\ Tell(n, Message("stopped")) /\ Forget(n)

ServiceWorks(n) == Progress(n) /\ UNCHANGED <<page, up, configured, presses, faults, raced, late>>
ServiceFails(n) ==
  /\ faults < MaxFaults /\ faults' = faults + 1
  /\ (Errs(n) \/ RemoteCloses(n))
  /\ UNCHANGED <<page, up, configured, presses, raced, late>>

ClientReceives ==
  /\ down # <<>>
  /\ down' = Tail(down)
  /\ LET m == Head(down)
         s == CASE m.kind = "started" -> "active" [] m.kind = "error" -> "error"
                [] m.kind = "stopped" -> "idle"   [] m.kind = "transcript" -> asr.state
         a == [asr EXCEPT !.state = s, !.text = IF m.kind = "transcript" THEN m.text ELSE @]
     IN Becomes(ui, a) /\ raced' = (raced \/ (s = "error" /\ asr.active))
  /\ UNCHANGED <<mic, asks, fetches, up, server, presses, faults, late>>

(* The chat view is left and opened again.  The hook releases what it      *)
(* holds; a recorder and the calls that wait are forgotten as they are,    *)
(* and so is a path that fell back: the browser's worklet is asked again.  *)
(* The socket goes with the view.                                          *)
Leave ==
  /\ faults < MaxFaults /\ faults' = faults + 1
  /\ ui' = Mounted(ui.worklet)
  /\ asr' = [asr EXCEPT !.active = FALSE]
  /\ mic' = [IF asr.active THEN Cleanup(mic) ELSE mic EXCEPT !.ref = 0, !.rec = 0]
  /\ asks' = {[a EXCEPT !.live = FALSE] : a \in asks}
  /\ fetches' = {}
  /\ up' = <<>> /\ down' = <<>>
  /\ sess' = [n \in DOMAIN sess |-> [DestroyCurrent[n] EXCEPT !.gone = TRUE]]
  /\ current' = 0
  /\ raced' = (raced \/ asks # {} \/ mic.rec # 0)
  /\ UNCHANGED <<configured, presses, late>>

-----------------------------------------------------------------------------
Browser ==
  \/ PointerDown \/ PointerMove \/ PointerUp \/ Speak \/ SafetyTimeout
  \/ PreviewEnds \/ ModeToggle \/ ClientReceives \/ Leave
  \/ \E a \in asks : Granted(a) \/ Wired(a) \/ StartFails(a) \/ RecorderGranted(a) \/ RecorderDenied(a)
  \/ \E f \in fetches : Transcribed(f)
Server == ServerReceives \/ \E n \in DOMAIN sess : ServiceWorks(n) \/ ServiceFails(n)

Next == Browser \/ Server

Spec == Init /\ [][Next]_vars

-----------------------------------------------------------------------------
(* Nobody is recorded without holding the button, unless a press ended     *)
(* before the browser granted the microphone, the recognition failed in    *)
(* mid-press or the page was left while recording.                         *)
MicOnlyWhileHeldUnlessRaced == mic.open # {} => ui.held \/ raced

(* The words shown for confirmation are those of the last press, unless it *)
(* began before the sessions of the earlier ones had ended.                *)
PreviewIsOfTheLastPressUnlessLate == ui.voice = "preview" => ui.transcript = presses \/ late

(* What the button does, part by part.                                     *)
ButtonIsSoundUnlessCrossed == MicOnlyWhileHeldUnlessRaced /\ PreviewIsOfTheLastPressUnlessLate
=============================================================================
