------------------------------ MODULE RtcCalls ------------------------------
(***************************************************************************)
(* Real-time voice calls: the chat view's hook, the server's service, and  *)
(* the agent that rings and waits for the conversation's transcript.       *)
(*                                                                         *)
(* hook is useRtcCallMode's state and refs, with the store's incoming      *)
(* call.  procs are the startCall and joinCall bodies still running, ends  *)
(* the endCall bodies: both go on, whatever the user does meanwhile, and   *)
(* share the same refs.  svc is the service's map, one session per room;   *)
(* engines says what the SDK (external) does in each room; polls are the   *)
(* agents' long polls.  words are the sentences collected, by session.     *)
(*                                                                         *)
(* The page has two sockets, the layout's and the chat view's: frames are  *)
(* the voice_call frames on their way on either.  Each puts its call into  *)
(* the store, and the chat view joins what is there once it has no call.   *)
(* The call is shown, and can be hung up, from the moment the view knows   *)
(* that there is RTC (rtc, the answer of /api/rtc/config).                 *)
(***************************************************************************)
EXTENDS Naturals, Sequences, FiniteSets

CONSTANTS MaxSessions,   \* bound: rooms made
          MaxRtcFaults      \* bound: requests lost, SDK failures

VARIABLES
  hook, frames, procs, ends, svc, engines, polls, said, rtcCalls, rtcFaults,
  rtcRaced

ASSUME RtcAssumption == MaxSessions \in Nat /\ MaxRtcFaults \in Nat

rtcVars ==
  <<hook, frames, procs, ends, svc, engines, polls, said, rtcCalls, rtcFaults,
    rtcRaced>>
history == <<said, rtcRaced>>

Rooms == 1 .. MaxSessions

(* The view's state when it is mounted; the store keeps the call in it.    *)
HookMounted(incoming) ==
  [shown |-> TRUE, rtc |-> FALSE, active |-> FALSE, phase |-> "connecting", engine |-> 0,
   info |-> 0, words |-> {}, incoming |-> incoming]

RtcInit ==
  /\ hook = HookMounted(0)
  /\ frames = {}
  /\ procs = {}
  /\ ends = {}
  /\ svc = <<>>
  /\ engines = [n \in Rooms |-> "none"]
  /\ polls = [n \in Rooms |-> [st |-> "none", got |-> {}]]
  /\ said = {}
  /\ rtcCalls = 0
  /\ rtcFaults = 0
  /\ rtcRaced = FALSE

-----------------------------------------------------------------------------
(* The service and its routes.                                             *)

StartVoiceChat(by) == svc' = Append(svc, [by |-> by, status |-> "active", words |-> {}])

SetTranscript(n, w) == [svc EXCEPT ![n].words = w]

StopVoiceChat(s, n) == [s EXCEPT ![n].status = "stopped"]

Resolve(n, s) == polls' = [polls EXCEPT ![n] = IF @.st = "waiting" THEN [st |-> "heard", got |-> s[n].words] ELSE @]

Sockets == IF hook.shown THEN {"layout", "chat"} ELSE {"layout"}

(* POST /api/rtc/voice: the room is made, every socket is told, and the    *)
(* caller may wait for the end of the call.                                *)
Ring ==
  /\ Len(svc) < MaxSessions
  /\ StartVoiceChat("agent")
  /\ frames' = frames \cup {[socket |-> k, room |-> Len(svc) + 1] : k \in Sockets}
  /\ polls' = [polls EXCEPT ![Len(svc) + 1].st = "waiting"]
  /\ UNCHANGED <<hook, procs, ends, engines, rtcCalls, rtcFaults, history>>

(* Each socket keeps its order; the two have none between them.            *)
FrameArrives(f) ==
  /\ f \in frames /\ \A g \in frames : g.socket = f.socket => g.room >= f.room
  /\ frames' = frames \ {f}
  /\ hook' = [hook EXCEPT !.incoming = f.room]
  /\ UNCHANGED <<procs, ends, svc, engines, polls, rtcCalls, rtcFaults, history>>

(* waitForCompletion's ten minutes.                                        *)
WaitTimesOut(n) ==
  /\ polls[n].st = "waiting"
  /\ polls' = [polls EXCEPT ![n] = [st |-> "gaveUp", got |-> svc[n].words]]
  /\ UNCHANGED <<frames, hook, procs, ends, svc, engines, rtcCalls, rtcFaults, history>>

-----------------------------------------------------------------------------
(* The hook.  doCleanup leaves the room of whatever engine the ref holds.  *)

Left == IF hook.engine = 0 THEN engines ELSE [engines EXCEPT ![hook.engine] = "gone"]
Connecting(h) == [h EXCEPT !.active = TRUE, !.phase = "connecting", !.words = {}]

StartRtcCall ==
  /\ hook.shown /\ hook.rtc /\ ~hook.active /\ rtcCalls < MaxSessions
  /\ rtcCalls' = rtcCalls + 1
  /\ hook' = Connecting(hook)
  /\ procs' = procs \cup {[call |-> rtcCalls + 1, at |-> "fetch", room |-> 0]}
  /\ rtcRaced' = (rtcRaced \/ ends # {} \/ procs # {})
  /\ UNCHANGED <<frames, ends, svc, engines, polls, said, rtcFaults>>

(* POST /api/rtc/start, and what its answer is worth.                      *)
ServeStart(p) ==
  /\ p \in procs /\ p.at = "fetch"
  /\ \/ /\ Len(svc) < MaxSessions
        /\ StartVoiceChat("user")
        /\ procs' = (procs \ {p}) \cup {[p EXCEPT !.at = "answer", !.room = Len(svc) + 1]}
        /\ UNCHANGED rtcFaults
     \/ /\ rtcFaults < MaxRtcFaults \/ Len(svc) = MaxSessions
        /\ rtcFaults' = IF Len(svc) = MaxSessions THEN rtcFaults ELSE rtcFaults + 1
        /\ procs' = (procs \ {p}) \cup {[p EXCEPT !.at = "failed"]}
        /\ UNCHANGED svc
  /\ UNCHANGED <<frames, hook, ends, engines, polls, rtcCalls, history>>

(* The store's incoming call is joined as soon as no call is active: also  *)
(* one that was joined already, by the frame of the other socket, and one  *)
(* that came before the view knew that there is RTC.                       *)
JoinCall ==
  /\ hook.shown /\ hook.incoming # 0 /\ ~hook.active
  /\ hook' = [Connecting(hook) EXCEPT !.incoming = 0]
  /\ rtcCalls' = rtcCalls + 1
  /\ procs' = procs \cup {[call |-> rtcCalls + 1, at |-> "answer", room |-> hook.incoming]}
  /\ rtcRaced' = (\/ rtcRaced \/ ends # {} \/ procs # {} \/ ~hook.rtc
                  \/ engines[hook.incoming] # "none")
  /\ UNCHANGED <<frames, ends, svc, engines, polls, said, rtcFaults>>

(* The room is known: the engine is created, whoever still wants it.       *)
CreateEngine(p) ==
  /\ p \in procs /\ p.at = "answer"
  /\ hook' = [hook EXCEPT !.info = p.room, !.engine = p.room]
  /\ engines' = [engines EXCEPT ![p.room] = "made"]
  /\ procs' = (procs \ {p}) \cup {[p EXCEPT !.at = "join"]}
  /\ UNCHANGED <<frames, ends, svc, polls, rtcCalls, rtcFaults, history>>

JoinRoom(p) ==
  /\ p \in procs /\ p.at = "join" /\ engines[p.room] # "gone"
  /\ engines' = [engines EXCEPT ![p.room] = "joined"]
  /\ procs' = (procs \ {p}) \cup {[p EXCEPT !.at = "capture"]}
  /\ UNCHANGED <<frames, hook, ends, svc, polls, rtcCalls, rtcFaults, history>>

StartCapture(p) ==
  /\ p \in procs /\ p.at = "capture" /\ engines[p.room] # "gone"
  /\ engines' = [engines EXCEPT ![p.room] = "live"]
  /\ hook' = [hook EXCEPT !.phase = "connected"]
  /\ procs' = procs \ {p}
  /\ UNCHANGED <<frames, ends, svc, polls, rtcCalls, rtcFaults, history>>

(* The catch of startCall and joinCall: it cleans up the engine of the     *)
(* ref, which may be another call's by now.                                *)
Catch(p) ==
  /\ p \in procs
  /\ \/ p.at = "failed" /\ UNCHANGED rtcFaults
     \/ p.at \in {"join", "capture"} /\ engines[p.room] = "gone" /\ UNCHANGED rtcFaults
     \/ /\ p.at \in {"join", "capture"} /\ engines[p.room] # "gone" /\ rtcFaults < MaxRtcFaults
        /\ rtcFaults' = rtcFaults + 1
  /\ procs' = procs \ {p}
  /\ engines' = Left
  /\ hook' = [hook EXCEPT !.phase = "error", !.engine = 0]
  /\ UNCHANGED <<frames, ends, svc, polls, rtcCalls, history>>

(* A complete sentence of the conversation arrives as a subtitle.          *)
Subtitle(n) ==
  /\ engines[n] \in {"live", "muted"} /\ n \notin hook.words
  /\ hook' = [hook EXCEPT !.words = @ \cup {n}]
  /\ said' = said \cup {n}
  /\ UNCHANGED <<frames, procs, ends, svc, engines, polls, rtcCalls, rtcFaults, rtcRaced>>

ToggleMute ==
  /\ hook.shown /\ hook.rtc /\ hook.active /\ hook.phase = "connected" /\ hook.engine # 0
  /\ LET now == engines[hook.engine]
     IN /\ now \in {"live", "muted"}
        /\ engines' = [engines EXCEPT ![hook.engine] = IF now = "live" THEN "muted" ELSE "live"]
  /\ UNCHANGED <<frames, hook, procs, ends, svc, polls, rtcCalls, rtcFaults, history>>

(* submitTranscript has nothing to post when nothing was said.             *)
FirstOf(w) == IF w = {} THEN "stop" ELSE "post"

(* What there is to post.  A call in the store is joined in the same turn  *)
(* of the page that hangs up, before endCall looks at the transcript, and  *)
(* joining empties it.                                                     *)
Collected == IF hook.incoming = 0 THEN hook.words ELSE {}

(* A bug: hanging up leaves the room's engine running.                     *)
EndRtcCallWithoutCleanup ==
  /\ hook.shown /\ hook.rtc /\ hook.active
  /\ hook' = [hook EXCEPT !.active = FALSE, !.phase = "ended", !.engine = 0,
                          !.words = IF hook.info = 0 THEN {} ELSE @]
  /\ ends' = IF hook.info = 0 THEN ends
             ELSE ends \cup {[room |-> hook.info, words |-> Collected, at |-> FirstOf(Collected)]}
  /\ rtcRaced' = (rtcRaced \/ procs # {} \/ hook.incoming # 0)
  /\ UNCHANGED <<frames, engines, procs, svc, polls, said, rtcCalls, rtcFaults>>

EndRtcCall ==
  /\ hook.shown /\ hook.rtc /\ hook.active
  /\ hook' = [hook EXCEPT !.active = FALSE, !.phase = "ended", !.engine = 0,
                          !.words = IF hook.info = 0 THEN {} ELSE @]
  /\ engines' = Left
  /\ ends' = IF hook.info = 0 THEN ends
             ELSE ends \cup {[room |-> hook.info, words |-> Collected, at |-> FirstOf(Collected)]}
  /\ rtcRaced' = (rtcRaced \/ procs # {} \/ hook.incoming # 0)
  /\ UNCHANGED <<frames, procs, svc, polls, said, rtcCalls, rtcFaults>>

(* The transcript is posted, unless the request is lost.                   *)
SubmitTranscript(e) ==
  /\ e \in ends /\ e.at = "post"
  /\ ends' = (ends \ {e}) \cup {[e EXCEPT !.at = "stop"]}
  /\ \/ svc' = SetTranscript(e.room, e.words) /\ UNCHANGED rtcFaults
     \/ rtcFaults < MaxRtcFaults /\ rtcFaults' = rtcFaults + 1 /\ UNCHANGED svc
  /\ UNCHANGED <<frames, hook, procs, engines, polls, rtcCalls, history>>

(* The session is stopped, and with the answer the refs are cleared: those *)
(* of a call begun meanwhile too.                                          *)
StopSession(e) ==
  /\ e \in ends /\ e.at = "stop"
  /\ ends' = ends \ {e}
  /\ hook' = [hook EXCEPT !.info = 0, !.words = {}]
  /\ \/ svc' = StopVoiceChat(svc, e.room) /\ Resolve(e.room, svc') /\ UNCHANGED rtcFaults
     \/ rtcFaults < MaxRtcFaults /\ rtcFaults' = rtcFaults + 1 /\ UNCHANGED <<svc, polls>>
  /\ UNCHANGED <<frames, procs, engines, rtcCalls, history>>

(* The view is left: an active call leaves its room, and no more.          *)
Unmount ==
  /\ hook.shown
  /\ hook' = [hook EXCEPT !.shown = FALSE, !.engine = IF hook.active THEN 0 ELSE @]
  /\ frames' = {f \in frames : f.socket # "chat"}
  /\ engines' = IF hook.active THEN Left ELSE engines
  /\ rtcRaced' = (rtcRaced \/ procs # {} \/ hook.active)
  /\ UNCHANGED <<procs, ends, svc, polls, said, rtcCalls, rtcFaults>>

(* The view is shown again, once what it had begun is over.                *)
Remount ==
  /\ ~hook.shown /\ procs = {} /\ ends = {}
  /\ hook' = HookMounted(hook.incoming)
  /\ UNCHANGED <<frames, procs, ends, svc, engines, polls, rtcCalls, rtcFaults, history>>

RtcConfigured ==
  /\ hook.shown /\ ~hook.rtc
  /\ hook' = [hook EXCEPT !.rtc = TRUE]
  /\ UNCHANGED <<frames, procs, ends, svc, engines, polls, rtcCalls, rtcFaults, history>>

-----------------------------------------------------------------------------
User == StartRtcCall \/ EndRtcCall \/ ToggleMute \/ Unmount \/ Remount
Proceed == \E p \in procs : ServeStart(p) \/ CreateEngine(p) \/ JoinRoom(p) \/ StartCapture(p) \/ Catch(p)
Finish == \E e \in ends : SubmitTranscript(e) \/ StopSession(e)
Waits == \E n \in DOMAIN svc : WaitTimesOut(n)

RtcNext ==
  \/ User \/ Ring \/ RtcConfigured \/ JoinCall \/ Proceed \/ Finish \/ Waits
  \/ \E f \in frames : FrameArrives(f)
  \/ \E n \in DOMAIN svc : Subtitle(n)

RtcSpec == RtcInit /\ [][RtcNext]_rtcVars

-----------------------------------------------------------------------------
(* A microphone is published only by the call that is shown, unless calls  *)
(* crossed.  The crossings excused are those the code does not guard: a    *)
(* call hung up, or begun, while another was still connecting or ending; a *)
(* view left in mid-call; a call joined before the view knew of RTC; a     *)
(* room joined twice, as the second socket's frame makes the view do; a    *)
(* call hung up while another one is in the store.                         *)
MicOnlyInCallUnlessRaced ==
  \A n \in Rooms :
    engines[n] = "live" => (hook.shown /\ hook.rtc /\ hook.active /\ hook.engine = n) \/ rtcRaced

(* An agent that waited until the end of its call gets what was said in    *)
(* it, unless a request was lost or calls crossed, as above.               *)
WaiterHearsTheCallUnlessLost ==
  \A n \in Rooms : polls[n].st = "heard" /\ n \in said => n \in polls[n].got \/ rtcRaced \/ rtcFaults > 0

(* What a call promises its two sides, part by part.                       *)
CallIsSoundUnlessCrossed == MicOnlyInCallUnlessRaced /\ WaiterHearsTheCallUnlessLost
=============================================================================
