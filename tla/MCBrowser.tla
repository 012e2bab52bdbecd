---- MODULE MCBrowser ----
(***************************************************************************)
(* The web interface and its server, each on its own small instance: one   *)
(* page with its two sockets and one that replaces either, the button that *)
(* is held to talk, the two views of a hands-free conversation, calls over *)
(* RTC, and the page and the panel that show the documents of MetaMemory.  *)
(* A behaviour is of one of them (part); the variables of the others keep  *)
(* an initial state.                                                       *)
(***************************************************************************)
EXTENDS WebChat, HoldToTalk, HandsFree, RtcCalls, MemoryBrowser, TLC

CONSTANTS MaxTyped, MaxUnderWay, MaxDocEvents

VARIABLE part   \* which of them this behaviour is of
allVars == <<part, chatVars, vars, handsVars, rtcVars, pagesVars>>

chatOff == ChatInit /\ ~isGroup /\ session = <<>>
buttonOff == Init /\ ui = Mounted(TRUE) /\ configured
handsOff == HandsInit
rtcOff == RtcInit
pagesOff == PagesInit

BrowserInit ==
  \/ part = "chat" /\ ChatInit /\ buttonOff /\ handsOff /\ rtcOff /\ pagesOff
  \/ part = "button" /\ Init /\ chatOff /\ handsOff /\ rtcOff /\ pagesOff
  \/ part = "hands" /\ HandsInit /\ chatOff /\ buttonOff /\ rtcOff /\ pagesOff
  \/ part = "rtc" /\ RtcInit /\ chatOff /\ buttonOff /\ handsOff /\ pagesOff
  \/ part = "pages" /\ PagesInit /\ chatOff /\ buttonOff /\ handsOff /\ rtcOff

BrowserNext ==
  /\ part' = part
  /\ \/ part = "chat" /\ ChatNext /\ UNCHANGED <<vars, handsVars, rtcVars, pagesVars>>
     \/ part = "button" /\ Next /\ UNCHANGED <<chatVars, handsVars, rtcVars, pagesVars>>
     \/ part = "hands" /\ HandsNext /\ UNCHANGED <<chatVars, vars, rtcVars, pagesVars>>
     \/ part = "rtc" /\ RtcNext /\ UNCHANGED <<chatVars, vars, handsVars, pagesVars>>
     \/ part = "pages" /\ PagesNext /\ UNCHANGED <<chatVars, vars, handsVars, rtcVars>>

BrowserSpec == BrowserInit /\ [][BrowserNext]_allVars

\* Documents are interchangeable.
Symmetry == Permutations(Docs)

\* What is under way on the sockets of the page, and what the user types and what
\* goes wrong together, are bounded; so are the presses of the button with what
\* fails, the rooms of the calls with what fails, and what the page, the panel and
\* the other clients of MetaMemory do together.  A turn is begun again only while
\* its message is the only one.  Page and panel meet only in the server: no state
\* has both at work.  Hands and calls that crossed are excused for good, and
\* followed no further.
UnderWay == MapThenSumSet(LAMBDA k : IF conns[k] = Null THEN 0 ELSE Len(conns[k].up) + Len(conns[k].down), Conns)
Bounds ==
  /\ part = "chat" => sent + events <= MaxTyped /\ UnderWay <= MaxUnderWay
                      /\ \A id \in Ids : task[id] # Null /\ task[id].again => sent = 1
  /\ part = "button" => presses + faults <= 2
  /\ part = "hands" => ~handsRaced
  /\ part = "rtc" => Len(svc) + rtcFaults <= 3 /\ ~rtcRaced
  /\ part = "pages" => writes + clicks <= MaxDocEvents /\ (panel.asked = None \/ docPage = InitialPage)
=============================================================================
