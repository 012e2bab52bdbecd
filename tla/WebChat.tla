------------------------------- MODULE WebChat -------------------------------
(***************************************************************************)
(* One chat of the web interface, from the page's store to the task and    *)
(* back: web/src/store.ts, useWebSocket.ts and ChatView.tsx in the         *)
(* browser, web/ws-server.ts and executeApiTask of message-bridge.ts in    *)
(* the server.                                                             *)
(*                                                                         *)
(* Every component that uses the hook useWebSocket opens a socket of its   *)
(* own: the layout's lasts as long as the page, the chat view's as long as *)
(* the view is shown.  A connection is two FIFO channels; when the link    *)
(* breaks what is in them is lost, and each side notices in its own time.  *)
(* The store outlives a reload.  Message ids count the messages sent.      *)
(***************************************************************************)
EXTENDS Integers, FiniteSets, Sequences, SequencesExt

CONSTANTS
  MaxConns,    \* bound: sockets the page opens
  MaxSends,    \* bound: messages typed
  MaxEvents,   \* bound: clicks, breaks, navigations and reloads
  OldEntries,  \* transcripts the server may have of the chat: their lengths
  Null

\* What the page sends on a connection and what the server sends, a connection,
\* a message of the page and a task of the server.
States == {"thinking", "running", "waiting", "complete", "error"}
Request ==
  [type : {"chat"}, id : 1..MaxSends, fit : BOOLEAN] \cup [type : {"answer"}, id : 1..MaxSends]
  \cup [type : {"stop", "subscribe_group", "delete_group", "list_sessions", "get_session_history", "delete_session"}]
Reply ==
  [type : {"state"}, id : 1..MaxSends, st : States] \cup [type : {"error"}, id : 0..MaxSends]
  \cup [type : {"sessions_list"}, listed : BOOLEAN] \cup [type : {"session_history"}, n : Nat]
  \cup [type : {"connected", "notice", "session_deleted"}]
Connection == [up : Seq(Request), down : Seq(Reply), alive : BOOLEAN, open : BOOLEAN, left : BOOLEAN, knows : BOOLEAN]
ChatRow    == [id : 0..MaxSends, kind : {"user", "assistant", "notice"}, st : States]
ChatTask ==
  [conn : 1..MaxConns, phase : {"starting", "running", "asking", "outputs", "done"}, stopped : BOOLEAN,
   said : BOOLEAN, asked : BOOLEAN, again : BOOLEAN]

ASSUME ChatAssumption ==
  /\ MaxConns \in Nat \ {0, 1} /\ MaxSends \in Nat /\ MaxEvents \in Nat /\ OldEntries \subseteq Nat
  /\ Null \notin Nat /\ Null \notin Connection /\ Null \notin ChatTask /\ Null \notin Seq(ChatRow)

VARIABLES
  isGroup,   \* whether the session is a group's
  session,   \* the page's messages, or Null: the page has no such session
  mounted,   \* the hooks whose component is shown
  sock,      \* the connection each hook holds, 0 for none
  conns,     \* the connections
  subs,      \* connections subscribed to the chat
  pending,   \* questions that can be answered: <<connection, message>>
  task,      \* the task of each message, Null before it has one
  running,   \* the message of the chat's entry in runningTasks, 0 for none
  row,       \* entries of the server's transcript, Null without a session
  grouped,   \* whether the server still has the group
  sent, events,
  excused,   \* history: messages the code is known to leave waiting
  overlap,   \* history: whether two tasks of the chat ran at once
  doubled    \* history: whether both of the page's sockets were subscribed

pageVars == <<isGroup, session, mounted, sock, sent, events>>
serverVars == <<subs, pending, task, running, row, grouped>>
ghosts == <<excused, overlap, doubled>>
chatVars == <<pageVars, conns, serverVars, ghosts>>

Hooks == {"layout", "view"}
Conns == 1..MaxConns
Ids   == 1..MaxSends
Open  == {k \in Conns : conns[k] # Null /\ conns[k].open}
Held  == {sock[h] : h \in Hooks} \ {0}

ChatMessage(id, kind, st) == [id |-> id, kind |-> kind, st |-> st]
Thinking == {"thinking", "running"}
InProgress == IF session = Null THEN {}
  ELSE {m.id : m \in {m \in ToSet(session) : m.st \in Thinking \cup {"waiting"}}}

Fresh(up) == [up |-> up, down |-> <<[type |-> "connected"]>>,
              alive |-> TRUE, open |-> TRUE, left |-> FALSE, knows |-> FALSE]

Up(cs, k, m) == IF k # 0 THEN [cs EXCEPT ![k].up = IF cs[k].alive THEN Append(@, m) ELSE @] ELSE cs

\* The server sends to sockets it believes open; a broken link loses it, as
\* does one whose page has left.
Hears(c) == c # Null /\ c.open /\ c.alive /\ ~c.left

Deliver(cs, to, m) ==
  [k \in Conns |-> IF k \in to /\ Hears(cs[k]) THEN [cs[k] EXCEPT !.down = Append(@, m)] ELSE cs[k]]

DeliverAll(cs, to, ms) ==
  [k \in Conns |-> IF k \in to /\ Hears(cs[k]) THEN [cs[k] EXCEPT !.down = @ \o ms] ELSE cs[k]]

-----------------------------------------------------------------------------
(* The store *)

SetState(s, id, st) ==
  IF s = Null THEN s ELSE [i \in DOMAIN s |-> IF s[i].id = id /\ s[i].kind = "assistant"
                                              THEN [s[i] EXCEPT !.st = st] ELSE s[i]]

MarkRunningDisconnected(s) ==
  IF s = Null THEN s ELSE [i \in DOMAIN s |-> IF s[i].kind = "assistant" /\ s[i].st \in Thinking
                                              THEN [s[i] EXCEPT !.st = "error"] ELSE s[i]]

MergeServerSessions(s, listed) == IF s = Null /\ listed THEN <<>> ELSE s

LoadServerHistory(s, n) ==
  IF s = Null THEN s
  ELSE IF Len(s) >= n THEN s
  ELSE [i \in 1..n |-> ChatMessage(0, IF i % 2 = 1 THEN "user" ELSE "assistant", "complete")]

-----------------------------------------------------------------------------
(* The page: sockets *)

Shared == IF isGroup /\ session # Null THEN <<[type |-> "subscribe_group"]>> ELSE <<>>

Connect(h) ==
  /\ h \in mounted /\ sock[h] = 0
  /\ \E k \in Conns :
       /\ conns[k] = Null /\ \A j \in Conns : conns[j] = Null => k <= j
       /\ conns' = [conns EXCEPT ![k] = Fresh(Shared)]
       /\ sock' = [sock EXCEPT ![h] = k]
  /\ UNCHANGED <<isGroup, session, mounted, sent, events, serverVars, ghosts>>

Trouble == events < MaxEvents /\ events' = events + 1

Break(k) ==
  /\ Trouble
  /\ k \in Held /\ conns[k].alive
  /\ conns' = [conns EXCEPT ![k].alive = FALSE, ![k].up = <<>>, ![k].down = <<>>]
  /\ excused' = excused \cup {m.id : m \in {m \in IF session = Null THEN {} ELSE ToSet(session) : m.st = "waiting"}}
  /\ UNCHANGED <<isGroup, session, mounted, sock, sent, serverVars, overlap, doubled>>

OnClose(h) ==
  /\ sock[h] # 0 /\ ~conns[sock[h]].alive
  /\ session' = MarkRunningDisconnected(session)
  /\ sock' = [sock EXCEPT ![h] = 0]
  /\ UNCHANGED <<isGroup, mounted, sent, events, conns, serverVars, ghosts>>

\* A message whose request is still on a socket.
Carried(k) == {id \in Ids : \E m \in ToSet(conns[k].up) : m.type = "chat" /\ m.id = id}

\* cleanup takes the handlers off before it closes, so nothing is marked.  A
\* request on its way is served after that: it may be of a message that is
\* over on the page, which the server's first word brings back.
CloseSockets(hs) ==
  /\ conns' = [k \in Conns |-> IF k \in {sock[h] : h \in hs} THEN [conns[k] EXCEPT !.left = TRUE, !.down = <<>>] ELSE conns[k]]
  /\ sock' = [h \in Hooks |-> IF h \in hs THEN 0 ELSE sock[h]]
  /\ excused' = excused \cup InProgress \cup UNION {Carried(sock[h]) : h \in {h \in hs : sock[h] # 0}}
  /\ UNCHANGED <<isGroup, session, sent, serverVars, overlap, doubled>>

LeaveChatView == Trouble /\ "view" \in mounted /\ mounted' = mounted \ {"view"} /\ CloseSockets({"view"})
Reload        == Trouble /\ mounted' = Hooks /\ CloseSockets(mounted)

ShowChatView ==
  /\ "view" \notin mounted /\ mounted' = Hooks
  /\ UNCHANGED <<isGroup, session, sock, sent, events, conns, serverVars, ghosts>>

-----------------------------------------------------------------------------
(* The page: what the user does *)

\* "fit" says whether the server has the bot itself and, in a group, whether
\* the text names a member.
HandleSend(fit) ==
  /\ "view" \in mounted /\ session # Null /\ sent < MaxSends
  /\ LET id == sent + 1 IN
       /\ session' = session \o <<ChatMessage(id, "user", "complete"), ChatMessage(id, "assistant", "thinking")>>
       /\ conns' = Up(conns, sock["view"], [type |-> "chat", id |-> id, fit |-> fit])
       /\ excused' = IF sock["view"] = 0 THEN excused \cup {id} ELSE excused
  /\ sent' = sent + 1
  /\ UNCHANGED <<isGroup, mounted, sock, events, serverVars, overlap, doubled>>

HandleStop ==
  /\ Trouble
  /\ "view" \in mounted /\ session # Null /\ session # <<>> /\ Last(session).st \in Thinking
  /\ session' = SetState(session, Last(session).id, "error")
  /\ conns' = Up(conns, sock["view"], [type |-> "stop"])
  /\ UNCHANGED <<isGroup, mounted, sock, sent, serverVars, ghosts>>

HandleAnswer(id) ==
  /\ Trouble
  /\ "view" \in mounted /\ session # Null
  /\ \E m \in ToSet(session) : m.id = id /\ m.st = "waiting"
  /\ conns' = Up(conns, sock["view"], [type |-> "answer", id |-> id])
  /\ UNCHANGED <<isGroup, session, mounted, sock, sent, serverVars, ghosts>>

HandleDeleteSession ==
  /\ Trouble
  /\ session # Null /\ session' = Null
  /\ conns' = Up(conns, sock["layout"], [type |-> "delete_session"])
  /\ UNCHANGED <<isGroup, mounted, sock, sent, serverVars, ghosts>>

HandleDeleteGroup ==
  /\ Trouble
  /\ isGroup
  /\ conns' = Up(conns, sock["layout"], [type |-> "delete_group"])
  /\ UNCHANGED <<isGroup, session, mounted, sock, sent, serverVars, ghosts>>

-----------------------------------------------------------------------------
(* The page: what it is sent *)

Sends(k, m) == Up([conns EXCEPT ![k].down = Tail(@)], k, m)
Received(k)    == [conns EXCEPT ![k].down = Tail(@)]

OnConnected(k, m) ==
  /\ m.type = "connected" /\ conns' = Sends(k, [type |-> "list_sessions"]) /\ UNCHANGED session

OnSessionsList(k, m) ==
  /\ m.type = "sessions_list"
  /\ session' = MergeServerSessions(session, m.listed)
  /\ conns' = IF session' = <<>> /\ m.listed THEN Sends(k, [type |-> "get_session_history"]) ELSE Received(k)

OnSessionHistory(k, m) ==
  /\ m.type = "session_history" /\ session' = LoadServerHistory(session, m.n) /\ conns' = Received(k)

OnState(k, m) ==
  /\ m.type = "state" /\ session' = SetState(session, m.id, m.st) /\ conns' = Received(k)

\* An error that names no message changes none.
OnError(k, m) ==
  /\ m.type = "error"
  /\ session' = IF m.id = 0 THEN session ELSE SetState(session, m.id, "error")
  /\ conns' = Received(k)

OnNotice(k, m) ==
  /\ m.type = "notice" /\ conns' = Received(k)
  /\ session' = IF session = Null THEN Null ELSE Append(session, ChatMessage(0, "notice", "complete"))

OnSessionDeleted(k, m) == m.type = "session_deleted" /\ session' = Null /\ conns' = Received(k)

OnMessage(h) ==
  /\ sock[h] # 0 /\ conns[sock[h]].down # <<>>
  /\ LET k == sock[h]  m == Head(conns[k].down) IN
       \/ OnConnected(k, m) \/ OnSessionsList(k, m) \/ OnSessionHistory(k, m) \/ OnState(k, m)
       \/ OnError(k, m) \/ OnNotice(k, m) \/ OnSessionDeleted(k, m)
  /\ UNCHANGED <<isGroup, mounted, sock, sent, events, serverVars, ghosts>>

-----------------------------------------------------------------------------
(* The server: updates of a task *)

\* To the chat's subscribers, and without any to the socket it came over; in
\* a group to nobody once that socket is closed.
GroupReceivers(k, open, watching) == IF k \in open THEN watching ELSE {}
ChatReceivers(k, open, watching)  == IF watching # {} THEN watching ELSE {k} \cap open
Receivers(k, open, watching) ==
  IF isGroup THEN GroupReceivers(k, open, watching) ELSE ChatReceivers(k, open, watching)

State(id, st) == [type |-> "state", id |-> id, st |-> st]

Updates(id, cs, st) == Deliver(cs, Receivers(task[id].conn, Open, subs), State(id, st))

Finals(k, ids, cs, open, watching, st) ==
  LET order == SetToSeq(ids)
  IN DeliverAll(cs, Receivers(k, open, watching), [i \in 1..Len(order) |-> State(order[i], st)])

-----------------------------------------------------------------------------
(* The server: executeApiTask *)

Live(id)   == task[id] # Null /\ task[id].phase # "done"
AtWork(id) == Live(id) /\ task[id].phase # "starting"

Begins(k, id) ==
  /\ task' = [task EXCEPT ![id] = [conn |-> k, phase |-> "starting", stopped |-> FALSE, said |-> FALSE, asked |-> FALSE,
                                   again |-> FALSE]]
  /\ overlap' = (overlap \/ \E i \in Ids : Live(i))

\* A turn is made ready before the chat is taken, so that two may be.
TaskRegisters(id) ==
  /\ Live(id) /\ task[id].phase = "starting"
  /\ task' = [task EXCEPT ![id].phase = "running"]
  /\ running' = id
  /\ UNCHANGED <<pageVars, conns, subs, pending, row, grouped, ghosts>>

\* Slip: the error does not say which message it is about.
TaskStartFailsUnnamed(id) ==
  /\ Live(id) /\ task[id].phase = "starting"
  /\ task' = [task EXCEPT ![id].phase = "done"]
  /\ conns' = Deliver(conns, {task[id].conn}, [type |-> "error", id |-> 0])
  /\ UNCHANGED <<pageVars, subs, pending, running, row, grouped, ghosts>>

TaskStartFails(id) ==
  /\ Live(id) /\ task[id].phase = "starting"
  /\ task' = [task EXCEPT ![id].phase = "done"]
  /\ conns' = Deliver(conns, {task[id].conn}, [type |-> "error", id |-> id])
  /\ UNCHANGED <<pageVars, subs, pending, running, row, grouped, ghosts>>

\* What a task says while it goes on.  The retry loops clear no question: once
\* one came, every word is that the task waits.
Word(id) == IF task[id].again /\ task[id].asked THEN "waiting" ELSE "running"

TaskStreams(id) ==
  /\ Live(id) /\ task[id].phase = "running" /\ ~task[id].stopped /\ ~task[id].said
  /\ task' = [task EXCEPT ![id].said = TRUE]
  /\ conns' = Updates(id, conns, Word(id))
  /\ UNCHANGED <<pageVars, subs, pending, running, row, grouped, ghosts>>

OnQuestion(k, id) == pending' = pending \cup {<<k, id>>}

TaskAsks(id) ==
  /\ Live(id) /\ task[id].phase = "running" /\ ~task[id].stopped /\ ~task[id].asked /\ ~task[id].again
  /\ task' = [task EXCEPT ![id].phase = "asking", ![id].asked = TRUE]
  /\ conns' = Updates(id, conns, "waiting")
  /\ OnQuestion(task[id].conn, id)
  /\ UNCHANGED <<pageVars, subs, running, row, grouped, ghosts>>

\* The session was stale or its context full: the turn begins again in a new one,
\* and another loop reads it.
TaskRetries(id) ==
  /\ Live(id) /\ task[id].phase = "running" /\ ~task[id].again
  /\ task' = [task EXCEPT ![id].again = TRUE, ![id].asked = FALSE, ![id].said = FALSE]
  /\ UNCHANGED <<pageVars, conns, subs, pending, running, row, grouped, ghosts>>

\* That loop shows a question and calls no onQuestion: no answer is awaited.
TaskShowsQuestion(id) ==
  /\ Live(id) /\ task[id].phase = "running" /\ ~task[id].stopped /\ ~task[id].asked /\ task[id].again
  /\ task' = [task EXCEPT ![id].phase = "asking", ![id].asked = TRUE]
  /\ conns' = Updates(id, conns, "waiting")
  /\ UNCHANGED <<pageVars, subs, pending, running, row, grouped, ghosts>>

\* The turn goes on when the hook's own time is up, or it is stopped.
HookGivesUp(id) ==
  /\ Live(id) /\ task[id].phase = "asking" /\ task[id].again
  /\ task' = [task EXCEPT ![id].phase = "running", ![id].said = FALSE]
  /\ UNCHANGED <<pageVars, conns, subs, pending, running, row, grouped, ghosts>>

Resumes(k, id) ==
  /\ pending' = pending \ {<<k, id>>}
  /\ task' = IF task[id].phase = "asking" THEN [task EXCEPT ![id].phase = "running", ![id].said = FALSE] ELSE task

QuestionTimesOut(id) ==
  /\ Live(id) /\ <<task[id].conn, id>> \in pending
  /\ Resumes(task[id].conn, id)
  /\ UNCHANGED <<pageVars, conns, subs, running, row, grouped, ghosts>>

\* A task says its last word before its files are sent and the chat is free.
TaskEnds(id, st) ==
  /\ Live(id) /\ task[id].phase = "running" /\ (task[id].stopped => st = "error")
  /\ task' = [task EXCEPT ![id].phase = "outputs"]
  /\ conns' = Updates(id, conns, st)
  /\ UNCHANGED <<pageVars, subs, pending, running, row, grouped, excused, overlap, doubled>>

Frees == running' = 0

Recorded == IF row = Null THEN 2 ELSE row + 2

OutputsSent(id) ==
  /\ Live(id) /\ task[id].phase = "outputs"
  /\ task' = [task EXCEPT ![id].phase = "done"]
  /\ row' = IF isGroup THEN row ELSE Recorded
  /\ Frees
  /\ UNCHANGED <<pageVars, conns, subs, pending, grouped, ghosts>>

\* What throws after the last word has a second one said: the task failed.
OutputsFail(id) ==
  /\ Live(id) /\ task[id].phase = "outputs"
  /\ task' = [task EXCEPT ![id].phase = "done"]
  /\ conns' = Updates(id, conns, "error")
  /\ excused' = excused \cup {id}
  /\ Frees
  /\ UNCHANGED <<pageVars, subs, pending, row, grouped, overlap, doubled>>

-----------------------------------------------------------------------------
(* The server: what it is sent *)

\* A chat that is busy refuses the task, and nobody reads the refusal.
HandleChat(k, cs, m) ==
  /\ m.type = "chat" /\ ~isGroup
  /\ subs' = subs \cup {k}
  /\ LET known == [cs EXCEPT ![k].knows = TRUE] IN
       CASE ~m.fit -> /\ conns' = Deliver(known, {k}, [type |-> "error", id |-> 0])
                      /\ excused' = excused \cup {m.id} /\ UNCHANGED <<task, overlap>>
         [] m.fit /\ running # 0 -> /\ conns' = known /\ excused' = excused \cup {m.id}
                                    /\ UNCHANGED <<task, overlap>>
         [] OTHER -> /\ Begins(k, m.id) /\ UNCHANGED excused
                     /\ conns' = Deliver(known, subs', State(m.id, "thinking"))
  /\ UNCHANGED <<pending, running, row, grouped, doubled>>

\* Both sockets of a page can be subscribed to a group, and what one of them
\* brings late undoes what the other has brought.
Doubles == doubled' = (doubled \/ (Held \subseteq subs' /\ Cardinality(Held) = 2))

HandleGroupChat(k, cs, m) ==
  /\ m.type = "chat" /\ isGroup
  /\ IF m.fit /\ grouped
     THEN /\ subs' = subs \cup {k}
          /\ IF running # 0 THEN conns' = cs /\ excused' = excused \cup {m.id} /\ UNCHANGED <<task, overlap>>
             ELSE /\ Begins(k, m.id) /\ UNCHANGED excused
                  /\ conns' = Deliver(cs, subs', State(m.id, "thinking"))
     ELSE /\ conns' = Deliver(cs, {k}, [type |-> "error", id |-> 0])
          /\ excused' = excused \cup {m.id}
          /\ UNCHANGED <<subs, task, overlap>>
  /\ Doubles
  /\ UNCHANGED <<pending, running, row, grouped>>

\* Only a socket that has carried a message of the chat knows its bot.
HandleStopRequest(k, cs, m) ==
  /\ m.type = "stop"
  /\ IF ~cs[k].knows THEN conns' = Deliver(cs, {k}, [type |-> "error", id |-> 0]) /\ UNCHANGED task
     ELSE /\ conns' = Deliver(cs, {k}, [type |-> "notice"])
          /\ task' = IF running = 0 THEN task ELSE [task EXCEPT ![running].stopped = TRUE]
  /\ UNCHANGED <<subs, pending, running, row, grouped, ghosts>>

HandleAnswerRequest(k, cs, m) ==
  /\ m.type = "answer" /\ conns' = cs
  /\ IF <<k, m.id>> \in pending THEN Resumes(k, m.id) ELSE UNCHANGED <<pending, task>>
  /\ UNCHANGED <<subs, running, row, grouped, ghosts>>

SubscribeGroup(k, cs, m) ==
  /\ m.type = "subscribe_group" /\ conns' = cs
  /\ subs' = IF grouped THEN subs \cup {k} ELSE subs
  /\ Doubles
  /\ UNCHANGED <<pending, task, running, row, grouped, excused, overlap>>

DeleteGroup(k, cs, m) ==
  /\ m.type = "delete_group" /\ grouped' = FALSE
  /\ conns' = IF grouped THEN cs ELSE Deliver(cs, {k}, [type |-> "error", id |-> 0])
  /\ UNCHANGED <<subs, pending, task, running, row, ghosts>>

ListSessions(k, cs, m) ==
  /\ m.type = "list_sessions"
  /\ conns' = Deliver(cs, {k}, [type |-> "sessions_list", listed |-> row # Null])
  /\ UNCHANGED <<serverVars, ghosts>>

GetSessionHistory(k, cs, m) ==
  /\ m.type = "get_session_history"
  /\ conns' = Deliver(cs, {k}, [type |-> "session_history", n |-> IF row = Null THEN 0 ELSE row])
  /\ UNCHANGED <<serverVars, ghosts>>

DeleteSession(k, cs, m) ==
  /\ m.type = "delete_session" /\ row' = Null
  /\ conns' = IF row = Null THEN cs ELSE Deliver(cs, {k}, [type |-> "session_deleted"])
  /\ UNCHANGED <<subs, pending, task, running, grouped, ghosts>>

ServeMessage(k) ==
  /\ k \in Open /\ conns[k].up # <<>>
  /\ LET m == Head(conns[k].up)  cs == [conns EXCEPT ![k].up = Tail(@)] IN
       \/ HandleChat(k, cs, m) \/ HandleGroupChat(k, cs, m) \/ HandleStopRequest(k, cs, m)
       \/ HandleAnswerRequest(k, cs, m) \/ SubscribeGroup(k, cs, m) \/ DeleteGroup(k, cs, m)
       \/ ListSessions(k, cs, m) \/ GetSessionHistory(k, cs, m) \/ DeleteSession(k, cs, m)
  /\ UNCHANGED pageVars

Shut(c) == [c EXCEPT !.open = FALSE, !.up = <<>>, !.knows = FALSE]

\* A question that waits on the socket is rejected, which fails its task.
Close(k) ==
  /\ k \in Open /\ (~conns[k].alive \/ (conns[k].left /\ conns[k].up = <<>>))
  /\ LET failed == {id \in Ids : <<k, id>> \in pending /\ task[id].phase = "asking"} IN
       /\ task' = [id \in Ids |-> IF id \in failed THEN [task[id] EXCEPT !.phase = "done"] ELSE task[id]]
       /\ running' = IF failed = {} THEN running ELSE 0
       /\ conns' = Finals(k, failed, [conns EXCEPT ![k] = Shut(@)], Open \ {k}, subs \ {k}, "error")
  /\ excused' = IF isGroup THEN excused \cup {id \in Ids : Live(id) /\ task[id].conn = k} ELSE excused
  /\ subs' = subs \ {k}
  /\ pending' = {q \in pending : q[1] # k}
  /\ UNCHANGED <<pageVars, row, grouped, overlap, doubled>>

-----------------------------------------------------------------------------
\* A page in use, with a session of its own or a group's, or a page just
\* opened on a chat it does not have and the server does.
InUse ==
  /\ session = <<>> /\ row = Null
  /\ sock = [h \in Hooks |-> IF h = "layout" THEN 1 ELSE 2]
  /\ conns = [k \in Conns |-> IF k \in {1, 2} THEN [Fresh(<<>>) EXCEPT !.down = <<>>] ELSE Null]
  /\ subs = {}

Opened ==
  /\ ~isGroup /\ session = Null /\ row \in OldEntries
  /\ sock = [h \in Hooks |-> 0]
  /\ conns = [k \in Conns |-> Null]
  /\ subs = {}

ChatInit ==
  /\ isGroup \in BOOLEAN /\ grouped = isGroup
  /\ InUse \/ Opened
  /\ mounted = Hooks /\ pending = {}
  /\ task = [id \in Ids |-> Null] /\ running = 0
  /\ sent = 0 /\ events = 0 /\ excused = {}
  /\ overlap = FALSE /\ doubled = FALSE

ChatNext ==
  \/ \E h \in Hooks : Connect(h) \/ OnClose(h) \/ OnMessage(h)
  \/ \E k \in Conns : Break(k) \/ ServeMessage(k) \/ Close(k)
  \/ \E fit \in BOOLEAN : HandleSend(fit)
  \/ LeaveChatView \/ ShowChatView \/ Reload \/ HandleStop \/ HandleDeleteSession \/ HandleDeleteGroup
  \/ \E id \in Ids :
       \/ HandleAnswer(id) \/ TaskRegisters(id) \/ TaskStartFails(id) \/ TaskStreams(id) \/ TaskAsks(id)
       \/ TaskRetries(id) \/ TaskShowsQuestion(id) \/ HookGivesUp(id)
       \/ QuestionTimesOut(id) \/ OutputsSent(id) \/ OutputsFail(id)
       \/ \E st \in {"complete", "error"} : TaskEnds(id, st)

ChatSpec == ChatInit /\ [][ChatNext]_chatVars

-----------------------------------------------------------------------------
(* Properties *)

OnItsWay(k, id) ==
  /\ conns[k].alive
  /\ \/ \E m \in ToSet(conns[k].up) : m.type = "chat" /\ m.id = id
     \/ \E m \in ToSet(conns[k].down) : m.type \in {"state", "error"} /\ m.id = id
                                         /\ (m.type = "state" => m.st \in {"complete", "error"})

\* A message the page shows as thinking, running or waiting for an answer
\* still has something coming: its request or its last word is under way,
\* its task is alive and reaches a socket the page holds, or a socket broke
\* and the page will mark it when it notices.  Excused are the messages the
\* code leaves behind: typed without a socket, refused, or left by a view.
WaitingIsServedUnlessExcused ==
  doubled \/ \A id \in InProgress \ excused :
    \/ \E k \in Held : ~conns[k].alive
    \/ \E k \in Held : OnItsWay(k, id)
    \/ Live(id) /\ task[id].phase # "outputs"
       /\ (Held \cap Receivers(task[id].conn, Open, subs) # {} \/ (task[id].phase = "starting" /\ task[id].conn \in Held))

\* A task that waits for an answer can be given one: its question is held by
\* its socket with the timer that gives up on it.  Not so in a turn that was
\* begun again: the page shows its question, the click is dropped, and the user
\* waits until the hook gives up on an answer (message-bridge.ts 2417-2448).
AskingCanResumeUnlessRetried ==
  \A id \in Ids : Live(id) /\ task[id].phase = "asking" /\ ~task[id].again => <<task[id].conn, id>> \in pending

\* A task at work is the chat's entry in runningTasks, so that it can be
\* stopped and no other starts.  Excused are tasks that were made ready at
\* the same time.
AtWorkIsEnteredUnlessOverlapped == overlap \/ \A id \in Ids : AtWork(id) <=> running = id

\* A message of the page and the server's task for it, part by part.
ChatIsSoundUnlessExcused ==
  WaitingIsServedUnlessExcused /\ AskingCanResumeUnlessRetried /\ AtWorkIsEnteredUnlessOverlapped
=============================================================================
