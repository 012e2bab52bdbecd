----------------------------- MODULE WechatBot -----------------------------
(***************************************************************************)
(* The WeChat bot (wechat/wechat-bot.ts, wechat-client.ts and              *)
(* wechat-sender.ts): how it gets its token (a persisted one, the          *)
(* configured one, or a QR login), its long polling with a cursor, its     *)
(* backoff and its end, what a received message becomes, and how the       *)
(* sender turns the bridge's card updates into messages of a chat that     *)
(* cannot be edited.  The iLink service is outside src/: it keeps the      *)
(* messages, knows which token is valid and may fail any request.          *)
(***************************************************************************)
EXTENDS Naturals, Sequences, FiniteSets, SequencesExt

CONSTANTS None,
          Chats,        \* the users who write to the bot
          ConfigTokens, \* what wechat.botToken of the configuration may be
          Messages,     \* what a message may be: its items and its form
          Answers,      \* what a task may answer: its chunks and a file or not
          MaxSent,      \* bound: messages written by the users
          MaxTokens,    \* bound: tokens the service hands out
          MaxTools,     \* bound: tool calls of one task
          MaxFaults     \* bound: failed requests, expiries and restarts

VARIABLES phase,    \* down, qr (login), waiting (getUpdates is out), backoff, ended, failed
          disk,     \* data/wechat-tokens.json: the token of this bot, or None
          client,   \* WechatClient: its token and its cursor
          backoff,  \* backoffMs of pollLoop, in seconds
          service,  \* iLink: the valid token, how many were handed out, the log;
                    \* and the configured token, or None
          handed,   \* what was given to the bridge since the start, in order
          task,     \* for each message of the log, the bridge's task for it
          chat,     \* what the user sees of each task, in order
          finals,   \* finalSentSet
          restarted, \* whether the bot was started again
          faults

vars == <<phase, disk, client, backoff, service, handed, task, chat, finals, restarted, faults>>

Numbers == 1..MaxSent
NoTask == [st |-> "none", tools |-> 0, quiet |-> FALSE, left |-> 0, lost |-> FALSE, file |-> FALSE,
           late |-> FALSE, beat |-> FALSE]

FreshClient == [token |-> None, cursor |-> 0]

Init == /\ phase = "down" /\ disk = None /\ client = FreshClient /\ backoff = 1
        /\ service \in {[config |-> t, live |-> t, given |-> 1, log |-> <<>>] : t \in ConfigTokens}
        /\ handed = <<>> /\ task = [n \in Numbers |-> NoTask] /\ chat = [n \in Numbers |-> <<>>] /\ finals = {}
        /\ restarted = FALSE
        /\ faults = 0

Fault == faults < MaxFaults /\ faults' = faults + 1

\* WechatClient.request: a request with a token the service does not accept is
\* answered 401; any other may fail (a timeout, a 5xx) at the price of a fault.
Authorized == client.token # None /\ client.token = service.live
Succeeds == Authorized /\ UNCHANGED faults
Fails == Authorized /\ Fault
FailsOrRefused == Fails \/ (~Authorized /\ UNCHANGED faults)

\* --- what a received message becomes ---------------------------------------

\* applyItem: the first item gives the text (typed, transcribed, or a fixed
\* prompt) and the media.
ApplyItem(item) ==
  [text  |-> IF item \in {"text", "spoken"} THEN "own" ELSE IF item = "void" THEN None ELSE "prompt",
   image |-> item = "image",
   file  |-> item \in {"voice", "file", "video"}]

\* applyItemToExtra: only images, files and videos of the items after the first.
ApplyItemToExtra(item) == [image |-> item = "image", file |-> item \in {"file", "video"}]

\* mapToIncomingMessage
MapToIncoming(msg) ==
  [n |-> msg.n, base |-> ApplyItem(msg.items[1]),
   extra |-> [i \in 1..(Len(msg.items) - 1) |-> ApplyItemToExtra(msg.items[i + 1])]]
IsIncoming(msg) ==
  /\ msg.items # <<>>
  /\ LET base == ApplyItem(msg.items[1]) IN base.text # None \/ base.image \/ base.file

\* pollLoop's filter: not the bot's own message, not a partial one.
Processed(msg) == msg.form = "final" /\ IsIncoming(msg)

\* --- starting --------------------------------------------------------------

\* saveToken: written with the whole file, keyed by the bot.
SaveToken(token) == disk' = token
LoadToken == disk

Starting == phase = "down" /\ UNCHANGED <<backoff, service, handed, task, chat, finals, faults>>

\* A persisted token is taken first, whatever became of it.
StartPersisted ==
  /\ Starting /\ LoadToken # None
  /\ client' = [FreshClient EXCEPT !.token = LoadToken]
  /\ phase' = "waiting" /\ UNCHANGED <<disk, restarted>>

\* Then the configured one.
StartConfigured ==
  /\ Starting /\ LoadToken = None /\ service.config # None
  /\ client' = [FreshClient EXCEPT !.token = service.config]
  /\ SaveToken(service.config) /\ phase' = "waiting" /\ UNCHANGED restarted

\* Without any token a QR code is shown.
StartLogin ==
  /\ Starting /\ LoadToken = None /\ service.config = None
  /\ client' = FreshClient /\ phase' = "qr"
  /\ UNCHANGED <<disk, restarted>>

\* login: the scan is confirmed and the service hands out a new valid token.
LoginConfirmed ==
  /\ phase = "qr" /\ service.given < MaxTokens
  /\ LET token == service.given + 1 IN
       /\ service' = [service EXCEPT !.live = token, !.given = token]
       /\ client' = [client EXCEPT !.token = token]
       /\ SaveToken(token)
  /\ phase' = "waiting" /\ UNCHANGED <<backoff, handed, task, chat, finals, restarted, faults>>

\* login: the code expires, or nobody scans it in sixty attempts.  The process
\* goes on without this bot (startBotsSafely).
LoginFails ==
  /\ phase = "qr" /\ phase' = "failed"
  /\ UNCHANGED <<disk, client, backoff, service, handed, task, chat, finals, restarted, faults>>

\* --- polling -----------------------------------------------------------------

Polling == UNCHANGED <<disk, chat, finals>>

Running(n, t) == t[n].st \in {"open", "asking", "noting", "answering", "filing"}
Talking(c, t) == {n \in 1..Len(service.log) : service.log[n].chat = c /\ Running(n, t)}
Asked(c, t) == {n \in Talking(c, t) : t[n].st = "asking"}

\* bridge.handleMessage, as far as the bot needs it: a message answers the
\* question the chat's task waits with, or waits its turn.
HandleMessage(t, msg) ==
  IF Asked(msg.chat, t) # {}
    THEN LET n == CHOOSE k \in Asked(msg.chat, t) : TRUE IN
         [t EXCEPT ![n].st = "noting", ![msg.n].st = "reply"]
    ELSE [t EXCEPT ![msg.n].st = "queued"]

\* getUpdates returns: the cursor moves to the end of the batch, and what
\* pollLoop does not skip goes to the bridge.
Updates ==
  /\ phase = "waiting" /\ Authorized
  /\ LET batch == SubSeq(service.log, client.cursor + 1, Len(service.log))
         news == SelectSeq(batch, Processed)
     IN /\ batch # <<>>
        /\ client' = [client EXCEPT !.cursor = Len(service.log)]
        /\ handed' = handed \o [i \in 1..Len(news) |-> MapToIncoming(news[i])]
        /\ task' = FoldLeft(HandleMessage, task, news)
  /\ backoff' = 1 /\ Polling /\ UNCHANGED <<phase, service, restarted, faults>>

\* A 200 whose body reports an error (or a session timeout) is a success
\* without messages: the loop polls again at once.
ErrorBody == /\ phase = "waiting" /\ Fails /\ backoff' = 1 /\ Polling
             /\ UNCHANGED <<phase, client, service, handed, task, restarted>>

\* pollLoop's catch: 401 and 403 end the loop, anything else backs off.  They
\* are looked for in the text of the error, which quotes the service's answer,
\* so any failure may end it.
Refused == /\ phase = "waiting" /\ ~Authorized /\ phase' = "ended"
           /\ Polling /\ UNCHANGED <<restarted, client, backoff, service, handed, task, faults>>
PollFails == /\ phase = "waiting" /\ Fails /\ phase' \in {"backoff", "ended"} /\ Polling
             /\ UNCHANGED <<client, backoff, service, handed, task, restarted>>
Wakes == /\ phase = "backoff" /\ phase' = "waiting" /\ Polling
         /\ backoff' = IF backoff * 2 < 60 THEN backoff * 2 ELSE 60
         /\ UNCHANGED <<client, service, handed, task, restarted, faults>>

\* --- the sender, driven by the bridge ------------------------------------------

Alive == phase \in {"waiting", "backoff", "ended"}
Sending == Alive /\ UNCHANGED <<phase, disk, client, backoff, service, handed, restarted>>

\* WechatClient.sendMessage: one message of the chat.
Sent(n, what) == chat' = [chat EXCEPT ![n] = Append(@, what)]

\* updateCard: what it says for the state of a card, if anything: one line of
\* progress if there are new tools and the last is thirty seconds old.
Says(card, quiet) ==
  IF card.status \in {"complete", "error"} THEN "answer"
  ELSE IF card.status = "waiting_for_input" /\ card.pending THEN "question"
  ELSE IF card.newTools /\ ~quiet THEN "progress" ELSE None

\* sendTextMessage(...).catch: what a failed request loses is lost silently.
SendText(n, what) == \/ Succeeds /\ Sent(n, what)
                     \/ FailsOrRefused /\ UNCHANGED chat

\* sendCard: a typing indicator, nothing that is seen; the id is made up.
SendCard(n) == UNCHANGED <<chat, faults>>

\* The bridge begins the task, with sendCard.
Open(n) ==
  /\ Sending /\ task[n].st = "queued" /\ Talking(service.log[n].chat, task) = {}
  /\ \A m \in 1..(n - 1) : service.log[m].chat = service.log[n].chat => task[m].st # "queued"
  /\ task' = [task EXCEPT ![n].st = "open"] /\ SendCard(n) /\ UNCHANGED finals

\* updateCard with a state that is not terminal, awaited.
Update(n, card, st) ==
  /\ Sending /\ task[n].st = "open" /\ task[n].tools < MaxTools
  /\ LET says == Says(card, task[n].quiet) IN
       /\ task' = [task EXCEPT ![n] = [@ EXCEPT !.st = st, !.tools = @ + 1, !.quiet = @ \/ says = "progress"]]
       /\ IF says = None THEN UNCHANGED <<chat, faults>> ELSE SendText(n, says)
  /\ UNCHANGED finals

\* The engine calls a tool.  The rate limiter does not await the update: its
\* line of progress is on its way while the task goes on.
Working == [status |-> "running", pending |-> FALSE, newTools |-> TRUE]
Heartbeat(n) ==
  /\ Sending /\ task[n].st = "open" /\ task[n].tools < MaxTools
  /\ LET says == Says(Working, task[n].quiet) # None IN
       task' = [task EXCEPT ![n] = [@ EXCEPT !.tools = @ + 1, !.quiet = @ \/ says, !.beat = @ \/ says]]
  /\ UNCHANGED <<chat, finals, faults>>
\* It arrives, or fails, whatever else was sent meanwhile.
BeatArrives(n) == /\ Sending /\ task[n].beat /\ SendText(n, "progress")
                  /\ task' = [task EXCEPT ![n].beat = FALSE] /\ UNCHANGED finals
\* Thirty seconds later; a request is given up after fifteen.
QuietEnds(n) == /\ Sending /\ task[n].quiet /\ ~task[n].beat
                /\ task' = [task EXCEPT ![n].quiet = FALSE]
                /\ UNCHANGED <<chat, finals, faults>>

\* The engine asks: the bridge updates the main card without the question and,
\* as this sender has no sendQuestionCard, sends the question with sendCard,
\* whose id makes it take the question for shown.
MainCard == [status |-> "waiting_for_input", pending |-> FALSE, newTools |-> TRUE]
Ask(n) == Update(n, MainCard, "asking")
\* The answer (or the timeout) finalizes that card, which is a terminal update
\* of an id of its own: a message.
Noted(n) == /\ Sending /\ task[n].st = "noting" /\ SendText(n, "noted")
            /\ task' = [task EXCEPT ![n].st = "open"] /\ UNCHANGED finals
TimesOut(n) == /\ Sending /\ task[n].st = "asking" /\ SendText(n, "timed out")
               /\ task' = [task EXCEPT ![n].st = "open"] /\ UNCHANGED finals

\* Slip: a terminal update is not marked.
FinishUnmarked(n, a) ==
  /\ Sending /\ task[n].st = "open"
  /\ task' = [task EXCEPT ![n] = [@ EXCEPT !.st = "answering", !.left = a.chunks, !.file = a.file,
                                           !.tools = 0, !.quiet = FALSE]]
  /\ UNCHANGED <<chat, finals, faults>>

\* updateCard with a terminal state: marked as sent before it is, so that a
\* second terminal update says nothing.
Finish(n, a) ==
  /\ Sending /\ task[n].st = "open" /\ n \notin finals
  /\ finals' = finals \cup {n}
  /\ task' = [task EXCEPT ![n] = [@ EXCEPT !.st = "answering", !.left = a.chunks, !.file = a.file,
                                           !.tools = 0, !.quiet = FALSE]]
  /\ UNCHANGED <<chat, faults>>
After(t) == IF t.file THEN [t EXCEPT !.st = "filing"] ELSE [t EXCEPT !.st = "over"]

\* sendText: the chunks one after the other; a failure drops the rest, and
\* updateCard still reports success, so the bridge does not try again.
Chunk(n) ==
  /\ Sending /\ task[n].st = "answering" /\ UNCHANGED finals
  /\ \/ /\ Succeeds /\ Sent(n, "answer")
        /\ LET t == [task[n] EXCEPT !.left = @ - 1]
           IN task' = [task EXCEPT ![n] = IF t.left = 0 THEN After(t) ELSE t]
     \/ /\ FailsOrRefused
        /\ task' = [task EXCEPT ![n] = After([@ EXCEPT !.lost = TRUE])]
        /\ UNCHANGED chat

\* uploadMedia (upload parameter, CDN) and the message that refers to it.
SendFile(n) == /\ Sending /\ task[n].st = "filing" /\ UNCHANGED finals
               /\ \/ /\ Succeeds /\ Sent(n, "file") /\ task' = [task EXCEPT ![n].st = "over"]
                  \/ /\ FailsOrRefused
                     /\ task' = [task EXCEPT ![n].st = "over", ![n].lost = TRUE]
                     /\ UNCHANGED chat

\* What follows the final card may throw, and the bridge's catch sends a
\* terminal update again: it is dropped for two minutes (Forgets).
FinalAgain(n) == /\ Sending /\ task[n].st = "over" /\ UNCHANGED finals
                 /\ task' = [task EXCEPT ![n].st = "failed"]
                 /\ IF n \in finals THEN Fault /\ UNCHANGED chat ELSE SendText(n, "error")
Forgets(n) == /\ Sending /\ n \in finals /\ task[n].st \in {"filing", "over"}
              /\ finals' = finals \ {n} /\ task' = [task EXCEPT ![n].late = TRUE]
              /\ UNCHANGED <<chat, faults>>

\* --- the users, the service and restarts ---------------------------------------

Outside == UNCHANGED <<disk, backoff, handed, finals, chat>>

Writes(c, m) ==
  /\ Len(service.log) < MaxSent
  /\ service' = [service EXCEPT !.log =
                   Append(@, [n |-> Len(@) + 1, chat |-> c, items |-> m.items, form |-> m.form])]
  /\ Outside /\ UNCHANGED <<phase, client, task, restarted, faults>>

TokenExpires == /\ service.live # None /\ Fault /\ service' = [service EXCEPT !.live = None]
                /\ Outside /\ UNCHANGED <<phase, client, task, restarted>>

\* shutdown stops the loop and exits: the cursor and the tasks are gone; the
\* token file stays.
Restart ==
  /\ phase # "down" /\ Fault /\ phase' = "down" /\ client' = FreshClient
  /\ backoff' = 1 /\ finals' = {}
  /\ task' = [n \in Numbers |-> IF task[n].st = "none" THEN NoTask ELSE [NoTask EXCEPT !.st = "gone"]]
  /\ restarted' = TRUE
  /\ UNCHANGED <<disk, service, handed, chat>>

Next == \/ StartPersisted \/ StartConfigured \/ StartLogin \/ LoginConfirmed \/ LoginFails
        \/ Updates \/ ErrorBody \/ Refused \/ PollFails \/ Wakes
        \/ \E n \in 1..Len(service.log) :
             \/ Open(n) \/ Heartbeat(n) \/ BeatArrives(n) \/ QuietEnds(n) \/ Ask(n) \/ Noted(n) \/ TimesOut(n)
             \/ \E a \in Answers : Finish(n, a)
             \/ Chunk(n) \/ SendFile(n) \/ FinalAgain(n) \/ Forgets(n)
        \/ \E c \in Chats, m \in Messages : Writes(c, m)
        \/ TokenExpires \/ Restart

Spec == Init /\ [][Next]_vars

\* --- properties -----------------------------------------------------------------

\* What the bridge was given is what the service's log holds up to the cursor,
\* without the bot's own and the partial messages, each once and in order: the
\* cursor moves with the batch it came with (getUpdates, pollLoop).  A restart
\* forgets the cursor.
HandedIsTheLogUnlessRestarted ==
  ~restarted =>
    [i \in DOMAIN handed |-> handed[i].n]
      = LET own == SelectSeq(SubSeq(service.log, 1, client.cursor), Processed)
        IN [i \in DOMAIN own |-> own[i].n]

\* A chat shows a finished task's answer whole and once, and nothing of the
\* task after its first part but the file and a line of progress that was on its
\* way, unless a request failed, the bot restarted or the second terminal
\* update came when the first was forgotten (updateCard, sendText).
AnswerIsLastUnlessLost ==
  \A n \in Numbers :
    ~restarted /\ task[n].st \in {"filing", "over", "failed"} /\ ~task[n].lost /\ ~task[n].late =>
      LET mine == SelectSeq(chat[n], LAMBDA what : what # "file")
          after == {j \in DOMAIN mine : \E i \in 1..j : mine[i] = "answer"}
      IN /\ after # {}
         /\ \A j \in after : mine[j] \in {"answer", "progress"}

\* What reaches the bridge and the chat, part by part.
NothingIsLostUnlessRestarted == HandedIsTheLogUnlessRestarted /\ AnswerIsLastUnlessLost

\* A message the bridge takes, the token good and the loop not ended by an
\* error, that it was not given yet.
Unhanded(n) ==
  /\ n <= Len(service.log) /\ Authorized /\ phase # "ended" /\ Processed(service.log[n])
  /\ \A i \in DOMAIN handed : handed[i].n # n

\* "Waiting for input: send question as standalone message" (wechat-sender.ts:65):
\* a task that waits for an answer has said its question in the chat.
AskedIsShown ==
  \A n \in Numbers : task[n].st = "asking" => \E i \in DOMAIN chat[n] : chat[n][i] = "question"
=============================================================================
