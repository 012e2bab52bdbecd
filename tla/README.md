# MetaBot in TLA+

The repository is a Docker and Kubernetes course around one real program:
`metabot/`, a TypeScript bridge that connects chat platforms (Feishu, Telegram,
WeChat, web) to coding agents. This directory holds TLA+ models of it, the TLC
configurations that check them and proofs for TLAPS. Paths below are relative to
`metabot/src/`, or to `metabot/web/src/` where they begin with `web:`.

Check a model with `tlc -workers 2 -config X.cfg M.tla`, proofs with `tlapm M.tla`.

## 1. The system

| Component | State it keeps | Operations | Interacts with |
|---|---|---|---|
| Persistent executor `engines/claude/persistent-executor.ts` | one Claude process, its state, the active turn, question resolvers, idle timer, restart count | start, nextTurn, abort, resolveQuestion, sendAnswer, shutdown, the consumer loop, restart | the SDK's stream; events to registry and bridge |
| Executor registry `engines/claude/executor-registry.ts` | pool chat → executor in LRU order, pending shutdowns | acquire, release, shutdownAll, the closed listener | creates executors, events to the bridge |
| Engines with a process per turn `engines/claude/executor.ts`, `engines/kimi`, `engines/codex`, `stream-processor.ts` | a turn's process, its output buffer, its event queue | start, read, translate, sendAnswer, finish, abort | the bridge's loop |
| Message bridge `bridge/message-bridge.ts` | per chat: running task, message queue, media batch | handleMessage, flushBatch, executeQuery, executeApiTask, processQueue, stop, continuation turns | registry, senders, sessions |
| Questions (bridge, executor, `stream-processor.ts`) | pending question, collected answers, timer, the slot between turns | hook, surface, handleAnswer, auto answer, timeouts | all of the above |
| Outputs and cards `bridge/outputs-manager.ts`, `rate-limiter.ts` | a chat's output directory, its cleaning timer, the pending update | prepare, scan, send, clean; schedule, flush, last card with retries | senders |
| Sessions `engines/claude/session-manager.ts`, `session/` | conversation ids, engines and models per chat, a JSON file, cross-platform links | get, set, reset, switch, expire, adopt | bridge, pool |
| Task scheduler `scheduler/` | one-time and recurring tasks, timers, a JSON file | schedule, update, cancel, pause, resume, fire, load | bot registry, bridge.executeApiTask |
| Task API `api/` | circuits, budgets and their file, asynchronous tasks, peers' bots | /api/talk, callbacks, forwarding, polls, adding and removing bots | bridge, peers |
| Skill hub `api/skill-hub-store.ts`, `api/routes/skill-hub-routes.ts` | published skills and their versions, installed copies | publish, install, update, remove, fetch from a peer | file system, peers |
| Feishu and Telegram intake `feishu/event-handler.ts`, `telegram/telegram-bot.ts` | member counts, media waiting for a mention | one handler per event | bridge |
| Telegram sender, WeChat bot | cards by message id; token, poll cursor, final marks | send, update, poll, log in | the platforms |
| MetaMemory `memory/` | tree of folders and documents, search index | create, update, move, delete, search | its page, the web panel, document sync |
| Document sync `sync/` | mapping document → wiki page, debounced changes | syncAll, syncDocument, auto sync, cleanup, blocks | MetaMemory, the Feishu wiki |
| Web chat `web/ws-server.ts`, `web:store.ts`, `web:hooks/useWebSocket.ts` | sockets, subscriptions, questions; the page's stored messages | chat, stop, answer, group, history | bridge, browser |
| Voice `web:components/chat/`, `web/asr-*`, `api/rtc-*` | microphones, recorders, recognition sessions, RTC rooms | press, release, speak, call, hang up, poll | recognition and RTC services |

Everything on the server runs in one Node process, and the pages in a browser's one
thread. A handler runs to its next `await` without interruption, so the hard
behaviour is between awaits: a test of some state, an await, and an action that
trusts the test. To this come processes that crash or talk at any time, timers that
race answers, requests that fail, sockets that break, restarts, and users who do the
next thing before the last one is dealt with. What makes the parts correct:

* executor: one turn at a time, nobody hears another turn, every stream ends, an idle
  process is reclaimed, a closed one stays closed; engines: the answer and the verdict
  of a turn are the engine's own, however its output is cut up;
* registry: no running process is forgotten, the limit holds, a closed executor is not
  handed out, a waiting acquire() returns;
* bridge: the chat is never busy for ever, the queue is bounded, sound and served, no
  message runs twice, /stop finds the turn in flight; questions: every hook gets one
  complete answer or an empty one, the timer belongs to the question;
* sessions: a turn continues its own chat's conversation, of its own engine, and none
  the user left; outputs: files and last card of a task reach the chat;
* scheduler: no pending task is forgotten, none runs twice or early;
* API: a task's status follows the task, the breaker counts probes, a forwarded request
  does not come back; skill hub: a published skill is of one edition;
* platforms: a message is given to the bridge once and in order, its media with it, and
  the user sees the end and the whole of an answer;
* MetaMemory and sync: tree and index agree, each document has one page that says what
  the mapping says, overlapping syncs do not lose a change, the page acts on what it shows;
* web chat: a message that waits has something coming, also after a reconnect; voice: a
  microphone is open only while its user holds or sees it.

`PROJECT.json` lists the components and, under `hazards`, the places where each of these
could go wrong, with the property that watches it or the reason why none does.

## 2. Modules

| Module | Models | Variables ↔ code |
|---|---|---|
| `PersistentExecutor` | one executor and the SDK behind it | the class's fields by name; `turns` are the TurnHandles with their AsyncQueues; `sdk`, `wire` are the external process and its unread output |
| `ExecutorRegistry` | the pool, and the bridge's subscription to it | the maps by name; `caller` is where each acquire() is between its awaits; `exec` reduces an executor to its health |
| `EngineStream` | one turn of legacy Claude, Kimi or Codex, to the end of the bridge's loop | `buf`, `acc`, `sawResult`, `queue`, `finished` are the executor's locals; `text`, `tools`, `pending`, `status` the processor's; `cli`, `wire` the process; `said`, `verdict` what it really did |
| `MessageLifecycle` | abstract: what a user may rely on for a message | one status per message |
| `MessageBridge` | the messages and API tasks of one chat | `running`, `queue`, `batch` are the chat's entries of the three maps; `pc` is the await each executeQuery/executeApiTask is at; `turn`, `stream` are the executor as a task sees it |
| `QuestionFlow` | question calls from hook to answer | the question fields of RunningTask, the processor's queue, the between-turns slot, the hooks |
| `Sessions` | which conversation a chat's next turn continues | the manager's map, its `file`, the registry's `row` and `links`, `pool`; `made` are the engines' own conversations |
| `TaskOutputs` | cards and files of a few tasks of one chat | `dir`, `files`, `cleaning` are the directory and its timer; `main`, `messageQueue` the bridge's maps; `outbox` what a task found and has not sent; the rest a rate limiter and a last card |
| `TaskScheduler` | the tasks of one chat, the clock, the file | the four maps by name; `disk` is the file; `leaked` are timers that run although the map no longer holds them |
| `TalkApi` | /api/talk on hosts that are each other's peers | `req` is each request's place between awaits and its entry in the task store; `circuits`, `budgets`, `disk`, `config`, `registry`, `cache` by name |
| `SkillHub` | one skill: working copy, hub, two installed copies | `calls` are publish requests and what they have read; a record is `crossed` if the author edited meanwhile |
| `Intake` | Feishu's and Telegram's handlers | `counted`, `mediaCache` are the two caches; `asking` the events that await the member count; `given` what the bridge got |
| `TelegramCards` | the card of one task, markdown to HTML, the cut, refusals | `entry` is messageMap's; `onCard` what Telegram shows |
| `WechatBot` | login, polls, tokens, messages in, answers out | `client` (token, cursor), `backoff`, `finals` by name; `service` is iLink |
| `MetaMemory` | the server: folders, documents, index, statement by statement | the two tables, `fts` the search index; `deleting` is the stack of the calls of deleteFolder under way |
| `DocSync` (extends `MetaMemory`) | full and single syncs | `pendingDocs`, `pendingFolders`, `debounce` of startAutoSync; `docMap`, `folderMap` the store; `jobs` the syncs between their awaits; `pages` the wiki |
| `DocBlocks` | a document's lines to blocks, batches, clearing | `page`, `hash`; `rest` the blocks not written yet |
| `MemoryBrowser` (extends `MetaMemory`) | `memory/static/app.js` and the web panel | their state; `calls`, `panelCalls` the requests under way |
| `WebChat` | one chat from the page's store to the task and back | `session` the page's messages, `sock` the socket of each hook, `conns` the connections with both channels; `subs`, `pending`, `running`, `row` the server's maps |
| `HoldToTalk` | the button, streaming and fallback recognition | `ui`, `asr`, `mic` are the page's state and refs; `sess`, `current` the server's sessions |
| `HandsFree` | the hands-free call and the voice view | `call`, `vv` are the refs, with `call.starts` the clicks that await `resume()` and `call.rtc` whether RTC is known; `handsAsks`, `reqs`, `sources` what the browser owes them |
| `RtcCalls` | calls over RTC | `hook` the page, its store and `rtcAvailable`; `frames` what is on its two sockets; `procs`, `ends` the bodies of startCall, joinCall and endCall under way; `svc` the service's map; `polls` the waiting agents |
| `MC*` | instances for TLC, with history variables where a property needs one | |
| `ExecutorProofs` (`PersistentExecutor`, `Sessions`, `TaskOutputs`), `ExecutorRegistryProofs`, `MessageBridgeProofs`, `ApiProofs` (`TaskScheduler` with its history, `TalkApi`), `BotsProofs` (`QuestionFlow`, `SkillHub`, `Intake`), `WebChatProofs`, `VoiceProofs` (`HoldToTalk`, `HandsFree`, `RtcCalls`), `MemoryProofs` (`MetaMemory`, `MemoryBrowser`, `DocSync`) | proofs | |

An action is the code from one await to the next, including every call it makes.
Awaits that give control to nobody (`rateLimiter.flush()` with nothing to send, an
async function that returns before its first await) are not points where others run.
Definitions called a *slip* in their comment are plausible mistakes; nothing uses
them except the checks that each property notices one (`mutants` in `PROJECT.json`).

Choices worth knowing:

* **Executor.** `SdkInitiates` says whether the SDK opens bursts of its own (teammates,
  background tasks). The code attributes messages by time, so isolation is stated for an
  SDK that only answers prompts; `waits` is checked with one that opens them.
* **Engines.** Texts are the numbers of the events that said them. Codex's output is cut
  into chunks anywhere, also within a line or a character. A success that reads `API Error:
  NNN` is taken for an error and its text dropped (`isApiErrorResult`): the property says so
  of an agent whose words begin with these.
* **Bridge.** One chat, because every map is keyed by chat. The switches `StaleSessions`,
  `Teardowns`, `Continuations` and `SendsFail` turn on failures. A retry reads another handle
  than the one the timers finish (bridge 1835, 1846, 2325).
* **Outputs.** A stream that throws ends in the catch blocks (2106-2187, 2491-2585, 1020-1028),
  which make an error card of the last one and send no files: what such a task wrote stays in
  the directory until it is cleaned. The retry in a catch block is one that did not throw.
* **Sessions.** The chats' turns run side by side. A message of the stream sets the session's
  id (1864-1868, 2349-2352), also when `/reset` or `/model` came meanwhile, although
  `command-handler.ts:59` promises "Clear session, start fresh" (87-99): the chat's next turn
  goes on with what was left. A reset of a chat that was evicted from memory leaves its entry
  in the file.
* **Questions.** Who answers gives what the code gives: a user in a chat's turn, and a timer,
  an answer to each sub-question; a text between turns one to the first, the only one on the
  card, and '' to the rest (638-647, 739-743); a caller of the API `_auto`, `_answer` or
  `_web`, none of which is a sub-question's key (2365-2372; see the comment at 1432-1438). The
  hint that refuses a reply of only an image changes no state and is left out, as are questions
  of a turn that was retried, which every loop only shows. Both hooks of one SDK message start
  at once. The hook's six minutes end after the bridge's five minutes that started with it;
  `onTime` remembers which timers did.
* **Scheduler.** Time is ticks; a timer at zero may be late. Occurrences of a cron
  expression are `Period` apart. A finished task's id may be used again, so a small set of
  ids bounds tasks at a time, not behaviours. `destroy()` is a crash, as the file is
  always up to date.
* **Platforms.** The rate limiter calls an update and waits for none that is on its way
  (`rate-limiter.ts:14-33`). So a line of progress on WeChat arrives whenever it does, among the
  chunks of the answer too, and an older edit of a Telegram card can land after the last one.
  An error of WeChat's poll whose text holds 401 or 403, of whatever kind, ends the loop.
  Separator rows of a table are not shown (`telegram-sender.ts:217`). A Feishu mention of only
  the bot is dropped (`event-handler.ts:248-250`) and leaves the media where they are, although
  27-28 say that a later mention carries them: the next one with words does.
* **API.** Costs are units, a day ends by an action. A request slot is used again once its
  answer was read or its entry expired.
* **Memory and sync.** A database statement is atomic, a request that runs several is not.
  A document's hash stands for its title and content and does not collide; `DocBlocks`
  takes the content apart, line by line, in batches. A full sync asks for `ListLimit` (200)
  documents of a folder, and filters the root's from the first 200 of all (`doc-sync.ts:326-339`):
  what is beyond is not written, and its note is dropped. Which ones are first is left open. The
  title of a wiki node is never updated; a page is its content. The web panel tells of no answer
  that is not OK (`MemoryView.tsx:103`, `110`, `118`): it then shows an empty list or no document,
  which is what its property allows, and a failure only when there is no answer at all.
* **Browser.** What an answer carries is what the server has when it answers. A broken
  socket loses what is in it; each side notices in its own time. getUserMedia, the
  recorders, recognition and RTC are external and answer when they like.
* **Web chat.** A turn that begins again (stale session, full context) is read by a loop that
  shows a question and calls no `onQuestion` (bridge 2417-2448, 2514-2526): a click on it is
  dropped (`ws-server.ts:626`), and the hook's six minutes end it.
* **Voice.** A click awaits `resume()` of a suspended playback before its call is active, and
  can be repeated until then. `/api/rtc/config` answers when it does: in the middle of an HTTP
  call it hides the overlay and takes over the hang-up (`ChatView.tsx:149-164`). Every
  `voice_call` comes on both sockets of the page (`Layout.tsx:439`, `ChatView.tsx:57`), and a frame
  that comes after the join stays in the store: hanging up joins that room again, with an empty
  transcript. The sockets of other panels are left out; a view is shown again once the callbacks
  of its last calls are over; the button's socket breaks when its view is left.

## 3. Runs

Each passing run has no error over its whole state space. Most of them put components
side by side: `part` says which component a behaviour is of, the variables of the others
keep one value (`Off`, or their initial one), and a step is a step of that component. So a
run is the sum of the spaces of its parts, not their product, and it asks one question of
all of them: the property of a part is its module's own, and the run's property says
`part = "x" => X!Property`. A part with a theorem is extended, not instantiated, so that
run and theorem state the very same formula: `MCExecutors` extends `PersistentExecutor`,
`Sessions` and `TaskOutputs`; `MCApi` extends `MCTaskScheduler` and `MCTalkApi`; `MCBots`
extends `MCQuestionFlow`, `SkillHub`, `Intake` and `DocSync`; `MCBrowser` extends
`WebChat`, `HoldToTalk`, `HandsFree`, `RtcCalls` and `MemoryBrowser`; `MCWaits` extends
`MCExecutorRegistry`. Such a formula holds of the initial values which that part's variables
keep in the others' behaviours. `CHECK_DEADLOCK FALSE` is given where the system may stop:
all messages dealt with, bounded turns, clicks or faults used up. The scheduler's clock
never stops.

| Run | Question | Bounds, and why they are enough |
|---|---|---|
| `executor_turns` | does a task run on what is its own, and leave what it should? | executor: 3 turns (an aborted one, its successor and one more), 2 messages on the wire so that a result and a straggler coexist, 1 restart so that both retry and giving up occur; where its hooks ask questions, 1 turn. Engines: 3 events and 1 question. Sessions: 2 chats and 2 engines, 2 conversations, 2 events (a crash or an adoption among them). Outputs: 2 tasks that share the directory or follow each other (with media, a continuation, one from the API), 1 file, 1 retry, a stream that throws |
| `bridge_safety` | are task, queue and batch consistent; do messages only move on? | 2 texts and 1 medium, queue of 1: overlap, full queue, merge; all failures on |
| `api` | are tasks kept, run once and on time, and do hosts account for what they were asked, through crashes? | scheduler: 2 tasks at a time (an occurrence and another), 1 recurring task, 1 retry, 1 crash; a period longer than the longest timer, so that long waits are cut. /api/talk: 2 hosts that are peers, 1 bot of its own name and 1 that is added, 2 requests, a threshold of 2, 1 crash |
| `bots` | does what a bot takes, answers and keeps stay whole? | questions: a call with one and one with two sub-questions, 3 texts, 1 other message of the turn, all three loops. WeChat: 2 messages, 1 fault or expired token; progress on its way in the first one's task, without a fault. Intake: 3 messages of 2 users, a group of 2 or 3. Skill: 2 edits during 3 requests. Telegram: 3 lines, a limit that cuts, 1 update on its way, 2 faults. Sync: 2 documents in a tree of 2 folders, lists of 1 document, 3 writes or 2 and a request, a full and a single sync, 1 fault. Blocks: 3 lines of 9 kinds, batches of 2, a page of 4 |
| `browser` | is what the page shows and records true? | chat: 2 sockets and one that replaces either, 2 messages or troubles, 2 frames under way, a turn that begins again when its message is the only one; button: 2 presses, or 1 and a fault; hands: 3 times the microphone, 2 requests; RTC: 3 rooms, or 2 and a fault; hands and RTC up to the first race, after which nothing is claimed; pages: 4 clicks and writes, on 2 folders and 2 documents |
| `waits` | does every wait end, and is what they wait for sound? | each part with what one wait needs, and a second of its kind where they wait for each other: 1 turn, 1 question of two sub-questions, 2 callers of a pool of one for 2 chats with 3 executors (eviction, reuse, replacement, overlap), 2 API requests, a text and an API task with a stale session each, 2 events of an engine, 1 press, 2 requests of the voice view, 1 WeChat message |

`bots` and `browser` take documents (and their versions) as symmetric; `executor_turns`
the two chats of the sessions. Constraints (`Bounds`) cut states by the sums above.

A property named `...Unless...` has an excuse: a history variable that remembers a race,
a fault or an overlap after which the code is known not to keep the promise, and the
property's comment says which. They are: overlapping acquire() calls; the stream of a retry
that nobody ends; a character cut by a chunk and the words of a Kimi subagent; a pooled
executor taken with the conversation it has, and an id that was left and written back; a
directory two tasks share; a stream that throws; an update slower than the limiter, or landing
on a finished Telegram card; a restart or failed request of WeChat; a doubled event, a mention
overtaking a member count, or one without words, on Feishu; an author who edits while a request
reads; a cut card; a document a fault, two syncs or a list's limit touched; a question of a
turn that began again; a message of the chat that was typed without a socket or refused by a busy chat, whose
question was open when a socket broke, whose view was left or page reloaded (also with the
request still to be served), whose outputs failed after the last word, or whose group's
socket closed; a group to which both sockets of the page were subscribed; presses, calls and
playbacks that cross, a call the page finds RTC in the middle of, a room joined again; answers
that overtake clicks. Each is as narrow as the
code allows: without it TLC finds the race.

Runs that end in a violation show where the code does not do what its comments say:

| Run | What happens |
|---|---|
| `executor_lost_turn` | a turn in flight at shutdown is never ended for its reader |
| `registry_unheard` | an executor that replaces an unhealthy one is never subscribed to |
| `bridge_stranded` | if a queued message cannot send its first card, the queue behind it stops |
| `question_unseen` | a continuation turn's second question is never shown |
| `scheduler_cancel` | cancelling a recurring task leaves its child retrying, and it will run |
| `wechat_question` | on WeChat the question a task waits on is shown nowhere |

## 4. Fairness

Only `MCWaits` and `MCPersistentExecutor` state fairness. `EveryWaitEndsUnlessRetried` is one
property: from `Waits(i)`, which lists who waits in each part, to `Over(i)`. Its excuse is
`Unfinished`: a task that was retried waits for the retry's stream, and its timers finish the
handle of the first try, so if the SDK is silent it waits for ever; without the excuse TLC finds
this. Assumed is:

* executor: promises settle, armed timers fire, the event loop reads what is there, a process
  whose input was closed exits. Who opened a turn finishes it some day, as the task's timers do
  (1835, 1846); a continuation has none, so nothing is claimed of its stream. An SDK that was
  told to interrupt a burst ends it; it need not end one otherwise. Strong fairness once, for
  the SDK reading its input, which bursts of its own can interrupt again and again.
  `executor_lost_turn` assumes in `FairSpec` that the SDK ends every burst, which only makes
  its counterexample stronger;
* questions: the loops and the hooks' and cards' timers; bridge: its awaits settle, its
  timers (idle, total, debounce) fire, and an interrupted turn ends;
* pool: start() and shutdown() settle; API: a task under way goes on, its callback ends
  one way or another;
* engines: a process that was told to end ends, lines that arrived are read, a hook's
  timer fires. Nothing is assumed of a process that was not told;
* button: the safety timer and an upload's answer; voice view: requests are served and
  answered, maybe with an error; WeChat: polls return or are refused, and sleeps end.

No passing run assumes that a user answers, releases or clicks, that a process does not crash
or a socket hold, that a model speaks, or that a peer, Feishu or iLink succeeds.

## 5. Proofs

For every value of the constants, under the named assumptions of the modules and what a
theorem assumes besides. Each invariant below was checked by TLC before it was proved; a
proof has one lemma or step per action.

* `ExecutorProofs`, the executor. Type correctness; at most one open turn; an idle executor
  has its timer; closed is final; a hook waits exactly while its resolver is registered.
  One open turn needs a strengthening: a detached turn has its stream finished already, or
  dropping it from `activeTurn` would leave an open stream behind. Isolation: if the SDK
  only answers prompts (`OnlyPrompted`: no bursts of its own, no late answers), no turn
  receives another one's message, and a drained turn has nothing left in input, process or
  wire. The invariant follows a prompt through these three places: it is in one of them at
  a time (`PromptThenBurst`), its result is the last thing on the wire (`ResultIsLast`),
  and all of it belongs to the active turn (`PipeIsActive`).
* `ExecutorRegistryProofs`. Whatever calls overlap (`PoolIsMapped`): the map and the order
  of its keys name the same chats, each once, an entry was made for its chat and has not
  closed, an executor that starts is new and in no entry. `PoolIsSound`: while acquire()
  calls do not overlap, no running process is forgotten, the capacity holds, and a
  released executor is gone before its chat has another. This is inductive with `Gate` (a
  pending shutdown is of the one executor that is being released for its chat, and no
  entry beside it) and `RoomIsKept` (room for the executor that starts). With a capacity
  of zero the code keeps one executor all the same: the theorem assumes another.
* `MessageBridgeProofs`. Types; `RunningIsAlive`; `QueueIsSound`; `NoMediaLost`, that
  the dropping branch of `flushBatch` is dead: a batch is opened only when nothing runs, and
  a text takes it along, so that the queue has room as long as a batch is pending
  (`BatchFindsRoom`); and `LiveTurnIsStoppable` for a chat without API tasks, as
  executeApiTask() takes whatever task is entered out of `runningTasks` when it ends.
  And `MessageBridge` implements `MessageLifecycle`, step by step.
* `BotsProofs`, the questions. `AnswersAreSound`, for any mix of the three loops and any number
  of sub-questions but zero (the SDK asks one at least), with what each loop's answers hold as
  in section 2: the invariant says where a call may be at a time - wire, processor's queue,
  slot, being delivered (`Places`) - and what the task tracks (`Task`). `NoEarlyTimeout` from
  `TimersMatch`: as long as loop and answer did not cross, a timer runs only for the call that
  is tracked.
* `ApiProofs`, the scheduler. Types; `PendingIsArmed`, inductive with the types alone;
  `ActiveIsArmed`, which needs that an awaited child is executing, so that no cancel, timer or
  new task can take its id before its end sets the next timer (`AwaitedExecutes`), and that a
  process that is down awaits nothing. With the run's history variables: `RunsOnce`, as the
  file offers nothing that ran (`DiskOffersNone`); `OneOccurrence` from `Alone`: a recurring
  task has no timer the map has lost, a timer only while it is active and no child of its is
  awaited, and awaits one child at most; and `NeverEarly`, where no one-time delay is longer
  than what setTimer() gives setTimeout (`DelaysFit`): it does not cut longer waits, as
  setRecurringTimer() does.
* `ApiProofs`, /api/talk. `HostsAreSound` for all hosts, peers, bots, limits, thresholds and
  crashes. A circuit counts fewer failures than the threshold unless it is not closed, and
  an open one has failed (`CircuitIsSound`); memory and file differ only while a save is due
  (`BudgetsInv`); a request has its host and bot from its arrival to its end, its peer only
  as long as it is a client's own (`RequestIsSound`), which is why it is passed on once.
* `ExecutorProofs`, the sessions. `TurnsContinueTheirOwnUnlessTakenUp`, through turns,
  commands, adoptions, evictions, crashes and restarts of any number of chats. Map and file
  hold only what is `Sound`: an id above the last one the user left, or one that was written
  back (`back`), and of the engine it is said to be of. What a chat expects is in its session
  (`HasExpected`) and, as that is kept, in the file (`Saved`), so that it survives a restart. A
  turn that waits for its start finds no id of another engine (`TurnIsSound`), since every
  command that can put one there - only an adoption - does not say whose it is. The one
  hypothesis, `Nothing`, tells None from chats, engines and records.
* `ExecutorProofs`, the outputs. `TaskLeavesItsResultUnlessSharedOrThrown`: a task alone in its
  directory has it, with no clean-up armed (`AloneHasDirectory`), tasks side by side are
  excused (`SideBySide`), what an undisturbed task wrote whose stream did not throw is there
  until it is in its outbox (`WrittenIsKept`), and after the loop nothing waits in the limiter
  and no update is on its way (`CardIsOrderly`).
* `WebChatProofs`. `ChatIsSoundUnlessExcused`, for any number of sockets, messages, clicks
  and faults. What is proved of a message is stronger than the property, which only speaks
  of what the page shows: also for each frame still on its way that will show the message as
  under way, the last word comes behind it on that socket (`Settles`), or its request is on
  its way or its task is alive and heard (`Reaches`). That needs who talks to whom: a frame of
  a task comes to a subscriber only (`Spoken`), one subscriber at most is a socket the page
  holds unless it is known that both were (`Subscribed`), a request is on one socket, once,
  before its task exists (`Asked`), and a question is with the socket of its task (`Questions`).
  A socket whose link is broken is no longer heeded (`Heeded`): from then on only `waiting`
  is promised, since the page marks the rest itself when it notices.
* `VoiceProofs`, the button. `ButtonIsSoundUnlessCrossed`, in two halves. Unless a press raced:
  a microphone is asked for or open only in a press that records, and it is the one the
  path in use refers to (`Press`). Unless a press was late: all words the page has
  (`PageWords`), those on the wire both ways and those a live session has heard
  (`OnTheWay`) are of the last press.
* `VoiceProofs`, without hands. `MicOnlyWhileListeningUnlessRaced`: as long as no callback
  crossed another, a call's parts take turns - the microphone is asked for, or records, or a
  request is under way, or an answer plays (`CallTakesTurns`) - and so do the view's
  (`ViewTakesTurns`); the stream that runs is then the one that is recorded.
* `VoiceProofs`, RTC. `CallIsSoundUnlessCrossed`: while calls did not cross, one startCall or
  endCall runs and the only engine that is not gone is the hook's (`OneCall`), what ends is
  the room the hook knows (`Over`), and words are followed from room to hook to endCall to
  service to the poll that waits (`WordsAreKept`), in which nothing more is said once it
  has heard (`NothingMoreIsSaid`).
* `MemoryProofs`, the tables. `MemoryIsSound` at every statement at which a deletion may be
  cut. The invariant needs the stack of calls: they are nested as the folders are, and a
  call that has emptied its folder finds it empty still (`Nested`), because the server
  handles nothing else between them; paths grow from parent to child, so no call is on the
  stack twice.
* `MemoryProofs`, the views. `PagesAreTrueUnlessDisturbed`: until an answer was overtaken,
  the requests under way for a document are for the one the page is at
  (`EditorIsAnswered`, `DocumentIsAnswered`), the panel's for what it asked last.
* `MemoryProofs`, the wiki. `WikiFollowsUnlessDisturbed`, from an invariant of each document
  that no fault, restart or overlap touched: one sync at most has it in hand, and what is
  fetched lives (`HeldWell`); its one page is mapped or in the hand that will map it
  (`PagedWell`); a page that is cleared is empty until it is written (`SaysWell`); and a
  change is noted, in a list to come or ahead of the sync that has an older text in hand
  (`FollowedWell`). The last one is stronger than the property, which is content with a sync
  that has the document: it holds because each write notes the document again. A restart,
  or a full sync that fails, excuses only the documents that were stale or in hand then
  (`Behind`): all others stay under the theorem.
* `BotsProofs`, the hub and the intake. `HubHoldsOneEditionUnlessEdited`, with what a request
  that nobody crossed has read being the author's edition still. `IntakeIsSoundUnlessUnsure`
  and `MentionCarriesTheMediaUnlessOvertakenOrBare`: a count that is kept is right or the group
  changed (`CountIsRight`), and while nothing failed or came twice a medium is in one place of
  three - it waits for the count, is kept for its user, or went with a message
  (`MediaAreKept`).

Left to TLC, and why:

* liveness and ENABLED (`EveryWaitEndsUnlessRetried`), out of the prover's reach;
* what a computation over a sequence yields for every input is induction over data: the
  text of an engine's turn (`TurnIsToldRightUnlessMixed`), the chunks of an answer on WeChat
  (`NothingIsLostUnlessRestarted`), the lines of a card (`CardTellsUnlessLost`) and of
  a document (`PageTellsTheDocumentUnlessTroubled`).

## 6. Not modelled, and what could come next

* Voice meetings (one prompt per bot in turn) and the binary format of RTC tokens.
* Layout: cards, metrics, audit logs, settings, team views, the office; inline markdown.
* Configuration and start-up: read once, no state that changes later.
* `handleCardAction`: the cards no longer have buttons, so nothing calls it.
* Downloads and uploads of Telegram; login of WeChat beyond the token it gives.
* An invalid timezone in a recurring task, and a failing or torn write of the scheduler's file
  or of `budgets.json`; the budget's rollover is modelled as it is, without a property (both
  are hazards).
* The course material, which has no state.

Next: a composition of bridge and pool with the executor's own
module in place of the view each has of it; two documents of one title in the sync.
