---- MODULE MCWaits ----
(***************************************************************************)
(* Who waits, and that every wait ends: for a turn of the persistent       *)
(* executor, for its shutdown, for the answer to a question, for an        *)
(* executor of the pool, for a task of the API or of the bridge, for an    *)
(* engine that was told to stop, for words to be recognized or answered,   *)
(* for a message to be taken.  A behaviour is of one of them (part); the   *)
(* variables of the others are Off, those of the pool as they were         *)
(* constructed.                                                            *)
(***************************************************************************)
EXTENDS MCExecutorRegistry

CONSTANTS None, q1, c1, c2, p1, p2, h1, h2, b1, r1, r2, m1, a1, Spontaneous,
          Continuation, Answer

VARIABLE part   \* which of them this behaviour is of
VARIABLES
  state, inputQueue, activeTurn, turnCounter, turns, abort, executorHook,
  resolvers, idleTimer, restartAttempts, recentRestart, shutdownPending,
  consumeLoop, sdk, executorWire,
  alive, turn, inTurn, hook, got, stray, wire, kind, loop, showing, aborted,
  procQ, pending, index, collected, timer, leaked, card, answering, cardSends,
  surfaced, slot, sending, onTime, noise, texts,
  req, circuits, budgets, saveTimer, disk, config, registry, cache, up, cost,
  crashes, admin, talks,
  engine, cli, verdict, told, said, spoke, subSpoke, asked, engineHook,
  engineStray, engineWire, buf, torn, acc, sawResult, engineQueue, finished,
  engineAborted, text, tools, enginePending, status, engineLoop,
  pc, running, bridgeQueue, batch, bridgeTurn, stream, bridgeAborted, retried,
  ui, asr, mic, asks, fetches, buttonUp, down, sess, current, configured,
  presses, buttonFaults, raced, late,
  shown, call, vv, handsAsks, open, reqs, sources, handsAsked, calls, sent,
  handsRaced,
  phase, wechatDisk, client, backoff, service, handed, task, chat, finals,
  restarted, faults

TwoEach == [q \in {q1} |-> 2]
PeersOf == [h \in {h1, h2} |-> {h1, h2} \ {h}]
Work    == {m1, a1}
WechatMessages == {[items |-> <<"text">>, form |-> "final"]}

Executor == INSTANCE PersistentExecutor WITH
  MaxTurns <- 1, WireBound <- 1, MaxRestartAttempts <- 1, Questions <- {q1},
  SdkInitiates <- TRUE, Spontaneous <- Spontaneous,
  Continuation <- Continuation, Answer <- Answer, NoOwner <- None,
  hook <- executorHook, wire <- executorWire
Questions == INSTANCE QuestionFlow WITH
  Questions <- {q1}, Subs <- TwoEach, Kinds <- {"chat", "api", "cont"},
  MaxNoise <- 1, MaxTexts <- 2, NoQuestion <- None
Talk == INSTANCE MCTalkApi WITH
  Hosts <- {h1, h2}, Bots <- {b1}, OtherBots <- 0, Reqs <- {r1, r2},
  PeersOf <- PeersOf, FailureThreshold <- 2, ResetTimeout <- 1,
  HalfOpenMax <- 1, MaxHistory <- 1, Limits <- {1}, MaxCost <- 1,
  MaxAdmin <- 1, MaxTalks <- 1, MaxHostCrashes <- 1, Absent <- None,
  hostUp <- up, budgetsFile <- disk, hostCrashes <- crashes
Engine == INSTANCE EngineStream WITH
  Engines <- {"claude", "kimi", "codex"}, MaxEvents <- 2, MaxQuestions <- 1,
  hook <- engineHook, stray <- engineStray, wire <- engineWire,
  aborted <- engineAborted, pending <- enginePending, loop <- engineLoop,
  queue <- engineQueue
Bridge == INSTANCE MessageBridge WITH
  Texts <- {m1}, Media <- {}, ApiTasks <- {a1}, MaxQueueSize <- 1,
  StaleSessions <- TRUE, Teardowns <- TRUE, Continuations <- TRUE,
  SendsFail <- FALSE, Continuation <- Continuation, queue <- bridgeQueue,
  turn <- bridgeTurn, aborted <- bridgeAborted
Button == INSTANCE HoldToTalk WITH
  MaxPresses <- 1, MaxFaults <- 1, up <- buttonUp, faults <- buttonFaults
Hands == INSTANCE HandsFree WITH
  MaxAsks <- 2, MaxCalls <- 1, MaxReqs <- 2, asked <- handsAsked,
  handsSent <- sent
Wechat == INSTANCE WechatBot WITH
  Chats <- {c1}, ConfigTokens <- {None, 1}, Messages <- WechatMessages,
  Answers <- {[chunks |-> 1, file |-> FALSE]}, MaxSent <- 1, MaxTokens <- 2,
  MaxTools <- 0, MaxFaults <- 1, disk <- wechatDisk

executorVars ==
  <<state, inputQueue, activeTurn, turnCounter, turns, abort, executorHook,
    resolvers, idleTimer, restartAttempts, recentRestart, shutdownPending,
    consumeLoop, sdk, executorWire>>
questionsVars ==
  <<alive, turn, inTurn, hook, got, stray, wire, kind, loop, showing, aborted,
    procQ, pending, index, collected, timer, leaked, card, answering,
    cardSends, surfaced, slot, sending, onTime, noise, texts>>
poolPartVars == <<vars, overlapped>>
talkVars ==
  <<req, circuits, budgets, saveTimer, disk, config, registry, cache, up,
    cost, crashes, admin, talks>>
engineVars ==
  <<engine, cli, verdict, told, said, spoke, subSpoke, asked, engineHook,
    engineStray, engineWire, buf, torn, acc, sawResult, engineQueue, finished,
    engineAborted, text, tools, enginePending, status, engineLoop>>
bridgePartVars ==
  <<pc, running, bridgeQueue, batch, bridgeTurn, stream, bridgeAborted,
    retried>>
buttonVars ==
  <<ui, asr, mic, asks, fetches, buttonUp, down, sess, current, configured,
    presses, buttonFaults, raced, late>>
handsVars ==
  <<shown, call, vv, handsAsks, open, reqs, sources, handsAsked, calls, sent,
    handsRaced>>
wechatVars ==
  <<phase, wechatDisk, client, backoff, service, handed, task, chat, finals,
    restarted, faults>>
allVars ==
  <<part, executorVars, questionsVars, poolPartVars, talkVars, engineVars, bridgePartVars,
    buttonVars, handsVars, wechatVars>>

Off == "off"
executorOff ==
  /\ state = Off /\ inputQueue = Off /\ activeTurn = Off /\ turnCounter = Off
  /\ turns = Off /\ abort = Off /\ executorHook = Off /\ resolvers = Off
  /\ idleTimer = Off /\ restartAttempts = Off /\ recentRestart = Off
  /\ shutdownPending = Off /\ consumeLoop = Off /\ sdk = Off /\ executorWire = Off
questionsOff ==
  /\ alive = Off /\ turn = Off /\ inTurn = Off /\ hook = Off /\ got = Off /\ stray = Off
  /\ wire = Off /\ kind = Off /\ loop = Off /\ showing = Off /\ aborted = Off
  /\ procQ = Off /\ pending = Off /\ index = Off /\ collected = Off /\ timer = Off
  /\ leaked = Off /\ card = Off /\ answering = Off /\ cardSends = Off /\ surfaced = Off
  /\ slot = Off /\ sending = Off /\ onTime = Off /\ noise = Off /\ texts = Off
talkOff ==
  /\ req = Off /\ circuits = Off /\ budgets = Off /\ saveTimer = Off /\ disk = Off
  /\ config = Off /\ registry = Off /\ cache = Off /\ up = Off /\ cost = Off
  /\ crashes = Off /\ admin = Off /\ talks = Off
engineOff ==
  /\ engine = Off /\ cli = Off /\ verdict = Off /\ told = Off /\ said = Off
  /\ spoke = Off /\ subSpoke = Off /\ asked = Off /\ engineHook = Off
  /\ engineStray = Off /\ engineWire = Off /\ buf = Off /\ torn = Off /\ acc = Off
  /\ sawResult = Off /\ engineQueue = Off /\ finished = Off /\ engineAborted = Off
  /\ text = Off /\ tools = Off /\ enginePending = Off /\ status = Off /\ engineLoop = Off
bridgeOff ==
  /\ pc = Off /\ running = Off /\ bridgeQueue = Off /\ batch = Off /\ bridgeTurn = Off
  /\ stream = Off /\ bridgeAborted = Off /\ retried = Off
buttonOff ==
  /\ ui = Off /\ asr = Off /\ mic = Off /\ asks = Off /\ fetches = Off /\ buttonUp = Off
  /\ down = Off /\ sess = Off /\ current = Off /\ configured = Off /\ presses = Off
  /\ buttonFaults = Off /\ raced = Off /\ late = Off
handsOff ==
  /\ shown = Off /\ call = Off /\ vv = Off /\ handsAsks = Off /\ open = Off /\ reqs = Off
  /\ sources = Off /\ handsAsked = Off /\ calls = Off /\ sent = Off /\ handsRaced = Off
wechatOff ==
  /\ phase = Off /\ wechatDisk = Off /\ client = Off /\ backoff = Off /\ service = Off
  /\ handed = Off /\ task = Off /\ chat = Off /\ finals = Off /\ restarted = Off
  /\ faults = Off

WaitsInit ==
  /\ MCInit
  /\ \/ /\ part = "executor" /\ Executor!Init
        /\ questionsOff /\ talkOff /\ engineOff /\ bridgeOff
        /\ buttonOff /\ handsOff /\ wechatOff
     \/ /\ part = "questions" /\ Questions!Init
        /\ executorOff /\ talkOff /\ engineOff /\ bridgeOff
        /\ buttonOff /\ handsOff /\ wechatOff
     \/ /\ part = "pool"
        /\ executorOff /\ questionsOff /\ talkOff /\ engineOff
        /\ bridgeOff /\ buttonOff /\ handsOff /\ wechatOff
     \/ /\ part = "talk" /\ Talk!HostsInit
        /\ executorOff /\ questionsOff /\ engineOff /\ bridgeOff
        /\ buttonOff /\ handsOff /\ wechatOff
     \/ /\ part = "engine" /\ Engine!Init
        /\ executorOff /\ questionsOff /\ talkOff /\ bridgeOff
        /\ buttonOff /\ handsOff /\ wechatOff
     \/ /\ part = "bridge" /\ Bridge!Init
        /\ executorOff /\ questionsOff /\ talkOff /\ engineOff
        /\ buttonOff /\ handsOff /\ wechatOff
     \/ /\ part = "button" /\ Button!Init
        /\ executorOff /\ questionsOff /\ talkOff /\ engineOff
        /\ bridgeOff /\ handsOff /\ wechatOff
     \/ /\ part = "hands" /\ Hands!HandsInit
        /\ executorOff /\ questionsOff /\ talkOff /\ engineOff
        /\ bridgeOff /\ buttonOff /\ wechatOff
     \/ /\ part = "wechat" /\ Wechat!Init
        /\ executorOff /\ questionsOff /\ talkOff /\ engineOff
        /\ bridgeOff /\ buttonOff /\ handsOff

WaitsNext ==
  /\ part' = part
  /\ \/ /\ part = "executor" /\ Executor!Next
        /\ UNCHANGED <<questionsVars, poolPartVars, talkVars, engineVars,
                       bridgePartVars, buttonVars, handsVars, wechatVars>>
     \/ /\ part = "questions" /\ Questions!Next
        /\ UNCHANGED <<executorVars, poolPartVars, talkVars, engineVars,
                       bridgePartVars, buttonVars, handsVars, wechatVars>>
     \/ /\ part = "pool" /\ MCNext
        /\ UNCHANGED <<executorVars, questionsVars, talkVars, engineVars,
                       bridgePartVars, buttonVars, handsVars, wechatVars>>
     \/ /\ part = "talk" /\ Talk!HostsNext
        /\ UNCHANGED <<executorVars, questionsVars, poolPartVars, engineVars,
                       bridgePartVars, buttonVars, handsVars, wechatVars>>
     \/ /\ part = "engine" /\ Engine!Next
        /\ UNCHANGED <<executorVars, questionsVars, poolPartVars, talkVars,
                       bridgePartVars, buttonVars, handsVars, wechatVars>>
     \/ /\ part = "bridge" /\ Bridge!Next
        /\ UNCHANGED <<executorVars, questionsVars, poolPartVars, talkVars,
                       engineVars, buttonVars, handsVars, wechatVars>>
     \/ /\ part = "button" /\ Button!Next
        /\ UNCHANGED <<executorVars, questionsVars, poolPartVars, talkVars,
                       engineVars, bridgePartVars, handsVars, wechatVars>>
     \/ /\ part = "hands" /\ Hands!HandsNext
        /\ UNCHANGED <<executorVars, questionsVars, poolPartVars, talkVars,
                       engineVars, bridgePartVars, buttonVars, wechatVars>>
     \/ /\ part = "wechat" /\ Wechat!Next
        /\ UNCHANGED <<executorVars, questionsVars, poolPartVars, talkVars,
                       engineVars, bridgePartVars, buttonVars, handsVars>>

-----------------------------------------------------------------------------
(* Fairness: that of each part. *)

\* The SDK may be silent for as long as it likes, but ends what it was told to
\* interrupt.  Who opened a turn finishes it some day, as the bridge's timers do;
\* but one that the SDK opened has no timer.
Interrupted == abort[1] \in {"interrupting", "draining"}

ExecutorFair ==
  /\ WF_executorVars(part = "executor" /\ Executor!Start)
  /\ WF_executorVars(part = "executor" /\ Executor!ShutdownReturns)
  /\ WF_executorVars(part = "executor" /\ Executor!Consume)
  /\ WF_executorVars(part = "executor" /\ Executor!Ends)
  /\ WF_executorVars(part = "executor" /\ Executor!InterruptReturns(1))
  /\ WF_executorVars(part = "executor" /\ Executor!AbortReturns(1))
  /\ WF_executorVars(part = "executor" /\ Executor!QuestionTimesOut(q1))
  /\ SF_executorVars(part = "executor" /\ Executor!SdkReads)
  /\ WF_executorVars(part = "executor" /\ ~turns[1].cont /\ Executor!Abort(1))
  /\ WF_executorVars(part = "executor" /\ Interrupted /\ Executor!SdkResult)
  /\ WF_executorVars(part = "executor" /\ inputQueue.finished /\ inputQueue.items = <<>>
                       /\ Executor!SdkStops("exited"))

QuestionsFair ==
  /\ WF_questionsVars(part = "questions" /\
       (Questions!ReadPlain \/ Questions!ReadInChat \/ Questions!CardsShown \/ Questions!ReadInApi
        \/ Questions!CallerAnswers \/ Questions!ReadInContinuation
        \/ Questions!LoopEnds \/ Questions!Finally))
  /\ WF_questionsVars(part = "questions" /\ \E a \in answering : Questions!AnswerResumes(a))
  /\ WF_questionsVars(part = "questions" /\ Questions!NextCardSent)
  /\ WF_questionsVars(part = "questions" /\ Questions!QuestionCardSent(q1))
  /\ WF_questionsVars(part = "questions" /\ Questions!QuestionTimerFires)
  /\ WF_questionsVars(part = "questions" /\ Questions!LeakedTimerFires)

PoolFair ==
  /\ \A p \in Callers :
       /\ WF_vars(part = "pool" /\ AcquireResumes(p))
       /\ WF_vars(part = "pool" /\ (AcquireAdds(p) \/ AcquireFails(p)))
  /\ \A e \in ExecIds : WF_vars(part = "pool" /\ ShutdownCompletes(e))

TalkFair ==
  \A r \in {r1, r2} : WF_talkVars(part = "talk" /\ Talk!TaskOf(r) /\ UNCHANGED <<admin, talks>>)

EngineFair ==
  /\ WF_engineVars(part = "engine" /\ told /\ Engine!CliEnds)
  /\ WF_engineVars(part = "engine" /\ Engine!HookCalled(1))
  /\ WF_engineVars(part = "engine" /\ Engine!HookLapses(1))
  /\ WF_engineVars(part = "engine" /\ Engine!ExecutorReads)
  /\ WF_engineVars(part = "engine" /\ Engine!Bridge)

BridgeFair ==
  /\ WF_bridgePartVars(part = "bridge" /\ Bridge!FlushBatch)
  /\ \A w \in Work :
       /\ WF_bridgePartVars(part = "bridge" /\ Bridge!Begin(w))
       /\ WF_bridgePartVars(part = "bridge" /\ Bridge!Loop(w))
       /\ WF_bridgePartVars(part = "bridge" /\ Bridge!TaskTimesOut(w))
  /\ WF_bridgePartVars(part = "bridge" /\ bridgeTurn.detached /\ Bridge!Results)

ButtonFair ==
  /\ WF_buttonVars(part = "button" /\ Button!SafetyTimeout)
  /\ WF_buttonVars(part = "button" /\ \E f \in fetches : Button!Transcribed(f))

HandsFair ==
  /\ WF_handsVars(part = "hands" /\ Hands!AnswerComes)
  /\ WF_handsVars(part = "hands" /\ Hands!Handle)

WechatFair ==
  /\ WF_wechatVars(part = "wechat" /\ (Wechat!Updates \/ Wechat!Refused))
  /\ WF_wechatVars(part = "wechat" /\ Wechat!Wakes)

WaitsSpec ==
  /\ WaitsInit /\ [][WaitsNext]_allVars
  /\ ExecutorFair /\ QuestionsFair /\ PoolFair /\ TalkFair /\ EngineFair /\ BridgeFair
  /\ ButtonFair /\ HandsFair /\ WechatFair

-----------------------------------------------------------------------------
(* Properties; PoolIsSoundUnlessOverlapped is MCExecutorRegistry's. *)

\* The stream of a retry, as long as the SDK does not end it: the timers finish
\* the handle of the first try, so a retry may wait for ever.
Unfinished(w) == w \in retried /\ stream[w] \in {"open", "orphaned"}

\* The i-th wait of each part.  Executor: the stream of a turn the bridge opened
\* and the end of an aborted turn, unless the executor is torn down; a shutdown.  Questions: a
\* question the task tracks.  Pool: an acquire(), for a release or for start().
\* API: the client who polls the task store.  Engine: a stop or a timeout.
\* Bridge: a task, of a text or of the API, but for one that waits for a retry's
\* stream nobody ends.  Button: the bar that says it recognizes.  Hands: the voice
\* view that waits for its answer.  WeChat: a message of a user, as long as the
\* token is good and no error has ended the loop.
Waits(i) ==
  \/ /\ part = "executor"
     /\ \/ /\ i = 1 /\ ~Executor!TearingDown
           /\ (Executor!Opened(1) /\ ~turns[1].cont /\ ~turns[1].finished) \/ (activeTurn = 1 /\ turns[1].detached)
        \/ i = 2 /\ state = "shutting_down"
  \/ part = "questions" /\ i = 1 /\ pending = q1 /\ loop # "over"
  \/ part = "pool" /\ i \in 1..2 /\ caller[<<p1, p2>>[i]].pc # "idle"
  \/ part = "talk" /\ i \in 1..2 /\ req[<<r1, r2>>[i]].task = "running"
  \/ part = "engine" /\ i = 1 /\ engineAborted /\ engineLoop # "over"
  \/ part = "bridge" /\ pc[<<m1, a1>>[i]] \in Bridge!Looping \cup {"finalizing"} /\ ~Unfinished(<<m1, a1>>[i])
  \/ part = "button" /\ i = 1 /\ ui.voice = "recognizing"
  \/ part = "hands" /\ i = 1 /\ vv.state = "processing" /\ \E r \in reqs : r.of = "view"
  \/ part = "wechat" /\ i = 1 /\ Wechat!Unhanded(1)

\* The voice view can be used again, also when the answer is an error.
Over(i) == IF part = "hands" THEN vv.state # "processing" ELSE ~Waits(i)

\* Every wait ends, whatever crashes, is torn down, stopped or never heard of
\* again, but that of a task for the stream of its retry.
EveryWaitEndsUnlessRetried == \A i \in 1..2 : Waits(i) ~> Over(i)
=============================================================================
