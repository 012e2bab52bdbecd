------------------------- MODULE PersistentExecutor -------------------------
(***************************************************************************)
(* One PersistentClaudeExecutor (engines/claude/persistent-executor.ts): a *)
(* Claude process kept alive across many user turns.  The executor's own   *)
(* state is modelled variable by variable; the SDK and the process behind  *)
(* it (sdk, wire) are external and do whatever the code allows for.        *)
(*                                                                         *)
(* JavaScript runs a handler to its next await without interruption, so an *)
(* action is one such run: a call, a timer, or one turn of the for-await   *)
(* loop of consumeLoop.                                                    *)
(***************************************************************************)
EXTENDS Naturals, Sequences

CONSTANTS
  MaxTurns,           \* bound: turns opened in a behaviour
  WireBound,          \* bound: SDK messages emitted and not consumed yet
  MaxRestartAttempts, \* options.maxRestartAttempts
  Questions,          \* ids of the AskUserQuestion tool uses
  SdkInitiates,       \* does the SDK open bursts nobody prompted for?
  Spontaneous,        \* owner of a teammate's or Stop hook's burst
  Continuation,       \* owner of a task-notification burst
  Answer,             \* owner of a burst caused by a late tool_result
  NoOwner             \* the SDK is between bursts

TurnIds == 1..MaxTurns
NoTurn  == 0
Others  == {Spontaneous, Continuation, Answer}
Owners  == TurnIds \cup Others

ASSUME BoundsAssumption ==
  /\ MaxTurns \in Nat
  /\ WireBound \in Nat \ {0}
  /\ MaxRestartAttempts \in Nat
  /\ SdkInitiates \in BOOLEAN

ASSUME OwnersAssumption ==
  /\ Spontaneous # Continuation /\ Spontaneous # Answer /\ Continuation # Answer
  /\ Others \cap Nat = {}
  /\ NoOwner \notin Nat \cup Others

VARIABLES
  state,           \* ExecutorState
  inputQueue,      \* prompts and late answers on their way to the SDK
  activeTurn,      \* the turn messages are routed to, or NoTurn
  turnCounter,
  turns,           \* what each TurnHandle and its AsyncQueue have been told
  abort,           \* progress of each turn's abort() promise
  hook,            \* AskUserQuestion hooks: none, waiting, answered, empty
  resolvers,       \* pendingQuestionResolvers
  idleTimer,       \* is the idle timer armed?
  restartAttempts,
  recentRestart,   \* lastRestartAt is less than RESTART_COUNTER_RESET_MS ago
  shutdownPending, \* a shutdown() call waits for the consumer loop
  consumeLoop,     \* running, restarting (inside maybeRestart) or exited
  sdk,             \* the process, and the burst it is working on
  wire             \* SDK messages not consumed yet

turnVars == <<activeTurn, turnCounter, turns, abort>>
hookVars == <<hook, resolvers>>
lifeVars == <<state, restartAttempts, recentRestart, shutdownPending, consumeLoop>>
sdkVars  == <<sdk, wire>>
vars == <<turnVars, hookVars, lifeVars, sdkVars, inputQueue, idleTimer>>

ExecutorState == {"starting", "ready", "restarting", "shutting_down", "closed", "crashed"}
Message == [type : {"message", "task-notification", "result"}, owner : Owners]
Turn == [ cont      : BOOLEAN,          \* opened by the SDK
          detached  : BOOLEAN,
          completed : BOOLEAN,
          finished  : BOOLEAN,          \* queue.finish() was called
          drained   : BOOLEAN,          \* drainResolve() was called
          got       : SUBSET Owners ]   \* whose messages the listener received

NewTurn(cont, got) ==
  [cont |-> cont, detached |-> FALSE, completed |-> FALSE,
   finished |-> FALSE, drained |-> FALSE, got |-> got]

Init ==
  /\ state = "starting"
  /\ inputQueue = [items |-> <<>>, finished |-> FALSE]
  /\ activeTurn = NoTurn /\ turnCounter = 0
  /\ turns = [t \in TurnIds |-> NewTurn(FALSE, {})]
  /\ abort = [t \in TurnIds |-> "none"]
  /\ hook = [q \in Questions |-> "none"] /\ resolvers = {}
  /\ idleTimer = FALSE
  /\ restartAttempts = 0 /\ recentRestart = FALSE
  /\ shutdownPending = FALSE /\ consumeLoop = "exited"
  /\ sdk = [status |-> "none", burst |-> NoOwner] /\ wire = <<>>

-----------------------------------------------------------------------------
(* Helpers: AsyncQueue.enqueue on the input, and query() coming up.        *)

Enqueue(owner) ==
  inputQueue' = IF inputQueue.finished THEN inputQueue
                ELSE [inputQueue EXCEPT !.items = Append(@, owner)]

QueryStarts ==
  /\ sdk' = [status |-> "running", burst |-> NoOwner]
  /\ wire' = <<>>
  /\ consumeLoop' = "running"
  /\ idleTimer' = TRUE     \* no turn is active on either path into start()

(* Lifecycle ***************************************************************)

\* start() runs without an await, so callers only ever see 'ready' after it.
Start ==
  /\ state = "starting"
  /\ state' = "ready"
  /\ QueryStarts
  /\ UNCHANGED <<turnVars, hookVars, inputQueue, restartAttempts, recentRestart, shutdownPending>>

BeginShutdown ==
  /\ state' = "shutting_down"
  /\ idleTimer' = FALSE
  /\ inputQueue' = [inputQueue EXCEPT !.finished = TRUE]
  /\ shutdownPending' = TRUE
  /\ UNCHANGED <<turnVars, hookVars, sdkVars, restartAttempts, recentRestart, consumeLoop>>

Shutdown ==
  /\ state \notin {"closed", "shutting_down"}
  /\ BeginShutdown

\* The consumer loop exits, or the ten seconds are over and it is abandoned.
ShutdownReturns ==
  /\ shutdownPending /\ consumeLoop # "restarting"
  /\ shutdownPending' = FALSE
  /\ state' = "closed"
  /\ UNCHANGED <<turnVars, hookVars, sdkVars, inputQueue, idleTimer,
                 restartAttempts, recentRestart, consumeLoop>>

IdleTimerFires ==
  /\ idleTimer
  /\ IF state = "ready" /\ activeTurn = NoTurn
     THEN BeginShutdown
     ELSE /\ idleTimer' = FALSE
          /\ UNCHANGED <<turnVars, hookVars, lifeVars, sdkVars, inputQueue>>

\* Five minutes pass since the last restart.
RestartWindowPasses ==
  /\ recentRestart
  /\ recentRestart' = FALSE
  /\ UNCHANGED <<turnVars, hookVars, sdkVars, inputQueue, idleTimer, state,
                 restartAttempts, shutdownPending, consumeLoop>>

(* Turns *******************************************************************)

NextTurn ==
  /\ state = "ready" /\ activeTurn = NoTurn
  /\ turnCounter < MaxTurns
  /\ turnCounter' = turnCounter + 1
  /\ activeTurn' = turnCounter'
  /\ turns' = [turns EXCEPT ![turnCounter'] = NewTurn(FALSE, {})]
  /\ Enqueue(turnCounter')
  /\ idleTimer' = TRUE     \* touchActivity() comes before activeTurn is set
  /\ UNCHANGED <<abort, hookVars, lifeVars, sdkVars>>

\* Slip: abort() gives the turn slot back before the stream is drained.
AbortAtOnce(t) ==
  /\ activeTurn = t
  /\ ~turns[t].completed /\ ~turns[t].detached
  /\ turns' = [turns EXCEPT ![t].detached = TRUE, ![t].finished = TRUE]
  /\ activeTurn' = NoTurn /\ idleTimer' = TRUE
  /\ abort' = [abort EXCEPT ![t] = "interrupting"]
  /\ UNCHANGED <<turnCounter, hookVars, lifeVars, sdkVars, inputQueue>>

\* abort(), or finish(), up to its await of interrupt().
Abort(t) ==
  /\ activeTurn = t
  /\ ~turns[t].completed /\ ~turns[t].detached
  /\ turns' = [turns EXCEPT ![t].detached = TRUE, ![t].finished = TRUE]
  /\ abort' = [abort EXCEPT ![t] = "interrupting"]
  /\ UNCHANGED <<activeTurn, turnCounter, hookVars, lifeVars, sdkVars, inputQueue, idleTimer>>

InterruptReturns(t) ==
  /\ abort[t] = "interrupting"
  /\ abort' = [abort EXCEPT ![t] = "draining"]
  /\ UNCHANGED <<activeTurn, turnCounter, turns, hookVars, lifeVars, sdkVars, inputQueue, idleTimer>>

AbortReturns(t) ==
  /\ abort[t] = "draining" /\ turns[t].drained
  /\ abort' = [abort EXCEPT ![t] = "returned"]
  /\ UNCHANGED <<activeTurn, turnCounter, turns, hookVars, lifeVars, sdkVars, inputQueue, idleTimer>>

(* AskUserQuestion *********************************************************)

QuestionAsked(q) ==
  /\ sdk.status = "running" /\ sdk.burst # NoOwner
  /\ hook[q] = "none"
  /\ hook' = [hook EXCEPT ![q] = "waiting"]
  /\ resolvers' = resolvers \cup {q}
  /\ UNCHANGED <<turnVars, lifeVars, sdkVars, inputQueue, idleTimer>>

\* resolveQuestion(): the hook's resolver, or a tool_result as a fallback.
ResolveQuestion(q) ==
  /\ hook[q] \in {"waiting", "empty"}
  /\ IF q \in resolvers
     THEN resolvers' = resolvers \ {q} /\ UNCHANGED inputQueue
     ELSE Enqueue(Answer) /\ UNCHANGED resolvers
  /\ hook' = [hook EXCEPT ![q] = "answered"]
  /\ UNCHANGED <<turnVars, lifeVars, sdkVars, idleTimer>>

\* Slip: the timeout answers the hook and keeps its resolver.
QuestionTimesOutKeepingResolver(q) ==
  /\ q \in resolvers
  /\ hook' = [hook EXCEPT ![q] = "empty"]
  /\ UNCHANGED <<turnVars, resolvers, lifeVars, sdkVars, inputQueue, idleTimer>>

QuestionTimesOut(q) ==
  /\ q \in resolvers
  /\ resolvers' = resolvers \ {q}
  /\ hook' = [hook EXCEPT ![q] = "empty"]
  /\ UNCHANGED <<turnVars, lifeVars, sdkVars, inputQueue, idleTimer>>

\* The hook's AbortSignal: the SDK interrupts the burst, or it is gone.
QuestionAborted(q) ==
  /\ hook[q] = "waiting"
  /\ sdk.status # "running" \/ \E t \in TurnIds : abort[t] = "interrupting"
  /\ resolvers' = resolvers \ {q}
  /\ hook' = [hook EXCEPT ![q] = "empty"]
  /\ UNCHANGED <<turnVars, lifeVars, sdkVars, inputQueue, idleTimer>>

\* A TaskCreated, TaskCompleted or TeammateIdle hook calls touchActivity().
TeamHook ==
  /\ sdk.status = "running"
  /\ idleTimer' = (activeTurn = NoTurn)
  /\ UNCHANGED <<turnVars, hookVars, lifeVars, sdkVars, inputQueue>>

(* consumeLoop: one message, or the end of the stream. *********************)

Receives == consumeLoop = "running" /\ wire # <<>> /\ wire' = Tail(wire)

Forward ==
  LET msg == Head(wire) IN
  /\ Receives
  /\ activeTurn # NoTurn /\ ~turns[activeTurn].detached
  /\ IF msg.type = "result"
     THEN /\ turns' = [turns EXCEPT ![activeTurn].got = @ \cup {msg.owner},
                                    ![activeTurn].completed = TRUE,
                                    ![activeTurn].finished = TRUE]
          /\ activeTurn' = NoTurn
          /\ idleTimer' = TRUE
     ELSE /\ turns' = [turns EXCEPT ![activeTurn].got = @ \cup {msg.owner}]
          /\ idleTimer' = FALSE
          /\ UNCHANGED activeTurn
  /\ UNCHANGED <<turnCounter, abort, hookVars, lifeVars, sdk, inputQueue>>

\* Slips in the drain: no timer armed, resolved by any message, slot kept.
DrainWithoutTimer ==
  /\ Receives
  /\ activeTurn # NoTurn /\ turns[activeTurn].detached
  /\ idleTimer' = FALSE
  /\ IF Head(wire).type = "result"
     THEN /\ turns' = [turns EXCEPT ![activeTurn].completed = TRUE,
                                    ![activeTurn].drained = TRUE]
          /\ activeTurn' = NoTurn
     ELSE UNCHANGED <<turns, activeTurn>>
  /\ UNCHANGED <<turnCounter, abort, hookVars, lifeVars, sdk, inputQueue>>

DrainByAnyMessage ==
  /\ Receives
  /\ activeTurn # NoTurn /\ turns[activeTurn].detached
  /\ turns' = [turns EXCEPT ![activeTurn].completed = TRUE,
                            ![activeTurn].drained = TRUE]
  /\ activeTurn' = NoTurn
  /\ idleTimer' = TRUE
  /\ UNCHANGED <<turnCounter, abort, hookVars, lifeVars, sdk, inputQueue>>

Drain ==
  /\ Receives
  /\ activeTurn # NoTurn /\ turns[activeTurn].detached
  /\ IF Head(wire).type = "result"
     THEN /\ turns' = [turns EXCEPT ![activeTurn].completed = TRUE,
                                    ![activeTurn].drained = TRUE]
          /\ activeTurn' = NoTurn
          /\ idleTimer' = TRUE
     ELSE /\ idleTimer' = FALSE
          /\ UNCHANGED <<turns, activeTurn>>
  /\ UNCHANGED <<turnCounter, abort, hookVars, lifeVars, sdk, inputQueue>>

\* classifyBurstSource(msg) = 'continuation': a turn nobody prompted for.
OpenContinuation ==
  /\ Receives
  /\ activeTurn = NoTurn /\ Head(wire).type = "task-notification"
  /\ turnCounter < MaxTurns
  /\ turnCounter' = turnCounter + 1
  /\ activeTurn' = turnCounter'
  /\ turns' = [turns EXCEPT ![turnCounter'] = NewTurn(TRUE, {Head(wire).owner})]
  /\ idleTimer' = TRUE
  /\ UNCHANGED <<abort, hookVars, lifeVars, sdk, inputQueue>>

\* pushSpontaneous(): nothing below depends on what the ring buffer holds.
\* At the bound on turns a task-notification is buffered too.
BufferSpontaneous ==
  /\ Receives
  /\ activeTurn = NoTurn
  /\ Head(wire).type = "task-notification" => turnCounter = MaxTurns
  /\ idleTimer' = TRUE
  /\ UNCHANGED <<turnVars, hookVars, lifeVars, sdk, inputQueue>>

StreamOver(how) == consumeLoop = "running" /\ wire = <<>> /\ sdk.status = how

StreamEnds ==
  /\ StreamOver("exited")
  /\ consumeLoop' = "exited"
  /\ state' = "closed"
  /\ UNCHANGED <<turnVars, hookVars, sdkVars, inputQueue, idleTimer,
                 restartAttempts, recentRestart, shutdownPending>>

StreamErrorsInShutdown ==
  /\ StreamOver("failed")
  /\ state \in {"shutting_down", "closed"}
  /\ consumeLoop' = "exited"
  /\ UNCHANGED <<turnVars, hookVars, sdkVars, inputQueue, idleTimer, state,
                 restartAttempts, recentRestart, shutdownPending>>

\* Slip: the lost turn's queue is not finished.
LoseActiveTurnSilently ==
  /\ turns' = IF activeTurn = NoTurn THEN turns
              ELSE [turns EXCEPT ![activeTurn].detached = TRUE]
  /\ activeTurn' = NoTurn
  /\ UNCHANGED <<turnCounter, abort>>

\* "Notify any active turn that it was lost".
LoseActiveTurn ==
  /\ turns' = IF activeTurn = NoTurn THEN turns
              ELSE [turns EXCEPT ![activeTurn].detached = TRUE,
                                 ![activeTurn].finished = TRUE]
  /\ activeTurn' = NoTurn
  /\ UNCHANGED <<turnCounter, abort>>

\* maybeRestart(): restarts within the window count, older ones are forgiven.
AttemptsSoFar == IF recentRestart THEN restartAttempts ELSE 0

\* Slip: the 'shutting_down'/'closed' check before maybeRestart() is missing.
CrashesInShutdown ==
  /\ StreamOver("failed")
  /\ LoseActiveTurn

Crashes ==
  /\ StreamOver("failed")
  /\ state \notin {"shutting_down", "closed"}
  /\ LoseActiveTurn

CrashGivesUp ==
  /\ Crashes
  /\ AttemptsSoFar >= MaxRestartAttempts
  /\ restartAttempts' = AttemptsSoFar
  /\ state' = "closed"
  /\ consumeLoop' = "exited"
  /\ UNCHANGED <<hookVars, sdkVars, inputQueue, idleTimer, recentRestart, shutdownPending>>

\* Slip: one restart more than maxRestartAttempts.
CrashRestartsOnceMore ==
  /\ Crashes
  /\ AttemptsSoFar <= MaxRestartAttempts
  /\ restartAttempts' = AttemptsSoFar + 1
  /\ recentRestart' = TRUE
  /\ inputQueue' = [items |-> <<>>, finished |-> FALSE]
  /\ state' = "ready"
  /\ QueryStarts
  /\ UNCHANGED <<hookVars, shutdownPending>>

CrashRestarts ==
  /\ Crashes
  /\ AttemptsSoFar < MaxRestartAttempts
  /\ restartAttempts' = AttemptsSoFar + 1
  /\ recentRestart' = TRUE
  /\ inputQueue' = [items |-> <<>>, finished |-> FALSE]
  /\ state' = "ready"
  /\ QueryStarts
  /\ UNCHANGED <<hookVars, shutdownPending>>

\* query() throws inside start(): the rejection reaches maybeRestart() later.
CrashRestartThrows ==
  /\ Crashes
  /\ AttemptsSoFar < MaxRestartAttempts
  /\ restartAttempts' = AttemptsSoFar + 1
  /\ recentRestart' = TRUE
  /\ inputQueue' = [items |-> <<>>, finished |-> FALSE]
  /\ state' = "restarting"
  /\ consumeLoop' = "restarting"
  /\ UNCHANGED <<hookVars, sdkVars, idleTimer, shutdownPending>>

RestartRejected ==
  /\ consumeLoop = "restarting"
  /\ consumeLoop' = "exited"
  /\ state' = "crashed"
  /\ UNCHANGED <<turnVars, hookVars, sdkVars, inputQueue, idleTimer,
                 restartAttempts, recentRestart, shutdownPending>>

(* The SDK and the process behind it (external). ***************************)

SdkReads ==
  /\ sdk.status = "running" /\ sdk.burst = NoOwner
  /\ inputQueue.items # <<>>
  /\ sdk' = [sdk EXCEPT !.burst = Head(inputQueue.items)]
  /\ inputQueue' = [inputQueue EXCEPT !.items = Tail(@)]
  /\ UNCHANGED <<turnVars, hookVars, lifeVars, wire, idleTimer>>

SdkSelfPrompts(owner) ==
  /\ SdkInitiates
  /\ sdk.status = "running" /\ sdk.burst = NoOwner
  /\ Len(wire) < WireBound
  /\ sdk' = [sdk EXCEPT !.burst = owner]
  /\ wire' = Append(wire, [type |-> IF owner = Continuation THEN "task-notification"
                                    ELSE "message",
                           owner |-> owner])
  /\ UNCHANGED <<turnVars, hookVars, lifeVars, inputQueue, idleTimer>>

SdkEmits ==
  /\ sdk.status = "running" /\ sdk.burst # NoOwner
  /\ Len(wire) < WireBound
  /\ wire' = Append(wire, [type |-> "message", owner |-> sdk.burst])
  /\ UNCHANGED <<turnVars, hookVars, lifeVars, inputQueue, idleTimer, sdk>>

\* A burst ends with its result, once no question of it is waiting.
SdkResult ==
  /\ sdk.status = "running" /\ sdk.burst # NoOwner
  /\ Len(wire) <= WireBound
  /\ \A q \in Questions : hook[q] # "waiting"
  /\ wire' = Append(wire, [type |-> "result", owner |-> sdk.burst])
  /\ sdk' = [sdk EXCEPT !.burst = NoOwner]
  /\ UNCHANGED <<turnVars, hookVars, lifeVars, inputQueue, idleTimer>>

SdkStops(how) ==
  /\ sdk.status = "running"
  /\ sdk' = [status |-> how, burst |-> NoOwner]
  /\ UNCHANGED <<turnVars, hookVars, lifeVars, inputQueue, idleTimer, wire>>

-----------------------------------------------------------------------------

TurnNext == NextTurn \/ \E t \in TurnIds : Abort(t) \/ InterruptReturns(t) \/ AbortReturns(t)
HookNext ==
  \/ \E q \in Questions :
       QuestionAsked(q) \/ ResolveQuestion(q) \/ QuestionTimesOut(q) \/ QuestionAborted(q)
  \/ TeamHook
Consume == Forward \/ Drain \/ OpenContinuation \/ BufferSpontaneous
Ends ==
  \/ StreamEnds \/ StreamErrorsInShutdown
  \/ CrashGivesUp \/ CrashRestarts \/ CrashRestartThrows \/ RestartRejected
SdkNext ==
  \/ SdkReads \/ SdkEmits \/ SdkResult
  \/ \E owner \in {Spontaneous, Continuation} : SdkSelfPrompts(owner)
  \/ \E how \in {"exited", "failed"} : SdkStops(how)

Next ==
  \/ Start \/ Shutdown \/ ShutdownReturns \/ IdleTimerFires \/ RestartWindowPasses
  \/ TurnNext \/ HookNext \/ Consume \/ Ends \/ SdkNext

Spec == Init /\ [][Next]_vars

\* Promises settle, timers fire, the event loop reads the stream, and the SDK
\* takes its input, ends its bursts and exits once its input is closed.
Fairness ==
  /\ WF_vars(Start) /\ WF_vars(ShutdownReturns)
  /\ WF_vars(Consume) /\ WF_vars(Ends)
  /\ \A t \in TurnIds : WF_vars(InterruptReturns(t)) /\ WF_vars(AbortReturns(t))
  /\ \A q \in Questions : WF_vars(QuestionTimesOut(q))
  /\ SF_vars(SdkReads) /\ WF_vars(SdkResult)
  /\ WF_vars(inputQueue.finished /\ inputQueue.items = <<>> /\ SdkStops("exited"))

FairSpec == Spec /\ Fairness

-----------------------------------------------------------------------------

TypeOK ==
  /\ state \in ExecutorState
  /\ inputQueue \in [items : Seq(Owners), finished : BOOLEAN]
  /\ activeTurn \in TurnIds \cup {NoTurn} /\ turnCounter \in 0..MaxTurns
  /\ turns \in [TurnIds -> Turn]
  /\ abort \in [TurnIds -> {"none", "interrupting", "draining", "returned"}]
  /\ hook \in [Questions -> {"none", "waiting", "answered", "empty"}]
  /\ resolvers \in SUBSET Questions
  /\ idleTimer \in BOOLEAN
  /\ restartAttempts \in 0..MaxRestartAttempts /\ recentRestart \in BOOLEAN
  /\ shutdownPending \in BOOLEAN
  /\ consumeLoop \in {"running", "restarting", "exited"}
  /\ sdk \in [status : {"none", "running", "exited", "failed"}, burst : Owners \cup {NoOwner}]
  /\ wire \in Seq(Message)

Opened(t)    == t \in TurnIds /\ t <= turnCounter
TearingDown  == state \in {"shutting_down", "closed"}

\* "Only one TurnHandle in flight per executor at a time": the stream of every
\* turn that was ever opened, except the active one, has been ended.
OneTurnInFlight ==
  \A t \in TurnIds : Opened(t) /\ t # activeTurn => turns[t].finished

\* An executor with nothing to do is always on its way to being reclaimed: no
\* path through a completion, an abort or a restart forgets the idle timer.
IdleExecutorHasTimer ==
  state = "ready" /\ activeTurn = NoTurn => idleTimer

\* Once its abort() has drained a turn, no message of that turn is still to
\* come: "the caller can immediately call nextTurn() afterwards without
\* polluting the next turn with this turn's straggling messages".
AbortLeavesNoStragglers ==
  \A t \in TurnIds : turns[t].drained =>
    /\ sdk.burst # t
    /\ \A i \in 1..Len(wire) : wire[i].owner # t
    /\ \A i \in 1..Len(inputQueue.items) : inputQueue.items[i] # t

\* A turn's stream "yields only messages belonging to this turn".
TurnIsolation ==
  \A t \in TurnIds : ~turns[t].cont => turns[t].got \subseteq {t}

\* A hook waits exactly as long as the bridge can still reach its resolver.
ResolverWhileWaiting ==
  \A q \in Questions : hook[q] = "waiting" <=> q \in resolvers

\* A closed executor stays closed: neither a stream that fails after the ten
\* second shutdown limit nor a restart under way brings it back.
ClosedIsFinal == [][state = "closed" => state' = "closed"]_vars

\* Every turn's stream ends.
TurnEnds == \A t \in TurnIds : Opened(t) ~> turns[t].finished

\* A shutdown comes to its end, also one that meets a restart.
ShutdownCompletes == state = "shutting_down" ~> state = "closed"
=============================================================================
