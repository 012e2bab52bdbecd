---------------------------- MODULE MessageBridge ----------------------------
(***************************************************************************)
(* How the bridge turns the messages of one chat into turns of the chat's  *)
(* persistent executor (bridge/message-bridge.ts): the running task, the   *)
(* message queue, the media batch, /stop, timeouts and the retry with a    *)
(* fresh session.  All of this state is keyed by chat in the code, so one  *)
(* chat is modelled.  Questions are the subject of QuestionFlow.           *)
(*                                                                         *)
(* executeQuery and executeApiTask are asynchronous: an action is the code *)
(* between two of their awaits.  A task is named after the message it      *)
(* runs.  Of the executor only the turn slot is kept; module               *)
(* PersistentExecutor has the rest.                                        *)
(***************************************************************************)
EXTENDS Naturals, Sequences, SequencesExt

CONSTANTS
  Texts,            \* text messages
  Media,            \* images and files that come without a text of their own
  ApiTasks,         \* calls of executeApiTask
  MaxQueueSize,     \* MAX_QUEUE_SIZE
  StaleSessions,    \* can a turn fail for its session, unknown or too long?
  Teardowns,        \* can the executor be released or evicted under a turn?
  Continuations,    \* does the SDK open turns of its own?
  SendsFail,        \* can the first card fail to be sent?
  Continuation,     \* owner of such a turn
  None

Work == Texts \cup Media \cup ApiTasks

ASSUME BridgeAssumption ==
  /\ MaxQueueSize \in Nat \ {0}
  /\ Texts \cap Media = {} /\ ApiTasks \cap (Texts \cup Media) = {}
  /\ None \notin Work \cup {Continuation} /\ Continuation \notin Work
  /\ {StaleSessions, Teardowns, Continuations, SendsFail} \subseteq BOOLEAN

VARIABLES
  pc,         \* where each message is
  running,    \* runningTasks.get(chatId)
  queue,      \* messageQueues.get(chatId)
  batch,      \* pendingBatches.get(chatId); its timer is armed if not empty
  turn,       \* the executor's activeTurn and whether it is detached
  stream,     \* what each task's current TurnHandle.stream has to offer
  aborted,    \* tasks whose abortController was aborted
  retried     \* tasks that hold a second TurnHandle

taskVars == <<stream, aborted, retried>>
vars == <<pc, running, queue, batch, turn, taskVars>>

NoTurn == [owner |-> None, detached |-> FALSE]
TurnOf(w) == [owner |-> w, detached |-> FALSE]

Waiting  == {"batched", "queued", "merged"}
Starting == {"preparing", "starting"}
Streams  == {"streaming", "restreaming", "lastStream"}
Retries  == {"retrying", "lastRetry"}
Looping  == Streams \cup Retries
Over     == {"done", "refused", "discarded", "lost", "failed", "thrown"}

Init ==
  /\ pc = [w \in Work |-> "new"]
  /\ running = None /\ queue = <<>> /\ batch = <<>>
  /\ turn = NoTurn
  /\ stream = [w \in Work |-> "none"]
  /\ aborted = {} /\ retried = {}

-----------------------------------------------------------------------------
Goes(ws, where) == [w \in Work |-> IF w \in ws THEN where ELSE pc[w]]

\* Slip: the limit is checked one too late.
QueueOrOneMore(w, merged, otherwise) ==
  IF Len(queue) <= MaxQueueSize
  THEN /\ queue' = Append(queue, w)
       /\ pc' = [Goes(merged, "merged") EXCEPT ![w] = "queued"]
  ELSE /\ UNCHANGED queue
       /\ pc' = Goes(merged \cup {w}, otherwise)

\* messageQueues: at the limit a text is refused with a notice, a flushed
\* media batch is not kept.
QueueOr(w, merged, otherwise) ==
  IF Len(queue) < MaxQueueSize
  THEN /\ queue' = Append(queue, w)
       /\ pc' = [Goes(merged, "merged") EXCEPT ![w] = "queued"]
  ELSE /\ UNCHANGED queue
       /\ pc' = Goes(merged \cup {w}, otherwise)

(* handleMessage ***********************************************************)

\* Slips: a text leaves the open batch alone, or joins it.
ReceiveTextLeavingBatch(m) ==
  /\ pc[m] = "new"
  /\ IF running # None
     THEN QueueOr(m, {}, "refused")
     ELSE pc' = [pc EXCEPT ![m] = "preparing"] /\ UNCHANGED queue
  /\ UNCHANGED <<running, batch, turn, taskVars>>

ReceiveTextIntoBatch(m) ==
  /\ pc[m] = "new"
  /\ batch' = Append(batch, m)
  /\ pc' = [pc EXCEPT ![m] = "batched"]
  /\ UNCHANGED <<running, queue, turn, taskVars>>

\* A text takes the media batched before it along (mergeBatchWithText).
ReceiveText(m) ==
  /\ pc[m] = "new"
  /\ batch' = <<>>
  /\ IF running # None
     THEN QueueOr(m, ToSet(batch), "refused")
     ELSE /\ pc' = [Goes(ToSet(batch), "merged") EXCEPT ![m] = "preparing"]
          /\ UNCHANGED queue
  /\ UNCHANGED <<running, turn, taskVars>>

\* Media wait for more in the batch, unless a task runs and no batch is open.
ReceiveMedia(m) ==
  /\ pc[m] = "new"
  /\ IF running # None /\ batch = <<>>
     THEN QueueOr(m, {}, "refused") /\ UNCHANGED batch
     ELSE /\ batch' = Append(batch, m)
          /\ pc' = [pc EXCEPT ![m] = "batched"]
          /\ UNCHANGED queue
  /\ UNCHANGED <<running, turn, taskVars>>

\* A command the bridge does not know runs at once or is turned away.
ReceiveUnknownCommand(m) ==
  /\ pc[m] = "new"
  /\ pc' = [pc EXCEPT ![m] = IF running # None THEN "refused" ELSE "preparing"]
  /\ UNCHANGED <<running, queue, batch, turn, taskVars>>

\* The debounce timer: flushBatch.  The first message stands for all.
FlushBatch ==
  /\ batch # <<>>
  /\ batch' = <<>>
  /\ IF running # None
     THEN QueueOr(Head(batch), ToSet(Tail(batch)), "lost")
     ELSE /\ pc' = [Goes(ToSet(Tail(batch)), "merged") EXCEPT ![Head(batch)] = "preparing"]
          /\ UNCHANGED queue
  /\ UNCHANGED <<running, turn, taskVars>>

ReceiveApiTask(w) ==
  /\ pc[w] = "new"
  /\ pc' = [pc EXCEPT ![w] = IF running # None THEN "refused" ELSE "preparing"]
  /\ UNCHANGED <<running, queue, batch, turn, taskVars>>

(* executeQuery and executeApiTask up to the loop **************************)

\* Downloads and the first card are done; runOneTurn acquires the executor.
CardSent(w) ==
  /\ pc[w] = "preparing"
  /\ pc' = [pc EXCEPT ![w] = "starting"]
  /\ UNCHANGED <<running, queue, batch, turn, taskVars>>

\* "Failed to send initial card, aborting", or no executor could be started.
StartFails(w) ==
  /\ SendsFail
  /\ pc[w] \in Starting
  /\ pc' = [pc EXCEPT ![w] = "failed"]
  /\ UNCHANGED <<running, queue, batch, turn, taskVars>>

\* nextTurn() succeeds; the task is registered in runningTasks.
TurnStarts(w) ==
  /\ pc[w] = "starting"
  /\ turn.owner = None
  /\ turn' = TurnOf(w)
  /\ stream' = [stream EXCEPT ![w] = "open"]
  /\ running' = w
  /\ pc' = [pc EXCEPT ![w] = "streaming"]
  /\ UNCHANGED <<queue, batch, aborted, retried>>

\* nextTurn() throws: "turn ... is in flight".
TurnThrows(w) ==
  /\ pc[w] = "starting"
  /\ turn.owner # None
  /\ pc' = [pc EXCEPT ![w] = "thrown"]
  /\ UNCHANGED <<running, queue, batch, turn, taskVars>>

(* TurnHandle.finish() *****************************************************)

\* What finish() of the task's current handle does to the turn and the stream.
FinishTurn(w) ==
  IF turn.owner = w /\ ~turn.detached THEN [turn EXCEPT !.detached = TRUE] ELSE turn
FinishStream(w) ==
  IF stream[w] \in {"open", "orphaned"} THEN [stream EXCEPT ![w] = "ended"] ELSE stream

\* The const executionHandle of the code: the first handle, over after a retry.
FinishFirst(w) ==
  IF w \in retried THEN UNCHANGED <<turn, stream>>
  ELSE turn' = FinishTurn(w) /\ stream' = FinishStream(w)

(* The loop over the stream, retry and finally *****************************)

\* A stale session is retried once, for a message that of an overflow after it.
RetryNeeded(w) ==
  \/ pc[w] = "streaming" /\ stream[w] \in {"stale", "overflow"}
  \/ pc[w] = "restreaming" /\ stream[w] = "overflow"

\* No retry either if the loop sees the abort before the error.
StreamEnds(w) ==
  /\ pc[w] \in Streams
  /\ stream[w] \in {"result", "stale", "overflow", "ended"}
  /\ RetryNeeded(w) => w \in aborted
  /\ pc' = [pc EXCEPT ![w] = "finalizing"]
  /\ UNCHANGED <<running, queue, batch, turn, taskVars>>

\* The executor is released, whatever turn it has by now.
RetryBegins(w, stage) ==
  /\ RetryNeeded(w)
  /\ stage = "retrying" <=> stream[w] = "stale" /\ w \notin ApiTasks
  /\ pc' = [pc EXCEPT ![w] = stage]
  /\ turn' = NoTurn
  /\ stream' = IF turn.owner \in Work /\ ~turn.detached
               THEN [stream EXCEPT ![turn.owner] = "orphaned"] ELSE stream
  /\ UNCHANGED <<running, queue, batch, aborted, retried>>

RetryStarts(w) ==
  /\ pc[w] \in Retries
  /\ turn.owner = None
  /\ turn' = TurnOf(w)
  /\ stream' = [stream EXCEPT ![w] = "open"]
  /\ retried' = retried \cup {w}
  /\ pc' = [pc EXCEPT ![w] = IF @ = "retrying" THEN "restreaming" ELSE "lastStream"]
  /\ UNCHANGED <<running, queue, batch, aborted>>

RetryThrows(w) ==
  /\ pc[w] \in Retries
  /\ turn.owner # None
  /\ pc' = [pc EXCEPT ![w] = "finalizing"]
  /\ UNCHANGED <<running, queue, batch, turn, taskVars>>

\* `if (abortController.signal.aborted) break`, on the next message only.
BreaksWhenAborted(w) ==
  /\ pc[w] \in Streams
  /\ w \in aborted
  /\ stream[w] = "open" /\ turn.owner = w
  /\ pc' = [pc EXCEPT ![w] = "finalizing"]
  /\ UNCHANGED <<running, queue, batch, turn, taskVars>>

\* Slip: whoever ends clears runningTasks, owner or not.
OwnsAlways(w) == TRUE

\* A message's task leaves runningTasks only if the entry is its own.
Owns(w) == running = w \/ w \in ApiTasks

\* Slips: runningTasks keeps the task; the queue keeps the message it started.
FinallyKeepingTask(w) ==
  /\ pc[w] = "finalizing"
  /\ FinishFirst(w)
  /\ IF Owns(w) /\ queue # <<>>
     THEN /\ queue' = Tail(queue)
          /\ pc' = [pc EXCEPT ![w] = "done", ![Head(queue)] = "preparing"]
     ELSE /\ pc' = [pc EXCEPT ![w] = "done"]
          /\ UNCHANGED queue
  /\ UNCHANGED <<running, batch, aborted, retried>>

FinallyWithoutShift(w) ==
  /\ pc[w] = "finalizing"
  /\ FinishFirst(w)
  /\ running' = IF Owns(w) THEN None ELSE running
  /\ pc' = IF Owns(w) /\ queue # <<>>
           THEN [pc EXCEPT ![w] = "done", ![Head(queue)] = "preparing"]
           ELSE [pc EXCEPT ![w] = "done"]
  /\ UNCHANGED <<queue, batch, aborted, retried>>

\* finally: finish the first handle, leave runningTasks, processQueue.
Finally(w) ==
  /\ pc[w] = "finalizing"
  /\ FinishFirst(w)
  /\ running' = IF Owns(w) THEN None ELSE running
  /\ IF Owns(w) /\ queue # <<>>
     THEN /\ queue' = Tail(queue)
          /\ pc' = [pc EXCEPT ![w] = "done", ![Head(queue)] = "preparing"]
     ELSE /\ pc' = [pc EXCEPT ![w] = "done"]
          /\ UNCHANGED queue
  /\ UNCHANGED <<batch, aborted, retried>>

(* /stop, stopChatTask and the timers **************************************)

StopTask(w) ==
  /\ turn' = FinishTurn(w)
  /\ stream' = FinishStream(w)
  /\ aborted' = aborted \cup {w}

\* /stop: clearChatQueue, then stopTask.
Stop ==
  /\ running # None \/ queue # <<>>
  /\ pc' = Goes(ToSet(queue), "discarded")
  /\ queue' = <<>>
  /\ IF running # None THEN StopTask(running) ELSE UNCHANGED <<turn, stream, aborted>>
  /\ UNCHANGED <<running, batch, retried>>

\* The stop button of the web UI keeps the queue.
StopChatTask ==
  /\ running # None /\ running \notin aborted
  /\ StopTask(running)
  /\ UNCHANGED <<pc, running, queue, batch, retried>>

\* The 24 h task timer or the 1 h idle timer.
TaskTimesOut(w) ==
  /\ pc[w] \in Looping \cup {"finalizing"}
  /\ w \notin aborted
  /\ FinishFirst(w)
  /\ aborted' = aborted \cup {w}
  /\ UNCHANGED <<pc, running, queue, batch, retried>>

(* The executor ************************************************************)

\* The result of the active turn, or the end of a detached one.
TurnResult(kind) ==
  /\ turn.owner # None
  /\ kind # "result" => StaleSessions
  /\ turn' = NoTurn
  /\ stream' = IF turn.owner \in Work /\ ~turn.detached
               THEN [stream EXCEPT ![turn.owner] = kind] ELSE stream
  /\ UNCHANGED <<pc, running, queue, batch, aborted, retried>>

\* The process crashes and is restarted: the turn's queue is finished.
ExecutorCrashes ==
  /\ turn.owner # None
  /\ turn' = NoTurn
  /\ stream' = IF turn.owner \in Work THEN FinishStream(turn.owner) ELSE stream
  /\ UNCHANGED <<pc, running, queue, batch, aborted, retried>>

\* /reset or LRU eviction: the next acquire() gets another executor, and the
\* queue of the turn in flight is never finished.
ExecutorTornDown ==
  /\ Teardowns
  /\ turn.owner # None
  /\ turn' = NoTurn
  /\ stream' = IF turn.owner \in Work /\ ~turn.detached
               THEN [stream EXCEPT ![turn.owner] = "orphaned"] ELSE stream
  /\ UNCHANGED <<pc, running, queue, batch, aborted, retried>>

ContinuationOpens ==
  /\ Continuations
  /\ turn.owner = None
  /\ turn' = TurnOf(Continuation)
  /\ UNCHANGED <<pc, running, queue, batch, taskVars>>

-----------------------------------------------------------------------------
Receive ==
  \/ \E m \in Texts : ReceiveText(m) \/ ReceiveUnknownCommand(m)
  \/ \E m \in Media : ReceiveMedia(m)
  \/ \E w \in ApiTasks : ReceiveApiTask(w)
Begin(w) == CardSent(w) \/ StartFails(w) \/ TurnStarts(w) \/ TurnThrows(w)
Loop(w) ==
  \/ StreamEnds(w) \/ RetryStarts(w) \/ RetryThrows(w) \/ Finally(w)
  \/ \E stage \in Retries : RetryBegins(w, stage)
Results == \E kind \in {"result", "stale", "overflow"} : TurnResult(kind)

Next ==
  \/ Receive \/ FlushBatch \/ Stop \/ StopChatTask
  \/ \E w \in Work : Begin(w) \/ Loop(w) \/ BreaksWhenAborted(w) \/ TaskTimesOut(w)
  \/ Results \/ ExecutorCrashes \/ ExecutorTornDown \/ ContinuationOpens

Spec == Init /\ [][Next]_vars

\* Awaits of the bridge settle and timers fire.  The SDK may be silent for as
\* long as it likes, except that it ends a turn it was told to interrupt.
Fairness ==
  /\ WF_vars(FlushBatch)
  /\ \A w \in Work : WF_vars(Begin(w)) /\ WF_vars(Loop(w)) /\ WF_vars(TaskTimesOut(w))
  /\ WF_vars(turn.detached /\ Results)

FairSpec == Spec /\ Fairness

-----------------------------------------------------------------------------
TypeOK ==
  /\ pc \in [Work -> {"new", "finalizing"} \cup Waiting \cup Starting \cup Looping \cup Over]
  /\ running \in Work \cup {None}
  /\ queue \in Seq(Work) /\ batch \in Seq(Media)
  /\ turn \in [owner : Work \cup {Continuation, None}, detached : BOOLEAN]
  /\ stream \in [Work -> {"none", "open", "result", "stale", "overflow", "ended", "orphaned"}]
  /\ aborted \subseteq Work /\ retried \subseteq Work

\* runningTasks never keeps a task that is over: the chat is not busy forever
\* after a task whose loop has ended.
RunningIsAlive == running # None => pc[running] \in Looping \cup {"finalizing"}

\* MAX_QUEUE_SIZE holds on both ways into the queue, and no message is in the
\* queue twice or after it was taken up.
QueueIsSound ==
  /\ Len(queue) <= MaxQueueSize
  /\ \A i, j \in 1..Len(queue) : queue[i] = queue[j] => i = j
  /\ \A w \in Work : pc[w] = "queued" <=> w \in ToSet(queue)

\* /stop reaches the task whose turn is in flight: that task is the registered
\* one, however tasks that overlap come and go, as long as none of them holds
\* the second turn of a retry, which nobody registers again.
LiveTurnIsStoppable ==
  turn.owner \in Work /\ ~turn.detached /\ retried = {} => running = turn.owner

\* "Your message has been queued ... It will run after the current task
\* finishes": when nobody works for the chat, nobody waits in its queue.
QueueIsServed ==
  queue # <<>> =>
    running # None \/ \E w \in Work : pc[w] \in Starting \cup Looping \cup {"finalizing"}

\* A message the debounce timer flushes into a full queue is not dropped
\* without a word.
NoMediaLost == \A m \in Media : pc[m] # "lost"

\* What the user sees of a message: the status of MessageLifecycle.
StageOf(p) == CASE p = "new"     -> "new"
                [] p \in Waiting -> "waiting"
                [] p \in Over    -> "over"
                [] OTHER         -> "working"

Lifecycle == INSTANCE MessageLifecycle WITH status <- [w \in Work |-> StageOf(pc[w])]

\* No message runs twice, comes back from the dead or waits after it started.
ImplementsLifecycle == Lifecycle!Spec
=============================================================================
