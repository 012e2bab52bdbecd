---------------------------- MODULE TaskOutputs -----------------------------
(***************************************************************************)
(* What a task of one chat shows and leaves: its card with the rate        *)
(* limiter (bridge/rate-limiter.ts), the final card with its retries, the  *)
(* files of the chat's outputs directory (bridge/outputs-manager.ts,       *)
(* bridge/output-handler.ts) and the end of a task, which starts the next  *)
(* of the queue (bridge/message-bridge.ts).  The directory belongs to the  *)
(* chat: the tasks of a chat share it, one after the other and, with a     *)
(* continuation turn or two that were made ready at once, side by side.    *)
(***************************************************************************)
EXTENDS Naturals, Sequences

CONSTANTS
  Tasks,          \* tasks of the chat
  Mixes,          \* what kinds they may be of: "query" (a text), "media"
                  \* (with an image), "api", "cont"
  Files,          \* names of the files they write
  Retries,        \* FINAL_CARD_RETRIES
  MaxUpdates,     \* bound: stream messages of a task
  NoTask

Kinds == {"query", "media", "api", "cont"}

ASSUME OutputsAssumption ==
  /\ Mixes \subseteq [Tasks -> Kinds]
  /\ NoTask \notin Tasks

VARIABLES
  KindOf,     \* the kind of each task
  stage,      \* where each task is
  main,       \* runningTasks' entry of the chat
  messageQueue, \* messageQueues' of the chat
  \* the outputs directory
  dir,        \* it is there
  files,      \* its files: "absent", "new", "old" (past RETENTION_MS)
  writer,     \* ghost: the task that wrote each file last
  delivered,  \* ghost: files the chat was sent since they were written
  refused,    \* ghost: files whose upload failed, which is only logged
  cleaning,   \* pendingCleanups has a timer for it
  outbox,     \* sendOutputFiles: the files found and not yet sent
  disturbed,  \* ghost: tasks whose directory another task shared or armed
  \* the card of one of the tasks
  watched,    \* whose
  card,       \* what it shows
  waiting,    \* RateLimiter.pending, with its timer
  due,        \* intervalMs has passed since lastSent
  flying,     \* an update of a running state is on its way
  attempts,   \* of sendFinalCard
  slow,       \* ghost: one took longer than the interval
  threw,      \* tasks whose stream threw: their last card tells the error
  updates

dirVars == <<KindOf, dir, files, writer, delivered, refused, cleaning>>
cardVars == <<watched, card, waiting, due, flying, attempts, slow, threw, updates>>
outputsVars == <<stage, main, messageQueue, dirVars, outbox, disturbed, cardVars>>

Under == {t \in Tasks : stage[t] \notin {"none", "queued", "over"}}
UsingDir == {t \in Under : stage[t] # "download"}

OutputsInit ==
  /\ KindOf \in Mixes /\ stage = [t \in Tasks |-> "none"] /\ main = NoTask /\ messageQueue = <<>>
  /\ dir = FALSE /\ files = [f \in Files |-> "absent"]
  /\ writer = [f \in Files |-> NoTask] /\ delivered = {} /\ refused = {}
  /\ cleaning = FALSE
  /\ outbox = [t \in Tasks |-> {}] /\ disturbed = {}
  /\ watched \in Tasks /\ card = "none" /\ waiting = FALSE /\ due = TRUE
  /\ flying = FALSE /\ attempts = 0 /\ slow = FALSE /\ threw = {} /\ updates = 0

-----------------------------------------------------------------------------
(* The directory *)

\* prepareDir: a pending clean-up is cancelled, only old files are removed.
PrepareDir(t) ==
  /\ cleaning' = FALSE /\ dir' = TRUE
  /\ files' = [f \in Files |-> IF files[f] = "old" THEN "absent" ELSE files[f]]
  /\ UNCHANGED <<KindOf, writer, delivered, refused>>

\* cleanup: the timer is armed, or armed anew.
Cleanup == cleaning' = TRUE

CleanupFires ==
  /\ cleaning /\ cleaning' = FALSE /\ dir' = FALSE
  /\ files' = [f \in Files |-> "absent"]
  /\ UNCHANGED <<KindOf, stage, main, messageQueue, writer, delivered, refused, outbox, disturbed, cardVars>>

Ages(f) ==
  /\ files[f] = "new" /\ files' = [files EXCEPT ![f] = "old"]
  /\ UNCHANGED <<KindOf, stage, main, messageQueue, dir, writer, delivered, refused, cleaning,
                 outbox, disturbed, cardVars>>

AgentWrites(t, f) ==
  /\ stage[t] = "running" /\ dir
  /\ files' = [files EXCEPT ![f] = "new"] /\ writer' = [writer EXCEPT ![f] = t]
  /\ delivered' = delivered \ {f} /\ refused' = refused \ {f}
  /\ UNCHANGED <<KindOf, stage, main, messageQueue, dir, cleaning, outbox, disturbed, cardVars>>

-----------------------------------------------------------------------------
(* The beginning of a task *)

\* The part before the first await: the card, or the download of the image.
Begins(t) ==
  IF KindOf[t] = "media"
  THEN /\ stage' = [stage EXCEPT ![t] = "download"]
       /\ UNCHANGED <<dirVars, disturbed>>
  ELSE /\ stage' = [stage EXCEPT ![t] = "card"] /\ PrepareDir(t)
       /\ disturbed' = IF UsingDir = {} THEN disturbed
                       ELSE disturbed \cup UsingDir \cup {t}

\* handleMessage: behind a running task a message waits.
Arrives(t) ==
  /\ stage[t] = "none" /\ KindOf[t] \in {"query", "media"}
  /\ IF main = NoTask
     THEN Begins(t) /\ UNCHANGED messageQueue
     ELSE /\ messageQueue' = Append(messageQueue, t) /\ stage' = [stage EXCEPT ![t] = "queued"]
          /\ UNCHANGED <<dirVars, disturbed>>
  /\ UNCHANGED <<main, outbox, cardVars>>

\* executeApiTask refuses a busy chat; a continuation begins beside a task.
StartsApi(t) ==
  /\ stage[t] = "none"
  /\ KindOf[t] = "cont" \/ (KindOf[t] = "api" /\ main = NoTask)
  /\ Begins(t)
  /\ UNCHANGED <<main, messageQueue, outbox, cardVars>>

Downloaded(t) ==
  /\ stage[t] = "download" /\ stage' = [stage EXCEPT ![t] = "card"]
  /\ PrepareDir(t)
  /\ disturbed' = IF UsingDir = {} THEN disturbed ELSE disturbed \cup UsingDir \cup {t}
  /\ UNCHANGED <<main, messageQueue, outbox, cardVars>>

\* The first card and the turn; without a card the task is given up.
CardSent(t) ==
  /\ stage[t] = "card"
  /\ stage' = [stage EXCEPT ![t] = "running"]
  /\ card' = IF t = watched THEN "running" ELSE card
  /\ main' = IF KindOf[t] = "cont" THEN main ELSE t
  /\ UNCHANGED <<messageQueue, dirVars, outbox, disturbed, watched, waiting, due,
                 flying, attempts, slow, threw, updates>>

CardFails(t) ==
  /\ stage[t] = "card" /\ KindOf[t] # "api"
  /\ stage' = [stage EXCEPT ![t] = "over"]
  /\ UNCHANGED <<main, messageQueue, dirVars, outbox, disturbed, cardVars>>

-----------------------------------------------------------------------------
(* The card *)

cardOnly == UNCHANGED <<main, messageQueue, dirVars, outbox, disturbed, watched>>

\* RateLimiter.schedule, with the callback that updates the card: at once when
\* it is due, and otherwise by the timer, in place of the one that waits.
StreamMessage(t) ==
  /\ t = watched /\ stage[t] = "running" /\ updates < MaxUpdates
  /\ updates' = updates + 1
  /\ IF due THEN flying' = TRUE /\ due' = FALSE /\ UNCHANGED waiting
            ELSE waiting' = TRUE /\ UNCHANGED <<flying, due>>
  /\ UNCHANGED <<stage, card, attempts, slow, threw>> /\ cardOnly

\* The timer runs out when the interval does.
IntervalPasses ==
  /\ ~due /\ slow' = (slow \/ flying)
  /\ IF waiting THEN waiting' = FALSE /\ flying' = TRUE /\ UNCHANGED due
                ELSE due' = TRUE /\ UNCHANGED <<waiting, flying>>
  /\ UNCHANGED <<stage, card, attempts, threw, updates>> /\ cardOnly

UpdateLands ==
  /\ flying /\ flying' = FALSE /\ card' = "running"
  /\ UNCHANGED <<stage, waiting, due, attempts, slow, threw, updates>> /\ cardOnly

\* The end of the loop: cancelAndWait drops what waits.
Cancel == waiting' = FALSE

\* The loop is over, at once or after a retry with a fresh session; or the stream
\* threw, and the catch block makes the last card of the error.
LoopEnds(t) ==
  /\ stage[t] = "running" /\ stage' = [stage EXCEPT ![t] = "final"]
  /\ threw' \in {threw, threw \cup {t}}
  /\ IF t = watched THEN Cancel ELSE UNCHANGED waiting
  /\ UNCHANGED <<card, due, flying, attempts, slow, updates>> /\ cardOnly

\* After the last card come the files, but not from the catch block.
AfterCard(t) == stage' = [stage EXCEPT ![t] = IF t \in threw THEN "sending" ELSE "scan"]

\* Slip: cancel() without the wait.
FinalCardAtOnce(t) ==
  /\ stage[t] = "final" /\ AfterCard(t)
  /\ card' = IF t = watched THEN "final" ELSE card
  /\ UNCHANGED <<waiting, due, flying, attempts, slow, threw, updates>> /\ cardOnly

\* sendFinalCard once the interval is over: an update, tried again after a
\* failure; then the text, which nothing follows.
FinalCard(t) ==
  /\ stage[t] = "final" /\ (t = watched => due)
  /\ IF t # watched
     THEN AfterCard(t) /\ UNCHANGED <<card, attempts>>
     ELSE \/ card' = "final" /\ AfterCard(t) /\ UNCHANGED attempts
          \/ /\ attempts' = attempts + 1
             /\ IF attempts' < Retries THEN UNCHANGED <<stage, card>>
                ELSE AfterCard(t) /\ card' = "text"
  /\ UNCHANGED <<waiting, due, flying, slow, threw, updates>> /\ cardOnly

-----------------------------------------------------------------------------
(* The files, and the end *)

\* scanOutputs: every file of the directory, whichever task wrote it.
ScanOutputs(t) ==
  /\ stage[t] = "scan" /\ stage' = [stage EXCEPT ![t] = "sending"]
  /\ outbox' = [outbox EXCEPT ![t] = {f \in Files : files[f] # "absent"}]
  /\ UNCHANGED <<main, messageQueue, dirVars, disturbed, cardVars>>

\* One file; one that is gone by now, or is refused, is skipped for good.
SendOutput(t, f) ==
  /\ stage[t] = "sending" /\ f \in outbox[t]
  /\ outbox' = [outbox EXCEPT ![t] = @ \ {f}]
  /\ \/ files[f] # "absent" /\ delivered' = delivered \cup {f} /\ UNCHANGED refused
     \/ refused' = refused \cup {f} /\ UNCHANGED delivered
  /\ UNCHANGED <<KindOf, stage, main, messageQueue, dir, files, writer, cleaning, disturbed, cardVars>>

\* processQueue starts the next task up to its first await: its prepareDir.
ProcessQueue(t) ==
  IF messageQueue = <<>>
  THEN stage' = [stage EXCEPT ![t] = "over"] /\ UNCHANGED <<messageQueue, dir, files>>
  ELSE LET n == Head(messageQueue)
           ready == KindOf[n] # "media"
       IN /\ messageQueue' = Tail(messageQueue)
          /\ stage' = [stage EXCEPT ![t] = "over", ![n] = IF ready THEN "card" ELSE "download"]
          /\ dir' = (dir \/ ready)
          /\ files' = [f \in Files |-> IF ready /\ files[f] = "old" THEN "absent" ELSE files[f]]

\* The finally block: the queue first (executeApiTask's forgets whichever task is
\* the chat's), and only then the clean-up, behind the tasks that go on.
TaskEnds(t) ==
  /\ stage[t] = "sending" /\ outbox[t] = {}
  /\ IF main = t \/ KindOf[t] = "api"
     THEN main' = NoTask /\ ProcessQueue(t)
     ELSE stage' = [stage EXCEPT ![t] = "over"] /\ UNCHANGED <<main, messageQueue, dir, files>>
  /\ disturbed' = disturbed \cup UsingDir'
  /\ Cleanup
  /\ UNCHANGED <<KindOf, writer, delivered, refused, outbox, cardVars>>

OutputsNext ==
  \/ \E t \in Tasks :
       \/ Arrives(t) \/ StartsApi(t) \/ Downloaded(t) \/ CardSent(t) \/ CardFails(t)
       \/ StreamMessage(t) \/ LoopEnds(t) \/ FinalCard(t) \/ ScanOutputs(t) \/ TaskEnds(t)
       \/ \E f \in Files : AgentWrites(t, f) \/ SendOutput(t, f)
  \/ IntervalPasses \/ UpdateLands \/ CleanupFires \/ \E f \in Files : Ages(f)

OutputsSpec == OutputsInit /\ [][OutputsNext]_outputsVars

-----------------------------------------------------------------------------
(* Properties *)

AtWork == {t \in Tasks : stage[t] \in {"running", "final", "scan", "sending"}}

\* A task at work has its directory, what prepareDir cancels the clean-up for.
\* Excused are tasks beside another, and one that the finally block of the task
\* before started, whose clean-up is armed after it.
WorkingHasDirectoryUnlessShared == AtWork \ disturbed # {} => dir

\* A file a task wrote is sent to the chat before the task is over, unless the
\* directory was taken from it or its stream threw: the catch blocks send the card
\* of the error and no files, which are gone with the clean-up.
OutputsAreSentUnlessSharedOrThrown ==
  \A f \in Files :
    writer[f] # NoTask /\ writer[f] \notin disturbed \cup threw /\ stage[writer[f]] = "over" =>
      f \in delivered \cup refused

\* Once a task is over its card shows the end, or the text of the end was sent;
\* excused is an update slower than the limiter's interval.
FinalCardStandsUnlessSlow ==
  stage[watched] \in {"scan", "sending", "over"} /\ card # "none" /\ ~slow =>
    card \in {"final", "text"}

\* What a task leaves in the chat, part by part.
TaskLeavesItsResultUnlessSharedOrThrown ==
  /\ WorkingHasDirectoryUnlessShared /\ OutputsAreSentUnlessSharedOrThrown /\ FinalCardStandsUnlessSlow
=============================================================================
