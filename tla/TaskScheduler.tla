---------------------------- MODULE TaskScheduler ---------------------------
(***************************************************************************)
(* Scheduled tasks of one chat, one-time and recurring, with their timers, *)
(* retries and the file they are kept in (scheduler/task-scheduler.ts).    *)
(*                                                                         *)
(* Time passes in ticks.  A timer is the number of ticks left; one at zero *)
(* may fire, and may also be late.  A task that is finished is inert, so   *)
(* its id may serve a new task.  Every handler ends with saveToDisk, which *)
(* makes disk the image of tasks and recurringTasks.                       *)
(***************************************************************************)
EXTENDS Integers, FiniteSets

CONSTANTS
  TaskIds,       \* bound: one-time tasks, children included, at a time
  Recs,          \* recurring tasks
  MaxRetries,    \* MAX_RETRIES
  RetryDelay,    \* RETRY_DELAY_MS
  StaleAfter,    \* STALE_THRESHOLD_MS
  MaxTimeout,    \* MAX_SETTIMEOUT_MS
  Delays,        \* delays a client may ask for
  Period,        \* ticks between two occurrences of every cron expression
  MaxCrashes,    \* bound: restarts in a behaviour
  None

ASSUME SchedulerAssumption ==
  /\ MaxRetries \in Nat \ {0} /\ RetryDelay \in Nat \ {0}
  /\ StaleAfter \in Nat /\ MaxTimeout \in Nat \ {0}
  /\ Delays \subseteq Nat \ {0} /\ Period \in Nat \ {0} /\ MaxCrashes \in Nat
  /\ RetryDelay <= MaxTimeout
  /\ None \notin TaskIds /\ None \notin Recs

VARIABLES
  up,          \* is the process running?
  phase,       \* ticks since the last occurrence
  tasks, timers,
  recurringTasks, recurringTimers,
  leaked,      \* recurring timers still running but no longer in the map
  awaiting,    \* children fireRecurringInstance is waiting for
  running,     \* tasks the bridge has registered in runningTasks
  userBusy,    \* a task of somebody else is registered
  bot,         \* registry.get() finds the bot
  disk,        \* scheduled-tasks.json
  crashes

memVars == <<tasks, timers, recurringTasks, recurringTimers, leaked, awaiting>>
envVars == <<up, phase, running, userBusy, bot, crashes>>
vars == <<memVars, envVars, disk>>

Off == -1

Task(status, due, parent) == [status |-> status, retry |-> 0, due |-> due, parent |-> parent]
Rec(status, wait, child)  == [status |-> status, wait |-> wait, child |-> child]
NoTask == Task("none", 0, None)
NoRec  == Rec("none", 0, None)

\* A timer of a recurring task either fires it or, when the wait was beyond
\* MaxTimeout, only looks again.
RecTimer(left, fires) == [left |-> left, fires |-> fires]
NoTimer == RecTimer(Off, FALSE)

Init ==
  /\ up = TRUE /\ phase = 0 /\ crashes = 0
  /\ tasks = [i \in TaskIds |-> NoTask] /\ timers = [i \in TaskIds |-> Off]
  /\ recurringTasks = [r \in Recs |-> NoRec] /\ recurringTimers = [r \in Recs |-> NoTimer]
  /\ leaked = [r \in Recs |-> {}]
  /\ awaiting = {} /\ running = {} /\ userBusy = FALSE /\ bot = TRUE
  /\ disk = [tasks |-> tasks, recurring |-> recurringTasks]

-----------------------------------------------------------------------------
(* Timers *)

\* Node's setTimeout takes delays of up to MaxTimeout; a longer one overflows
\* and the timer fires at once.
SetTimeout(delay) == IF delay > MaxTimeout \/ delay < 0 THEN 0 ELSE delay

Occurrence == Period - phase

\* Slip: a long wait is not cut.
UncutTimer(wait) == RecTimer(SetTimeout(wait), TRUE)
RecurringTimer(wait) ==
  IF wait > MaxTimeout THEN RecTimer(SetTimeout(MaxTimeout), FALSE)
  ELSE RecTimer(SetTimeout(wait), TRUE)

\* saveToDisk; the first form where the handler leaves recurringTasks alone.
SaveTasks  == disk' = [tasks |-> tasks', recurring |-> recurringTasks]
SaveToDisk == disk' = [tasks |-> tasks', recurring |-> recurringTasks']

Free(i) ==
  /\ tasks[i].status \notin {"pending", "executing"}
  /\ \A r \in Recs : recurringTasks[r].child # i /\ disk.recurring[r].child # i

-----------------------------------------------------------------------------
(* One-time tasks *)

ScheduleTask(i, delay) ==
  /\ up /\ Free(i)
  /\ tasks' = [tasks EXCEPT ![i] = Task("pending", delay, None)]
  /\ timers' = [timers EXCEPT ![i] = SetTimeout(delay)]
  /\ UNCHANGED <<recurringTasks, recurringTimers, leaked, awaiting, envVars>>
  /\ SaveTasks

\* Slip: the old timer is cleared and no new one set.
UpdateTaskUnarmed(i, delay) ==
  /\ up /\ tasks[i].status = "pending"
  /\ tasks' = [tasks EXCEPT ![i].due = delay]
  /\ timers' = [timers EXCEPT ![i] = Off]
  /\ UNCHANGED <<recurringTasks, recurringTimers, leaked, awaiting, envVars>>
  /\ SaveTasks

UpdateTask(i, delay) ==
  /\ up /\ tasks[i].status = "pending"
  /\ tasks' = [tasks EXCEPT ![i].due = delay]
  /\ timers' = [timers EXCEPT ![i] = SetTimeout(delay)]
  /\ UNCHANGED <<recurringTasks, recurringTimers, leaked, awaiting, envVars>>
  /\ SaveTasks

Ended(t, s) == Task(s, 0, t.parent)

CancelTask(i) ==
  /\ up /\ tasks[i].status = "pending"
  /\ tasks' = [tasks EXCEPT ![i] = Ended(@, "cancelled")]
  /\ timers' = [timers EXCEPT ![i] = Off]
  /\ UNCHANGED <<recurringTasks, recurringTimers, leaked, awaiting, envVars>>
  /\ SaveTasks

\* bridge.isBusy
Busy == userBusy \/ running # {}

\* Slip: one retry too many.
FiredOnceMore(t) ==
  IF ~bot THEN Ended(t, "failed")
  ELSE IF ~Busy THEN Ended(t, "executing")
  ELSE IF t.retry <= MaxRetries THEN [t EXCEPT !.retry = @ + 1]
  ELSE Ended(t, "failed")

\* What becomes of a pending task when its timer fires.
Fired(t) ==
  IF ~bot THEN Ended(t, "failed")
  ELSE IF ~Busy THEN Ended(t, "executing")
  ELSE IF t.retry < MaxRetries THEN [t EXCEPT !.retry = @ + 1]
  ELSE Ended(t, "failed")

RetryTimer(t) == IF t.status = "pending" THEN RetryDelay ELSE Off

\* Slip: the file is only written when the task has ended.
FireTaskUnsaved(i) ==
  /\ up /\ timers[i] = 0
  /\ IF tasks[i].status # "pending"
       THEN timers' = [timers EXCEPT ![i] = Off] /\ UNCHANGED <<tasks, disk>>
       ELSE /\ tasks' = [tasks EXCEPT ![i] = Fired(@)]
            /\ timers' = [timers EXCEPT ![i] = RetryTimer(tasks'[i])]
            /\ IF tasks'[i].status = "executing" THEN UNCHANGED disk ELSE SaveTasks
  /\ UNCHANGED <<recurringTasks, recurringTimers, leaked, awaiting, envVars>>

FireTask(i) ==
  /\ up /\ timers[i] = 0
  /\ IF tasks[i].status # "pending"
       THEN timers' = [timers EXCEPT ![i] = Off] /\ UNCHANGED <<tasks, disk>>
       ELSE /\ tasks' = [tasks EXCEPT ![i] = Fired(@)]
            /\ timers' = [timers EXCEPT ![i] = RetryTimer(tasks'[i])]
            /\ SaveTasks
  /\ UNCHANGED <<recurringTasks, recurringTimers, leaked, awaiting, envVars>>

\* executeApiTask registers its task only after its first awaits.
TaskRegisters(i) ==
  /\ up /\ tasks[i].status = "executing" /\ i \notin running
  /\ running' = running \cup {i}
  /\ UNCHANGED <<memVars, up, phase, userBusy, bot, crashes, disk>>

-----------------------------------------------------------------------------
(* Recurring tasks *)

\* setRecurringTimer overwrites the map entry: a timer that is still in it and
\* was not cleared runs on.
ArmRecurring(r, wait, kept) ==
  /\ recurringTimers' = [recurringTimers EXCEPT ![r] = RecurringTimer(wait)]
  /\ leaked' = [leaked EXCEPT ![r] = kept]

StillRunning(r) == leaked[r] \cup ({recurringTimers[r]} \ {NoTimer})

Waiting == Rec("active", Occurrence, None)

ScheduleRecurring(r) ==
  /\ up /\ recurringTasks[r].status = "none"
  /\ recurringTasks' = [recurringTasks EXCEPT ![r] = Waiting]
  /\ ArmRecurring(r, Occurrence, leaked[r])
  /\ UNCHANGED <<tasks, timers, awaiting, envVars>>
  /\ SaveToDisk

\* Slip: the old timer is not cleared.
UpdateRecurringLeaking(r) ==
  /\ up /\ recurringTasks[r].status = "active"
  /\ recurringTasks' = [recurringTasks EXCEPT ![r].wait = Occurrence]
  /\ ArmRecurring(r, Occurrence, StillRunning(r))
  /\ UNCHANGED <<tasks, timers, awaiting, envVars>>
  /\ SaveToDisk

\* A new expression or timezone.
UpdateRecurring(r) ==
  /\ up /\ recurringTasks[r].status = "active"
  /\ recurringTasks' = [recurringTasks EXCEPT ![r].wait = Occurrence]
  /\ ArmRecurring(r, Occurrence, leaked[r])
  /\ UNCHANGED <<tasks, timers, awaiting, envVars>>
  /\ SaveToDisk

PauseRecurring(r) ==
  /\ up /\ recurringTasks[r].status = "active"
  /\ recurringTasks' = [recurringTasks EXCEPT ![r].status = "paused"]
  /\ recurringTimers' = [recurringTimers EXCEPT ![r] = NoTimer]
  /\ UNCHANGED <<tasks, timers, leaked, awaiting, envVars>>
  /\ SaveToDisk

\* Slip: only the status is set.
ResumeRecurringUnarmed(r) ==
  /\ up /\ recurringTasks[r].status = "paused"
  /\ recurringTasks' = [recurringTasks EXCEPT ![r] = Rec("active", Occurrence, @.child)]
  /\ UNCHANGED <<tasks, timers, recurringTimers, leaked, awaiting, envVars>>
  /\ SaveToDisk

ResumeRecurring(r) ==
  /\ up /\ recurringTasks[r].status = "paused"
  /\ recurringTasks' = [recurringTasks EXCEPT ![r] = Rec("active", Occurrence, @.child)]
  /\ ArmRecurring(r, Occurrence, StillRunning(r))
  /\ UNCHANGED <<tasks, timers, awaiting, envVars>>
  /\ SaveToDisk

\* The child recorded in currentChildId goes too, if it is still pending.
CancelRecurring(r) ==
  /\ up /\ recurringTasks[r].status \in {"active", "paused"}
  /\ LET goes(i) == i = recurringTasks[r].child /\ tasks[i].status = "pending"
     IN /\ tasks' = [i \in TaskIds |-> IF goes(i) THEN Ended(tasks[i], "cancelled") ELSE tasks[i]]
        /\ timers' = [i \in TaskIds |-> IF goes(i) THEN Off ELSE timers[i]]
  /\ recurringTasks' = [recurringTasks EXCEPT ![r] = Rec("cancelled", @.wait, None)]
  /\ recurringTimers' = [recurringTimers EXCEPT ![r] = NoTimer]
  /\ UNCHANGED <<leaked, awaiting, envVars>>
  /\ SaveToDisk

\* A timer of r that goes off, from the map or leaked, and those that run on.
\* Its handler deletes the map entry, whichever timer that holds.
GoingOff(r) == {t \in StillRunning(r) : t.left = 0}
RunOn(r, t) == StillRunning(r) \ {t}

LookAgain(r, t) ==
  /\ up /\ t \in GoingOff(r) /\ ~t.fires
  /\ ArmRecurring(r, recurringTasks[r].wait, RunOn(r, t))
  /\ UNCHANGED <<tasks, timers, recurringTasks, awaiting, envVars, disk>>

GoesOffUnheeded(r, t) ==
  /\ up /\ t \in GoingOff(r) /\ t.fires /\ recurringTasks[r].status # "active"
  /\ IF t = recurringTimers[r]
       THEN recurringTimers' = [recurringTimers EXCEPT ![r] = NoTimer] /\ UNCHANGED leaked
       ELSE leaked' = [leaked EXCEPT ![r] = @ \ {t}] /\ UNCHANGED recurringTimers
  /\ UNCHANGED <<tasks, timers, recurringTasks, awaiting, envVars, disk>>

NewChild(r) == Task("pending", 0, r)

\* The child is created and fired at once.  If it starts, the handler waits for
\* its end; if the chat is busy or the bot gone, fireTask has returned already
\* and the next occurrence is scheduled.
FireRecurringInstance(r, t, i) ==
  /\ up /\ t \in GoingOff(r) /\ t.fires /\ recurringTasks[r].status = "active" /\ Free(i)
  /\ tasks' = [tasks EXCEPT ![i] = Fired(NewChild(r))]
  /\ timers' = [timers EXCEPT ![i] = RetryTimer(tasks'[i])]
  /\ IF tasks'[i].status = "executing"
       THEN /\ recurringTasks' = [recurringTasks EXCEPT ![r].child = i]
            /\ recurringTimers' = [recurringTimers EXCEPT ![r] = NoTimer]
            /\ leaked' = [leaked EXCEPT ![r] = RunOn(r, t)]
            /\ awaiting' = awaiting \cup {i}
       ELSE /\ recurringTasks' = [recurringTasks EXCEPT ![r] = Waiting]
            /\ ArmRecurring(r, Occurrence, RunOn(r, t))
            /\ UNCHANGED awaiting
  /\ UNCHANGED envVars
  /\ SaveToDisk

\* executeApiTask returns or throws; behind a child its occurrence's handler
\* goes on.
TaskEnds(i) ==
  /\ up /\ tasks[i].status = "executing"
  /\ \E s \in {"completed", "failed"} : tasks' = [tasks EXCEPT ![i].status = s]
  /\ running' = running \ {i} /\ awaiting' = awaiting \ {i}
  /\ LET r == tasks[i].parent IN
       CASE i \notin awaiting ->
              UNCHANGED <<recurringTasks, recurringTimers, leaked>>
         [] i \in awaiting /\ recurringTasks[r].status = "active" ->
              /\ recurringTasks' = [recurringTasks EXCEPT ![r] = Waiting]
              /\ ArmRecurring(r, Occurrence, StillRunning(r))
         [] i \in awaiting /\ recurringTasks[r].status # "active" ->
              /\ recurringTasks' = [recurringTasks EXCEPT ![r].child = None]
              /\ UNCHANGED <<recurringTimers, leaked>>
  /\ UNCHANGED <<timers, up, phase, userBusy, bot, crashes>>
  /\ SaveToDisk

-----------------------------------------------------------------------------
(* Crash and restart *)

Forget ==
  /\ up' = FALSE /\ crashes' = crashes + 1
  /\ tasks' = [i \in TaskIds |-> NoTask] /\ timers' = [i \in TaskIds |-> Off]
  /\ recurringTasks' = [r \in Recs |-> NoRec]
  /\ recurringTimers' = [r \in Recs |-> NoTimer] /\ leaked' = [r \in Recs |-> {}]
  /\ awaiting' = {} /\ running' = {} /\ userBusy' = FALSE
  /\ UNCHANGED <<phase, bot>>

Crash == up /\ crashes < MaxCrashes /\ Forget /\ UNCHANGED disk

\* fireRecurringInstance saves the child before it fires it.
CrashWhileFiring(r, i) ==
  /\ up /\ crashes < MaxCrashes
  /\ \E t \in GoingOff(r) : t.fires
  /\ recurringTasks[r].status = "active" /\ Free(i)
  /\ disk' = [tasks     |-> [tasks EXCEPT ![i] = NewChild(r)],
              recurring |-> [recurringTasks EXCEPT ![r].child = i]]
  /\ Forget

Restored(i) == disk.tasks[i].status = "pending" /\ disk.tasks[i].due >= -StaleAfter

LostChild(i) ==
  \E r \in Recs : disk.recurring[r].status = "active" /\ disk.recurring[r].child = i

Restart ==
  /\ ~up /\ up' = TRUE
  /\ tasks' = [i \in TaskIds |-> IF ~Restored(i) THEN NoTask
                                 ELSE IF LostChild(i) THEN Ended(disk.tasks[i], "failed")
                                 ELSE disk.tasks[i]]
  /\ timers' = [i \in TaskIds |-> IF ~Restored(i) THEN Off
                                  ELSE IF disk.tasks[i].due < 0 THEN 0
                                  ELSE SetTimeout(disk.tasks[i].due)]
  /\ recurringTasks' = [r \in Recs |-> CASE disk.recurring[r].status = "active" -> Waiting
                                         [] disk.recurring[r].status = "cancelled" -> NoRec
                                         [] OTHER -> disk.recurring[r]]
  /\ recurringTimers' = [r \in Recs |-> IF disk.recurring[r].status = "active"
                                          THEN RecurringTimer(Occurrence) ELSE NoTimer]
  /\ UNCHANGED <<leaked, awaiting, phase, running, userBusy, bot, crashes, disk>>

-----------------------------------------------------------------------------
(* The environment *)

UserTask ==
  /\ up /\ userBusy' = ~userBusy
  /\ UNCHANGED <<memVars, up, phase, running, bot, crashes, disk>>

BotRemoved ==
  /\ bot /\ bot' = FALSE
  /\ UNCHANGED <<memVars, up, phase, running, userBusy, crashes, disk>>

Less(n) == IF n > 0 THEN n - 1 ELSE n
LaterTask(t) ==
  IF t.status = "pending" /\ t.due >= -StaleAfter THEN [t EXCEPT !.due = @ - 1] ELSE t
LaterTasks(f) == [i \in TaskIds |-> LaterTask(f[i])]
LaterRecs(f)  == [r \in Recs |-> [f[r] EXCEPT !.wait = Less(@)]]
LaterTimer(t) == [t EXCEPT !.left = Less(@)]

Tick ==
  /\ phase' = (phase + 1) % Period
  /\ tasks' = LaterTasks(tasks) /\ recurringTasks' = LaterRecs(recurringTasks)
  /\ timers' = [i \in TaskIds |-> Less(timers[i])]
  /\ recurringTimers' = [r \in Recs |-> LaterTimer(recurringTimers[r])]
  /\ leaked' = [r \in Recs |-> {LaterTimer(t) : t \in leaked[r]}]
  /\ disk' = [tasks |-> LaterTasks(disk.tasks), recurring |-> LaterRecs(disk.recurring)]
  /\ UNCHANGED <<awaiting, up, running, userBusy, bot, crashes>>

FireAny(r) ==
  \E t \in GoingOff(r) : \/ LookAgain(r, t) \/ GoesOffUnheeded(r, t)
                         \/ \E i \in TaskIds : FireRecurringInstance(r, t, i)

Next ==
  \/ \E i \in TaskIds, d \in Delays : ScheduleTask(i, d) \/ UpdateTask(i, d)
  \/ \E i \in TaskIds : CancelTask(i) \/ FireTask(i) \/ TaskRegisters(i) \/ TaskEnds(i)
  \/ \E r \in Recs : \/ ScheduleRecurring(r) \/ UpdateRecurring(r) \/ PauseRecurring(r)
                     \/ ResumeRecurring(r) \/ CancelRecurring(r) \/ FireAny(r)
  \/ \E r \in Recs, i \in TaskIds : CrashWhileFiring(r, i)
  \/ Crash \/ Restart \/ UserTask \/ BotRemoved \/ Tick

Spec == Init /\ [][Next]_vars

-----------------------------------------------------------------------------
(* Properties *)

TaskRecord ==
  [status : {"none", "pending", "executing", "completed", "failed", "cancelled"},
   retry : 0..MaxRetries, due : Int, parent : Recs \cup {None}]
RecRecord ==
  [status : {"none", "active", "paused", "cancelled"}, wait : 0..Period,
   child : TaskIds \cup {None}]
TimerRecord == [left : Nat \cup {Off}, fires : BOOLEAN]

\* Every variable keeps its type; a task is retried at most MaxRetries times.
TypeOK ==
  /\ up \in BOOLEAN /\ phase \in 0..(Period - 1) /\ crashes \in 0..MaxCrashes
  /\ tasks \in [TaskIds -> TaskRecord] /\ timers \in [TaskIds -> Nat \cup {Off}]
  /\ recurringTasks \in [Recs -> RecRecord] /\ recurringTimers \in [Recs -> TimerRecord]
  /\ leaked \in [Recs -> SUBSET TimerRecord]
  /\ awaiting \subseteq TaskIds /\ running \subseteq TaskIds
  /\ userBusy \in BOOLEAN /\ bot \in BOOLEAN
  /\ disk \in [tasks : [TaskIds -> TaskRecord], recurring : [Recs -> RecRecord]]

\* No pending task is forgotten: through updates, retries and restarts it has
\* a timer.
PendingIsArmed ==
  \A i \in TaskIds : tasks[i].status = "pending" => timers[i] # Off

\* An active recurring task has a timer, or an occurrence that will set one.
ActiveIsArmed ==
  \A r \in Recs : recurringTasks[r].status = "active" =>
    \/ StillRunning(r) # {}
    \/ \E i \in awaiting : tasks[i].parent = r

\* A cancelled recurring task leaves no child behind that is still to run.
CancelledLeavesNoChild ==
  \A i \in TaskIds, r \in Recs :
    tasks[i].status = "pending" /\ tasks[i].parent = r
      => recurringTasks[r].status # "cancelled"
=============================================================================
