----------------------------- MODULE ApiProofs ------------------------------
(***************************************************************************)
(* Proofs about what the API gives a host to do: TaskScheduler for every   *)
(* number of tasks, delays, retries and restarts, with the history of its  *)
(* behaviours; and TalkApi for all hosts, peers, bots, requests, limits,   *)
(* thresholds and crashes.                                                 *)
(***************************************************************************)
EXTENDS MCTaskScheduler, TalkApi, FiniteSetTheorems, SequenceTheorems, TLAPS

(* The scheduler: what the helpers return. **********************************)

LEMMA NoTaskType == NoTask \in TaskRecord
BY SchedulerAssumption DEF NoTask, Task, TaskRecord

LEMMA NoRecType == NoRec \in RecRecord
BY SchedulerAssumption DEF NoRec, Rec, RecRecord

LEMMA NoTimerType == NoTimer \in TimerRecord
BY DEF NoTimer, RecTimer, TimerRecord

LEMMA SetTimeoutType == ASSUME NEW d \in Int PROVE SetTimeout(d) \in Nat
BY SchedulerAssumption DEF SetTimeout

LEMMA EndedType ==
  ASSUME NEW t \in TaskRecord, NEW s \in {"executing", "completed", "failed", "cancelled"}
  PROVE  Ended(t, s) \in TaskRecord /\ Ended(t, s).status = s
<1>1. t.parent \in Recs \cup {None} /\ 0 \in 0..MaxRetries
  BY SchedulerAssumption DEF TaskRecord
<1> QED BY <1>1 DEF Ended, Task, TaskRecord

LEMMA DueType ==
  ASSUME NEW t \in TaskRecord, NEW d \in Int PROVE [t EXCEPT !.due = d] \in TaskRecord
BY DEF TaskRecord

LEMMA FiredType == ASSUME NEW t \in TaskRecord PROVE Fired(t) \in TaskRecord
<1>1. CASE bot /\ Busy /\ t.retry < MaxRetries
  BY <1>1, SchedulerAssumption DEF Fired, TaskRecord
<1>2. CASE ~(bot /\ Busy /\ t.retry < MaxRetries)
  BY <1>2, EndedType, SchedulerAssumption DEF Fired
<1> QED BY <1>1, <1>2

LEMMA NewChildType == ASSUME NEW r \in Recs PROVE NewChild(r) \in TaskRecord
BY SchedulerAssumption DEF NewChild, Task, TaskRecord

LEMMA RetryTimerType ==
  ASSUME NEW t \in TaskRecord
  PROVE  /\ RetryTimer(t) \in Nat \cup {Off}
         /\ t.status = "pending" => RetryTimer(t) # Off
BY SchedulerAssumption DEF RetryTimer, Off

LEMMA RecurringTimerType ==
  ASSUME NEW w \in Int
  PROVE  RecurringTimer(w) \in TimerRecord /\ RecurringTimer(w) # NoTimer
<1>1. SetTimeout(w) \in Nat /\ SetTimeout(MaxTimeout) \in Nat
  BY SetTimeoutType, SchedulerAssumption
<1> QED BY <1>1 DEF RecurringTimer, RecTimer, TimerRecord, NoTimer, Off

LEMMA OccurrenceType == ASSUME TypeOK PROVE Occurrence \in 0..Period
BY SchedulerAssumption DEF TypeOK, Occurrence

LEMMA WaitingType == ASSUME TypeOK PROVE Waiting \in RecRecord
BY OccurrenceType DEF Waiting, Rec, RecRecord

LEMMA StillRunningType ==
  ASSUME TypeOK, NEW r \in Recs PROVE StillRunning(r) \subseteq TimerRecord
BY DEF TypeOK, StillRunning

\* A timer that a tick has moved is still a timer, and a task still a task.
LEMMA LaterTypes ==
  /\ \A t \in TaskRecord : LaterTask(t) \in TaskRecord /\ LaterTask(t).status = t.status
                           /\ LaterTask(t).parent = t.parent
  /\ \A t \in TimerRecord : LaterTimer(t) \in TimerRecord /\ (LaterTimer(t) = NoTimer => t = NoTimer)
  /\ \A n \in Nat \cup {Off} : Less(n) \in Nat \cup {Off} /\ (Less(n) = Off => n = Off)
<1>1. \A n \in Nat \cup {Off} : Less(n) \in Nat \cup {Off} /\ (Less(n) = Off => n = Off)
  BY DEF Less, Off
<1>2. ASSUME NEW t \in TaskRecord
      PROVE  LaterTask(t) \in TaskRecord /\ LaterTask(t).status = t.status
             /\ LaterTask(t).parent = t.parent
  BY SchedulerAssumption DEF LaterTask, TaskRecord
<1>3. ASSUME NEW t \in TimerRecord
      PROVE  LaterTimer(t) \in TimerRecord /\ (LaterTimer(t) = NoTimer => t = NoTimer)
  BY <1>1 DEF LaterTimer, TimerRecord, NoTimer, RecTimer
<1> QED BY <1>1, <1>2, <1>3

(* Types. *******************************************************************)

DiskType == disk \in [tasks : [TaskIds -> TaskRecord], recurring : [Recs -> RecRecord]]

LEMMA TypeInit == Init => TypeOK
<1> SUFFICES ASSUME Init PROVE TypeOK
  OBVIOUS
<1>1. /\ tasks \in [TaskIds -> TaskRecord] /\ recurringTasks \in [Recs -> RecRecord]
      /\ recurringTimers \in [Recs -> TimerRecord]
  BY NoTaskType, NoRecType, NoTimerType DEF Init
<1>2. disk \in [tasks : [TaskIds -> TaskRecord], recurring : [Recs -> RecRecord]]
  BY <1>1 DEF Init
<1>3. timers \in [TaskIds -> Nat \cup {Off}] /\ leaked \in [Recs -> SUBSET TimerRecord]
  BY DEF Init
<1>4. phase \in 0..(Period - 1) /\ crashes \in 0..MaxCrashes
  BY SchedulerAssumption DEF Init
<1>5. /\ up \in BOOLEAN /\ userBusy \in BOOLEAN /\ bot \in BOOLEAN
      /\ awaiting \subseteq TaskIds /\ running \subseteq TaskIds
  BY DEF Init
<1> QED BY <1>1, <1>2, <1>3, <1>4, <1>5 DEF TypeOK

\* Setting the timer of a recurring task keeps the timers' types.
LEMMA ArmedTypes ==
  ASSUME TypeOK, NEW r \in Recs, NEW w \in Int, NEW kept \in SUBSET TimerRecord,
         ArmRecurring(r, w, kept)
  PROVE  /\ recurringTimers' \in [Recs -> TimerRecord]
         /\ leaked' \in [Recs -> SUBSET TimerRecord]
         /\ recurringTimers'[r] # NoTimer
<1>1. RecurringTimer(w) \in TimerRecord /\ RecurringTimer(w) # NoTimer
  BY RecurringTimerType
<1>2. /\ recurringTimers' = [recurringTimers EXCEPT ![r] = RecurringTimer(w)]
      /\ leaked' = [leaked EXCEPT ![r] = kept]
      /\ recurringTimers \in [Recs -> TimerRecord]
      /\ leaked \in [Recs -> SUBSET TimerRecord]
  BY DEF ArmRecurring, TypeOK
<1> QED BY <1>1, <1>2

\* What a step may do to the types, a group of variables at a time.
MemType ==
  /\ tasks \in [TaskIds -> TaskRecord] /\ timers \in [TaskIds -> Nat \cup {Off}]
  /\ recurringTasks \in [Recs -> RecRecord] /\ recurringTimers \in [Recs -> TimerRecord]
  /\ leaked \in [Recs -> SUBSET TimerRecord] /\ awaiting \subseteq TaskIds
EnvType ==
  /\ phase \in 0..(Period - 1) /\ crashes \in 0..MaxCrashes /\ running \subseteq TaskIds
  /\ up \in BOOLEAN /\ userBusy \in BOOLEAN /\ bot \in BOOLEAN

LEMMA TypeParts == TypeOK <=> MemType /\ EnvType /\ DiskType
BY DEF TypeOK, MemType, EnvType, DiskType

LEMMA TypePartsNext == TypeOK' <=> MemType' /\ EnvType' /\ DiskType'
BY DEF TypeOK, MemType, EnvType, DiskType

LEMMA SavedTypes == ASSUME MemType', SaveToDisk PROVE DiskType'
BY DEF SaveToDisk, MemType, DiskType

LEMMA SavedTaskTypes ==
  ASSUME MemType', SaveTasks, UNCHANGED recurringTasks PROVE DiskType'
BY DEF SaveTasks, MemType, DiskType

LEMMA EnvKept == ASSUME EnvType, UNCHANGED envVars PROVE EnvType'
BY DEF EnvType, envVars

LEMMA OneTimeTypes ==
  ASSUME TypeOK, NEW i \in TaskIds,
         \/ \E d \in Delays : ScheduleTask(i, d) \/ UpdateTask(i, d)
         \/ CancelTask(i) \/ FireTask(i)
  PROVE  TypeOK'
<1> USE DEF MemType
<1>1. MemType /\ EnvType /\ DiskType /\ tasks[i] \in TaskRecord
  BY TypeParts
<1>2. UNCHANGED envVars /\ UNCHANGED recurringTasks
  BY DEF ScheduleTask, UpdateTask, CancelTask, FireTask
<1>3. ASSUME NEW d \in Delays, ScheduleTask(i, d) PROVE MemType' /\ DiskType'
  <2>1. Task("pending", d, None) \in TaskRecord /\ SetTimeout(d) \in Nat
    BY SetTimeoutType, SchedulerAssumption DEF Task, TaskRecord
  <2>2. MemType'
    BY <1>1, <1>3, <2>1 DEF ScheduleTask
  <2> QED BY <1>2, <1>3, <2>2, SavedTaskTypes DEF ScheduleTask
<1>4. ASSUME NEW d \in Delays, UpdateTask(i, d) PROVE MemType' /\ DiskType'
  <2>1. d \in Int
    BY SchedulerAssumption
  <2>2. [tasks[i] EXCEPT !.due = d] \in TaskRecord /\ SetTimeout(d) \in Nat
    BY <1>1, <2>1, DueType, SetTimeoutType
  <2>3. MemType'
    BY <1>1, <1>4, <2>2 DEF UpdateTask
  <2> QED BY <1>2, <1>4, <2>3, SavedTaskTypes DEF UpdateTask
<1>5. CASE CancelTask(i)
  <2>1. Ended(tasks[i], "cancelled") \in TaskRecord
    BY <1>1, EndedType
  <2>2. MemType'
    BY <1>1, <1>5, <2>1 DEF CancelTask
  <2> QED BY <1>1, <1>2, <1>5, <2>2, SavedTaskTypes, EnvKept, TypePartsNext DEF CancelTask
<1>6. CASE FireTask(i)
  <2>1. Fired(tasks[i]) \in TaskRecord
    BY <1>1, FiredType
  <2>2. CASE tasks[i].status # "pending"
    <3>1. /\ timers' = [timers EXCEPT ![i] = Off]
          /\ UNCHANGED <<tasks, disk, recurringTasks, recurringTimers, leaked, awaiting>>
      BY <1>6, <2>2 DEF FireTask
    <3>2. MemType' /\ DiskType'
      BY <1>1, <3>1 DEF DiskType
    <3> QED BY <1>1, <1>2, <3>2, EnvKept, TypePartsNext
  <2>3. CASE tasks[i].status = "pending"
    <3>1. RetryTimer(Fired(tasks[i])) \in Nat \cup {Off}
      BY <2>1, RetryTimerType
    <3>2. /\ tasks' = [tasks EXCEPT ![i] = Fired(tasks[i])]
          /\ timers' = [timers EXCEPT ![i] = RetryTimer(tasks'[i])]
          /\ UNCHANGED <<recurringTasks, recurringTimers, leaked, awaiting>> /\ SaveTasks
      BY <1>6, <2>3 DEF FireTask
    <3>3. MemType'
      BY <1>1, <2>1, <3>1, <3>2
    <3> QED BY <1>1, <1>2, <3>2, <3>3, SavedTaskTypes, EnvKept, TypePartsNext
  <2> QED BY <2>2, <2>3
<1> QED BY <1>1, <1>2, <1>3, <1>4, <1>5, <1>6, EnvKept, TypePartsNext

LEMMA RecurringTypes ==
  ASSUME TypeOK, NEW r \in Recs,
         \/ ScheduleRecurring(r) \/ UpdateRecurring(r) \/ PauseRecurring(r)
         \/ ResumeRecurring(r) \/ CancelRecurring(r)
  PROVE  TypeOK'
<1>1. MemType /\ EnvType /\ DiskType /\ recurringTasks[r] \in RecRecord
  BY TypeParts DEF MemType
<1>2. UNCHANGED envVars /\ SaveToDisk
  BY DEF ScheduleRecurring, UpdateRecurring, PauseRecurring, ResumeRecurring, CancelRecurring
<1>3. /\ Occurrence \in 0..Period /\ Occurrence \in Int /\ Waiting \in RecRecord
      /\ leaked[r] \in SUBSET TimerRecord /\ StillRunning(r) \in SUBSET TimerRecord
  BY OccurrenceType, WaitingType, StillRunningType, SchedulerAssumption DEF TypeOK
<1>4. CASE ScheduleRecurring(r) \/ UpdateRecurring(r) \/ ResumeRecurring(r)
  <2>1. /\ recurringTimers' \in [Recs -> TimerRecord]
        /\ leaked' \in [Recs -> SUBSET TimerRecord]
    BY <1>3, <1>4, ArmedTypes DEF ScheduleRecurring, UpdateRecurring, ResumeRecurring
  <2>2. /\ [recurringTasks[r] EXCEPT !.wait = Occurrence] \in RecRecord
        /\ Rec("active", Occurrence, recurringTasks[r].child) \in RecRecord
    BY <1>1, <1>3 DEF RecRecord, Rec
  <2>3. recurringTasks' \in [Recs -> RecRecord]
    BY <1>1, <1>3, <1>4, <2>2 DEF ScheduleRecurring, UpdateRecurring, ResumeRecurring, MemType
  <2>4. UNCHANGED <<tasks, timers, awaiting>>
    BY <1>4 DEF ScheduleRecurring, UpdateRecurring, ResumeRecurring
  <2>5. MemType'
    BY <1>1, <2>1, <2>3, <2>4 DEF MemType
  <2> QED BY <1>1, <1>2, <2>5, SavedTypes, EnvKept, TypePartsNext
<1>5. CASE PauseRecurring(r)
  <2>1. [recurringTasks[r] EXCEPT !.status = "paused"] \in RecRecord
    BY <1>1 DEF RecRecord
  <2>2. MemType'
    BY <1>1, <1>5, <2>1, NoTimerType DEF PauseRecurring, MemType
  <2> QED BY <1>1, <1>2, <2>2, SavedTypes, EnvKept, TypePartsNext
<1>6. CASE CancelRecurring(r)
  <2> DEFINE goes(i) == i = recurringTasks[r].child /\ tasks[i].status = "pending"
  <2>1. Rec("cancelled", recurringTasks[r].wait, None) \in RecRecord
    BY <1>1 DEF RecRecord, Rec
  <2>2. /\ tasks' = [i \in TaskIds |-> IF goes(i) THEN Ended(tasks[i], "cancelled") ELSE tasks[i]]
        /\ timers' = [i \in TaskIds |-> IF goes(i) THEN Off ELSE timers[i]]
    BY <1>6 DEF CancelRecurring
  <2>3. \A i \in TaskIds : tasks[i] \in TaskRecord /\ Ended(tasks[i], "cancelled") \in TaskRecord
    BY <1>1, EndedType DEF MemType
  <2>4. tasks' \in [TaskIds -> TaskRecord] /\ timers' \in [TaskIds -> Nat \cup {Off}]
    BY <1>1, <2>2, <2>3 DEF MemType
  <2>5. MemType'
    BY <1>1, <1>6, <2>1, <2>4, NoTimerType DEF CancelRecurring, MemType
  <2> QED BY <1>1, <1>2, <2>5, SavedTypes, EnvKept, TypePartsNext
<1> QED BY <1>4, <1>5, <1>6

LEMMA GoingOffTypes ==
  ASSUME TypeOK, NEW r \in Recs, NEW t \in GoingOff(r)
  PROVE  RunOn(r, t) \in SUBSET TimerRecord
BY StillRunningType DEF GoingOff, RunOn, StillRunning, TypeOK

LEMMA TimerOnlyTypes ==
  ASSUME TypeOK, NEW r \in Recs, NEW t \in GoingOff(r),
         LookAgain(r, t) \/ GoesOffUnheeded(r, t)
  PROVE  TypeOK'
<1>1. /\ MemType /\ EnvType /\ DiskType /\ recurringTasks[r] \in RecRecord
      /\ RunOn(r, t) \in SUBSET TimerRecord
  BY TypeParts, GoingOffTypes DEF MemType
<1>2. UNCHANGED envVars
  BY DEF LookAgain, GoesOffUnheeded
<1>3. CASE LookAgain(r, t)
  <2>1. recurringTasks[r].wait \in Int
    BY <1>1, SchedulerAssumption DEF RecRecord
  <2>2. /\ recurringTimers' \in [Recs -> TimerRecord]
        /\ leaked' \in [Recs -> SUBSET TimerRecord]
    BY <1>1, <1>3, <2>1, ArmedTypes DEF LookAgain
  <2>3. MemType' /\ DiskType'
    BY <1>1, <1>3, <2>2 DEF LookAgain, MemType, DiskType
  <2> QED BY <1>1, <1>2, <2>3, EnvKept, TypePartsNext
<1>4. CASE GoesOffUnheeded(r, t)
  <2>1. UNCHANGED <<tasks, timers, recurringTasks, awaiting, disk>>
    BY <1>4 DEF GoesOffUnheeded
  <2>2. /\ recurringTimers' \in [Recs -> TimerRecord]
        /\ leaked' \in [Recs -> SUBSET TimerRecord]
    BY <1>1, <1>4, NoTimerType DEF GoesOffUnheeded, MemType
  <2>3. MemType' /\ DiskType'
    BY <1>1, <2>1, <2>2 DEF MemType, DiskType
  <2> QED BY <1>1, <1>2, <2>3, EnvKept, TypePartsNext
<1> QED BY <1>3, <1>4

LEMMA InstanceTypes ==
  ASSUME TypeOK, NEW r \in Recs, NEW t \in GoingOff(r), NEW i \in TaskIds,
         FireRecurringInstance(r, t, i)
  PROVE  TypeOK'
<1>1. /\ MemType /\ EnvType /\ DiskType /\ recurringTasks[r] \in RecRecord
      /\ RunOn(r, t) \in SUBSET TimerRecord
  BY TypeParts, GoingOffTypes DEF MemType
<1>2. UNCHANGED envVars
  BY DEF FireRecurringInstance
<1>3. /\ tasks' = [tasks EXCEPT ![i] = Fired(NewChild(r))]
      /\ timers' = [timers EXCEPT ![i] = RetryTimer(tasks'[i])]
      /\ SaveToDisk
  BY DEF FireRecurringInstance
<1>4. Fired(NewChild(r)) \in TaskRecord /\ RetryTimer(Fired(NewChild(r))) \in Nat \cup {Off}
  BY NewChildType, FiredType, RetryTimerType
<1>5. tasks' \in [TaskIds -> TaskRecord] /\ timers' \in [TaskIds -> Nat \cup {Off}]
  BY <1>1, <1>3, <1>4 DEF MemType
<1>6. CASE tasks'[i].status = "executing"
  <2>1. [recurringTasks[r] EXCEPT !.child = i] \in RecRecord
    BY <1>1 DEF RecRecord
  <2>2. MemType'
    BY <1>1, <1>5, <1>6, <2>1, NoTimerType DEF FireRecurringInstance, MemType
  <2> QED BY <1>1, <1>2, <1>3, <2>2, SavedTypes, EnvKept, TypePartsNext
<1>7. CASE tasks'[i].status # "executing"
  <2>1. Waiting \in RecRecord /\ Occurrence \in Int
    BY WaitingType, OccurrenceType, SchedulerAssumption
  <2>2. /\ recurringTasks' = [recurringTasks EXCEPT ![r] = Waiting]
        /\ ArmRecurring(r, Occurrence, RunOn(r, t)) /\ UNCHANGED awaiting
    BY <1>7 DEF FireRecurringInstance
  <2>3. /\ recurringTimers' \in [Recs -> TimerRecord]
        /\ leaked' \in [Recs -> SUBSET TimerRecord]
    BY <1>1, <2>1, <2>2, ArmedTypes
  <2>4. MemType'
    BY <1>1, <1>5, <2>1, <2>2, <2>3 DEF MemType
  <2> QED BY <1>1, <1>2, <1>3, <2>4, SavedTypes, EnvKept, TypePartsNext
<1> QED BY <1>6, <1>7

LEMMA TaskEndsTypes == ASSUME TypeOK, NEW i \in TaskIds, TaskEnds(i) PROVE TypeOK'
<1> DEFINE r == tasks[i].parent
<1>1. /\ MemType /\ EnvType /\ DiskType
      /\ tasks[i] \in TaskRecord /\ r \in Recs \cup {None} /\ None \notin Recs
      /\ Waiting \in RecRecord /\ Occurrence \in Int
  BY TypeParts, WaitingType, OccurrenceType, SchedulerAssumption DEF MemType, TaskRecord
<1>2. PICK s \in {"completed", "failed"} : tasks' = [tasks EXCEPT ![i].status = s]
  BY DEF TaskEnds
<1>3. [tasks[i] EXCEPT !.status = s] \in TaskRecord
  BY <1>1 DEF TaskRecord
<1>4. tasks' \in [TaskIds -> TaskRecord] /\ awaiting' \subseteq TaskIds
      /\ timers' \in [TaskIds -> Nat \cup {Off}]
  BY <1>1, <1>2, <1>3 DEF TaskEnds, MemType
<1>5. EnvType'
  BY <1>1 DEF TaskEnds, EnvType
<1>6. /\ recurringTasks' \in [Recs -> RecRecord] /\ recurringTimers' \in [Recs -> TimerRecord]
      /\ leaked' \in [Recs -> SUBSET TimerRecord]
  <2>1. CASE i \notin awaiting
    BY <1>1, <2>1 DEF TaskEnds, MemType
  <2>2. CASE i \in awaiting /\ recurringTasks[r].status = "active"
    <3>1. /\ recurringTasks' = [recurringTasks EXCEPT ![r] = Waiting]
          /\ ArmRecurring(r, Occurrence, StillRunning(r))
      BY <2>2 DEF TaskEnds
    <3>2. CASE r \in Recs
      BY <1>1, <3>1, <3>2, ArmedTypes, StillRunningType DEF MemType
    <3>3. CASE r = None
      BY <1>1, <3>1, <3>3 DEF ArmRecurring, MemType
    <3> QED BY <1>1, <3>2, <3>3
  <2>3. CASE i \in awaiting /\ recurringTasks[r].status # "active"
    <3>1. /\ recurringTasks' = [recurringTasks EXCEPT ![r].child = None]
          /\ UNCHANGED <<recurringTimers, leaked>>
      BY <2>3 DEF TaskEnds
    <3>2. r \in Recs => [recurringTasks[r] EXCEPT !.child = None] \in RecRecord
      BY <1>1 DEF MemType, RecRecord
    <3> QED BY <1>1, <3>1, <3>2 DEF MemType
  <2> QED BY <2>1, <2>2, <2>3
<1>7. MemType' /\ SaveToDisk
  BY <1>4, <1>6 DEF MemType, TaskEnds
<1> QED BY <1>5, <1>7, SavedTypes, TypePartsNext

LEMMA CrashTypes ==
  ASSUME TypeOK,
         Crash \/ (\E r \in Recs, i \in TaskIds : CrashWhileFiring(r, i)) \/ Restart
  PROVE  TypeOK'
<1>1. MemType /\ EnvType /\ DiskType
  BY TypeParts
<1>2. ASSUME Forget, crashes < MaxCrashes PROVE MemType' /\ EnvType'
  <2>1. MemType'
    BY <1>2, NoTaskType, NoRecType, NoTimerType DEF Forget, MemType
  <2>2. phase' \in 0..(Period - 1) /\ crashes' \in 0..MaxCrashes
    BY <1>1, <1>2, SchedulerAssumption DEF Forget, EnvType
  <2>3. running' \subseteq TaskIds /\ up' \in BOOLEAN /\ userBusy' \in BOOLEAN /\ bot' \in BOOLEAN
    BY <1>1, <1>2 DEF Forget, EnvType
  <2> QED BY <2>1, <2>2, <2>3 DEF EnvType
<1>3. CASE Crash
  BY <1>1, <1>2, <1>3, TypePartsNext DEF Crash, DiskType
<1>4. ASSUME NEW r \in Recs, NEW i \in TaskIds, CrashWhileFiring(r, i) PROVE TypeOK'
  <2>1. NewChild(r) \in TaskRecord /\ [recurringTasks[r] EXCEPT !.child = i] \in RecRecord
    BY <1>1, NewChildType DEF MemType, RecRecord
  <2>2. /\ [tasks EXCEPT ![i] = NewChild(r)] \in [TaskIds -> TaskRecord]
        /\ [recurringTasks EXCEPT ![r].child = i] \in [Recs -> RecRecord]
    BY <1>1, <2>1 DEF MemType
  <2>3. DiskType'
    BY <1>4, <2>2 DEF CrashWhileFiring, DiskType
  <2> QED BY <1>2, <1>4, <2>3, TypePartsNext DEF CrashWhileFiring
<1>5. CASE Restart
  <2>1. \A i \in TaskIds : /\ disk.tasks[i] \in TaskRecord /\ disk.tasks[i].due \in Int
                           /\ Ended(disk.tasks[i], "failed") \in TaskRecord
                           /\ SetTimeout(disk.tasks[i].due) \in Nat
    BY <1>1, EndedType, SetTimeoutType DEF DiskType, TaskRecord
  <2>2. tasks' \in [TaskIds -> TaskRecord] /\ timers' \in [TaskIds -> Nat \cup {Off}]
    BY <1>5, <2>1, NoTaskType DEF Restart
  <2>3. /\ Waiting \in RecRecord /\ \A r \in Recs : disk.recurring[r] \in RecRecord
        /\ RecurringTimer(Occurrence) \in TimerRecord
    BY <1>1, WaitingType, OccurrenceType, RecurringTimerType, SchedulerAssumption DEF DiskType
  <2>4. recurringTasks' \in [Recs -> RecRecord] /\ recurringTimers' \in [Recs -> TimerRecord]
    BY <1>5, <2>3, NoRecType, NoTimerType DEF Restart
  <2>5. MemType' /\ EnvType' /\ DiskType'
    BY <1>1, <1>5, <2>2, <2>4 DEF Restart, MemType, EnvType, DiskType
  <2> QED BY <2>5, TypePartsNext
<1> QED BY <1>3, <1>4, <1>5

LEMMA TickTypes == ASSUME TypeOK, Tick PROVE TypeOK'
<1>1. MemType /\ EnvType /\ DiskType
  BY TypeParts
<1>2. \A f \in [TaskIds -> TaskRecord] : LaterTasks(f) \in [TaskIds -> TaskRecord]
  BY LaterTypes DEF LaterTasks
<1>3. \A c \in RecRecord : [c EXCEPT !.wait = Less(@)] \in RecRecord
  BY SchedulerAssumption DEF Less, RecRecord
<1>4. \A f \in [Recs -> RecRecord] : LaterRecs(f) \in [Recs -> RecRecord]
  BY <1>3 DEF LaterRecs
<1>5. /\ tasks' \in [TaskIds -> TaskRecord] /\ recurringTasks' \in [Recs -> RecRecord]
      /\ timers' \in [TaskIds -> Nat \cup {Off}] /\ recurringTimers' \in [Recs -> TimerRecord]
      /\ leaked' \in [Recs -> SUBSET TimerRecord]
  BY <1>1, <1>2, <1>4, LaterTypes DEF Tick, MemType
<1>6. DiskType'
  BY <1>1, <1>2, <1>4 DEF Tick, DiskType
<1>7. (phase + 1) % Period \in 0..(Period - 1)
  BY <1>1, SchedulerAssumption DEF EnvType
<1>8. MemType' /\ EnvType'
  BY <1>1, <1>5, <1>7 DEF Tick, MemType, EnvType
<1> QED BY <1>6, <1>8, TypePartsNext

LEMMA EnvironmentTypes ==
  ASSUME TypeOK, UserTask \/ BotRemoved \/ \E i \in TaskIds : TaskRegisters(i)
  PROVE  TypeOK'
<1>1. MemType /\ EnvType /\ DiskType
  BY TypeParts
<1>2. MemType' /\ DiskType'
  BY <1>1 DEF UserTask, BotRemoved, TaskRegisters, MemType, DiskType, memVars
<1>3. EnvType'
  BY <1>1 DEF UserTask, BotRemoved, TaskRegisters, EnvType
<1> QED BY <1>2, <1>3, TypePartsNext

LEMMA TypeStep == TypeOK /\ [Next]_vars => TypeOK'
<1> SUFFICES ASSUME TypeOK, [Next]_vars PROVE TypeOK'
  OBVIOUS
<1>1. CASE UNCHANGED vars
  BY <1>1 DEF TypeOK, vars, memVars, envVars
<1>2. CASE \E r \in Recs : FireAny(r)
  BY <1>2, TimerOnlyTypes, InstanceTypes DEF FireAny
<1>3. CASE \E r \in Recs : \/ ScheduleRecurring(r) \/ UpdateRecurring(r) \/ PauseRecurring(r)
                           \/ ResumeRecurring(r) \/ CancelRecurring(r)
  BY <1>3, RecurringTypes
<1>4. CASE \E i \in TaskIds : \/ \E d \in Delays : ScheduleTask(i, d) \/ UpdateTask(i, d)
                              \/ CancelTask(i) \/ FireTask(i)
  BY <1>4, OneTimeTypes
<1>5. CASE \E i \in TaskIds : TaskEnds(i)
  BY <1>5, TaskEndsTypes
<1>6. CASE Crash \/ (\E r \in Recs, i \in TaskIds : CrashWhileFiring(r, i)) \/ Restart
  BY <1>6, CrashTypes
<1>7. CASE UserTask \/ BotRemoved \/ \E i \in TaskIds : TaskRegisters(i)
  BY <1>7, EnvironmentTypes
<1>8. CASE Tick
  BY <1>8, TickTypes
<1> QED BY <1>1, <1>2, <1>3, <1>4, <1>5, <1>6, <1>7, <1>8 DEF Next

\* The scheduler's maps, timers and file keep their types, and no task is
\* retried more than MaxRetries times (fireTask, loadFromDisk).
THEOREM SchedulerTypes == Spec => []TypeOK
BY TypeInit, TypeStep, PTL DEF Spec

(* Timers. ******************************************************************)

LEMMA PendingStep == TypeOK /\ TypeOK' /\ PendingIsArmed /\ [Next]_vars => PendingIsArmed'
<1> SUFFICES ASSUME TypeOK, TypeOK', PendingIsArmed, [Next]_vars,
                    NEW j \in TaskIds, tasks'[j].status = "pending"
             PROVE  timers'[j] # Off
  BY DEF PendingIsArmed
<1> USE DEF PendingIsArmed
<1>1. /\ tasks \in [TaskIds -> TaskRecord] /\ timers \in [TaskIds -> Nat \cup {Off}]
      /\ tasks' \in [TaskIds -> TaskRecord] /\ timers' \in [TaskIds -> Nat \cup {Off}]
  BY DEF TypeOK
<1>2. \A n \in Nat : n # Off
  BY DEF Off
<1>3. CASE UNCHANGED <<tasks, timers>>
  BY <1>3
<1>4. ASSUME NEW i \in TaskIds, NEW d \in Delays, ScheduleTask(i, d) \/ UpdateTask(i, d)
      PROVE  timers'[j] # Off
  <2>1. SetTimeout(d) # Off
    BY <1>2, SetTimeoutType, SchedulerAssumption
  <2> QED BY <1>1, <1>4, <2>1 DEF ScheduleTask, UpdateTask
<1>5. ASSUME NEW i \in TaskIds, CancelTask(i) PROVE timers'[j] # Off
  <2>1. j # i
    BY <1>1, <1>5, EndedType DEF CancelTask
  <2> QED BY <1>1, <1>5, <2>1 DEF CancelTask
<1>6. ASSUME NEW i \in TaskIds, FireTask(i) PROVE timers'[j] # Off
  <2>1. CASE tasks[i].status # "pending"
    BY <1>1, <1>6, <2>1 DEF FireTask
  <2>2. CASE tasks[i].status = "pending"
    BY <1>1, <1>6, <2>2, RetryTimerType DEF FireTask
  <2> QED BY <2>1, <2>2
<1>7. ASSUME NEW i \in TaskIds, TaskEnds(i) PROVE timers'[j] # Off
  <2>1. PICK s \in {"completed", "failed"} : tasks' = [tasks EXCEPT ![i].status = s]
    BY <1>7 DEF TaskEnds
  <2>2. j # i
    BY <1>1, <2>1 DEF TaskRecord
  <2> QED BY <1>1, <1>7, <2>1, <2>2 DEF TaskEnds
<1>8. ASSUME NEW r \in Recs, CancelRecurring(r) PROVE timers'[j] # Off
  <2> DEFINE goes(i) == i = recurringTasks[r].child /\ tasks[i].status = "pending"
  <2>1. /\ tasks' = [i \in TaskIds |-> IF goes(i) THEN Ended(tasks[i], "cancelled") ELSE tasks[i]]
        /\ timers' = [i \in TaskIds |-> IF goes(i) THEN Off ELSE timers[i]]
    BY <1>8 DEF CancelRecurring
  <2>2. ~goes(j)
    BY <1>1, <2>1, EndedType
  <2> QED BY <2>1, <2>2
<1>9. ASSUME NEW r \in Recs, NEW t \in GoingOff(r), NEW i \in TaskIds,
             FireRecurringInstance(r, t, i)
      PROVE  timers'[j] # Off
  BY <1>1, <1>9, RetryTimerType DEF FireRecurringInstance
<1>10. CASE Forget
  BY <1>10 DEF Forget, NoTask, Task
<1>11. CASE Restart
  <2>1. Restored(j) /\ disk.tasks[j].due \in Int
    BY <1>11 DEF Restart, NoTask, Task, TypeOK, TaskRecord
  <2> QED BY <1>2, <1>11, <2>1, SetTimeoutType DEF Restart
<1>12. CASE Tick
  BY <1>1, <1>12, LaterTypes DEF Tick, LaterTasks
<1>13. CASE \E r \in Recs : FireAny(r)
  BY <1>3, <1>9, <1>13 DEF FireAny, LookAgain, GoesOffUnheeded
<1>14. CASE \E r \in Recs : \/ ScheduleRecurring(r) \/ UpdateRecurring(r) \/ PauseRecurring(r)
                            \/ ResumeRecurring(r)
  BY <1>3, <1>14 DEF ScheduleRecurring, UpdateRecurring, PauseRecurring, ResumeRecurring
<1>15. CASE UserTask \/ BotRemoved \/ \E i \in TaskIds : TaskRegisters(i)
  BY <1>3, <1>15 DEF UserTask, BotRemoved, TaskRegisters, memVars
<1>16. CASE Crash \/ \E r \in Recs, i \in TaskIds : CrashWhileFiring(r, i)
  BY <1>10, <1>16 DEF Crash, CrashWhileFiring
<1>17. CASE UNCHANGED vars
  BY <1>3, <1>17 DEF vars, memVars
<1> QED BY <1>4, <1>5, <1>6, <1>7, <1>8, <1>11, <1>12, <1>13, <1>14, <1>15, <1>16, <1>17
        DEF Next

\* No pending task is without a timer, whatever updates, retries, busy chats,
\* crashes and restarts it goes through (setTimer, fireTask, loadFromDisk).
THEOREM PendingTasksAreArmed == Spec => []PendingIsArmed
<1>1. Init => PendingIsArmed
  BY DEF Init, PendingIsArmed, NoTask, Task
<1> QED BY <1>1, SchedulerTypes, PendingStep, PTL DEF Spec

(* Recurring tasks. *********************************************************)

\* A child somebody waits for is executing, so nothing but its end or a crash
\* touches it.
AwaitedExecutes == \A i \in awaiting : tasks[i].status = "executing"

\* A process that is down waits for nothing.
DownIsIdle == up \/ awaiting = {}

ArmedInv == TypeOK /\ AwaitedExecutes /\ DownIsIdle /\ ActiveIsArmed

HasTimer(r) == leaked[r] # {} \/ recurringTimers[r] # NoTimer

LEMMA Running == ASSUME NEW r \in Recs PROVE (StillRunning(r) # {}) <=> HasTimer(r)
BY DEF StillRunning, HasTimer

LEMMA RunningNext == ASSUME NEW r \in Recs PROVE (StillRunning(r)' # {}) <=> HasTimer(r)'
BY DEF StillRunning, HasTimer

\* What a step leaves of the awaited children.
LEMMA AwaitedStep ==
  ASSUME TypeOK, TypeOK', AwaitedExecutes, DownIsIdle, [Next]_vars
  PROVE  /\ AwaitedExecutes' /\ DownIsIdle'
         /\ \A j \in awaiting :
              \/ j \in awaiting' /\ tasks'[j].parent = tasks[j].parent
              \/ TaskEnds(j)
              \/ Forget
<1> DEFINE Same(j) == tasks'[j].status = "executing" /\ tasks'[j].parent = tasks[j].parent
           Goal == /\ AwaitedExecutes' /\ DownIsIdle'
                   /\ \A j \in awaiting :
                        \/ j \in awaiting' /\ tasks'[j].parent = tasks[j].parent
                        \/ TaskEnds(j)
                        \/ Forget
<1>1. /\ tasks \in [TaskIds -> TaskRecord] /\ tasks' \in [TaskIds -> TaskRecord]
      /\ awaiting \subseteq TaskIds
      /\ \A j \in awaiting : tasks[j].status = "executing"
  BY DEF TypeOK, AwaitedExecutes
<1>2. ASSUME UNCHANGED <<awaiting, up>>, \A j \in awaiting : Same(j) PROVE Goal
  BY <1>2 DEF AwaitedExecutes, DownIsIdle
<1>3. CASE UNCHANGED <<awaiting, up, tasks>>
  BY <1>1, <1>2, <1>3
<1>4. ASSUME NEW i \in TaskIds, tasks[i].status # "executing",
             \A j \in TaskIds : j # i => tasks'[j] = tasks[j]
      PROVE  \A j \in awaiting : j # i /\ Same(j)
  BY <1>1, <1>4
<1>5. ASSUME NEW i \in TaskIds,
             \/ \E d \in Delays : ScheduleTask(i, d) \/ UpdateTask(i, d)
             \/ CancelTask(i) \/ FireTask(i)
      PROVE  Goal
  <2>1. UNCHANGED <<awaiting, up>>
    BY <1>5 DEF ScheduleTask, UpdateTask, CancelTask, FireTask, envVars
  <2>2. CASE FireTask(i) /\ tasks[i].status = "executing"
    BY <1>3, <2>1, <2>2 DEF FireTask
  <2>3. CASE tasks[i].status # "executing"
    <3>1. \A j \in TaskIds : j # i => tasks'[j] = tasks[j]
      BY <1>1, <1>5 DEF ScheduleTask, UpdateTask, CancelTask, FireTask
    <3> QED BY <1>2, <1>4, <2>1, <2>3, <3>1
  <2> QED BY <1>5, <2>2, <2>3 DEF ScheduleTask, UpdateTask, CancelTask, Free
<1>6. ASSUME NEW i \in TaskIds, TaskEnds(i) PROVE Goal
  <2>1. PICK s \in {"completed", "failed"} : tasks' = [tasks EXCEPT ![i].status = s]
    BY <1>6 DEF TaskEnds
  <2>2. awaiting' = awaiting \ {i} /\ up' = up /\ up
    BY <1>6 DEF TaskEnds
  <2>3. \A j \in TaskIds : j # i => tasks'[j] = tasks[j]
    BY <1>1, <2>1
  <2> QED BY <1>1, <1>6, <2>2, <2>3 DEF AwaitedExecutes, DownIsIdle
<1>7. ASSUME NEW r \in Recs, CancelRecurring(r) PROVE Goal
  <2>1. \A i \in TaskIds : tasks[i].status # "pending" => tasks'[i] = tasks[i]
    BY <1>7 DEF CancelRecurring
  <2>2. UNCHANGED <<awaiting, up>>
    BY <1>7 DEF CancelRecurring, envVars
  <2> QED BY <1>1, <1>2, <2>1, <2>2
<1>8. ASSUME NEW r \in Recs, NEW t \in GoingOff(r), NEW i \in TaskIds,
             FireRecurringInstance(r, t, i)
      PROVE  Goal
  <2>1. tasks[i].status # "executing" /\ up' = up /\ up
    BY <1>8 DEF FireRecurringInstance, Free, envVars
  <2>2. \A j \in TaskIds : j # i => tasks'[j] = tasks[j]
    BY <1>1, <1>8 DEF FireRecurringInstance
  <2>3. \A j \in awaiting : j # i /\ Same(j)
    BY <1>4, <2>1, <2>2
  <2>4. CASE tasks'[i].status = "executing"
    <3>1. awaiting' = awaiting \cup {i}
      BY <1>8, <2>4 DEF FireRecurringInstance
    <3> QED BY <2>1, <2>3, <2>4, <3>1 DEF AwaitedExecutes, DownIsIdle
  <2>5. CASE tasks'[i].status # "executing"
    BY <1>2, <1>8, <2>1, <2>3, <2>5 DEF FireRecurringInstance
  <2> QED BY <2>4, <2>5
<1>9. CASE Forget
  BY <1>9 DEF Forget, AwaitedExecutes, DownIsIdle
<1>10. CASE Restart
  BY <1>10 DEF Restart, AwaitedExecutes, DownIsIdle
<1>11. CASE Tick
  <2>1. \A j \in TaskIds : /\ tasks'[j].status = tasks[j].status
                           /\ tasks'[j].parent = tasks[j].parent
    BY <1>1, <1>11, LaterTypes DEF Tick, LaterTasks
  <2> QED BY <1>1, <1>2, <1>11, <2>1 DEF Tick
<1>12. CASE \E r \in Recs : \/ ScheduleRecurring(r) \/ UpdateRecurring(r) \/ PauseRecurring(r)
                            \/ ResumeRecurring(r)
  BY <1>3, <1>12 DEF ScheduleRecurring, UpdateRecurring, PauseRecurring, ResumeRecurring, envVars
<1>13. CASE \E r \in Recs : FireAny(r)
  BY <1>3, <1>8, <1>13 DEF FireAny, LookAgain, GoesOffUnheeded, envVars
<1>14. CASE UserTask \/ BotRemoved \/ \E i \in TaskIds : TaskRegisters(i)
  BY <1>3, <1>14 DEF UserTask, BotRemoved, TaskRegisters, memVars
<1>15. CASE Crash \/ \E r \in Recs, i \in TaskIds : CrashWhileFiring(r, i)
  BY <1>9, <1>15 DEF Crash, CrashWhileFiring
<1>16. CASE UNCHANGED vars
  BY <1>3, <1>16 DEF vars, memVars, envVars
<1> QED BY <1>5, <1>6, <1>7, <1>9, <1>10, <1>11, <1>12, <1>13, <1>14, <1>15, <1>16 DEF Next

LEMMA ActiveStep ==
  ASSUME TypeOK, TypeOK', AwaitedExecutes, DownIsIdle, ActiveIsArmed, [Next]_vars
  PROVE  ActiveIsArmed'
<1> DEFINE Awaited(q) == \E j \in awaiting : tasks[j].parent = q
           Kept(q) == \A j \in awaiting : tasks[j].parent = q =>
                                            j \in awaiting' /\ tasks'[j].parent = q
           Armed(q) == HasTimer(q) \/ Awaited(q)
<1> SUFFICES ASSUME NEW q \in Recs, recurringTasks'[q].status = "active" PROVE Armed(q)'
  BY RunningNext DEF ActiveIsArmed
<1>1. /\ recurringTasks \in [Recs -> RecRecord] /\ recurringTimers \in [Recs -> TimerRecord]
      /\ recurringTasks' \in [Recs -> RecRecord] /\ recurringTimers' \in [Recs -> TimerRecord]
      /\ leaked \in [Recs -> SUBSET TimerRecord] /\ awaiting \subseteq TaskIds
      /\ Occurrence \in Int
  BY OccurrenceType, SchedulerAssumption DEF TypeOK
<1>2. recurringTasks[q].status = "active" => Armed(q)
  BY Running DEF ActiveIsArmed
<1>3. awaiting \subseteq awaiting' => Kept(q)
  BY <1>1, AwaitedStep DEF TaskEnds, Forget
<1>4. ASSUME Kept(q), HasTimer(q) => HasTimer(q)', recurringTasks[q].status = "active"
      PROVE  Armed(q)'
  BY <1>2, <1>4
<1>5. ASSUME NEW r \in Recs, NEW w \in Int, NEW kept \in SUBSET TimerRecord,
             ArmRecurring(r, w, kept), q # r => recurringTasks'[q] = recurringTasks[q] /\ Kept(q)
      PROVE  Armed(q)'
  <2>1. recurringTimers'[r] # NoTimer
    BY <1>5, ArmedTypes
  <2>2. q # r => /\ recurringTimers'[q] = recurringTimers[q] /\ leaked'[q] = leaked[q]
    BY <1>1, <1>5 DEF ArmRecurring
  <2> QED BY <1>4, <1>5, <2>1, <2>2 DEF HasTimer
<1>6. ASSUME NEW r \in Recs,
             \/ ScheduleRecurring(r) \/ UpdateRecurring(r) \/ ResumeRecurring(r)
      PROVE  Armed(q)'
  <2>1. /\ UNCHANGED <<tasks, awaiting>>
        /\ q # r => recurringTasks'[q] = recurringTasks[q]
    BY <1>1, <1>6 DEF ScheduleRecurring, UpdateRecurring, ResumeRecurring
  <2>2. leaked[r] \in SUBSET TimerRecord /\ StillRunning(r) \in SUBSET TimerRecord
    BY <1>1, StillRunningType
  <2> QED BY <1>1, <1>5, <1>6, <2>1, <2>2 DEF ScheduleRecurring, UpdateRecurring, ResumeRecurring
<1>7. ASSUME NEW r \in Recs, PauseRecurring(r) \/ CancelRecurring(r) PROVE Armed(q)'
  <2>1. recurringTasks'[r].status \in {"paused", "cancelled"}
    <3>1. CASE PauseRecurring(r)
      BY <1>1, <3>1 DEF PauseRecurring, RecRecord
    <3>2. CASE CancelRecurring(r)
      BY <1>1, <3>2 DEF CancelRecurring, Rec
    <3> QED BY <1>7, <3>1, <3>2
  <2>2. /\ q # r /\ UNCHANGED leaked /\ recurringTimers'[q] = recurringTimers[q]
        /\ recurringTasks'[q] = recurringTasks[q]
    BY <1>1, <1>7, <2>1 DEF PauseRecurring, CancelRecurring
  <2>3. UNCHANGED awaiting
    BY <1>7 DEF PauseRecurring, CancelRecurring
  <2> QED BY <1>3, <1>4, <2>2, <2>3 DEF HasTimer
<1>8. ASSUME NEW r \in Recs, NEW t \in GoingOff(r), LookAgain(r, t) PROVE Armed(q)'
  <2>1. recurringTasks[r].wait \in Int /\ RunOn(r, t) \in SUBSET TimerRecord
    BY <1>1, GoingOffTypes, SchedulerAssumption DEF RecRecord
  <2> QED BY <1>3, <1>5, <1>8, <2>1 DEF LookAgain
<1>9. ASSUME NEW r \in Recs, NEW t \in GoingOff(r), GoesOffUnheeded(r, t) PROVE Armed(q)'
  <2>1. q # r /\ UNCHANGED <<recurringTasks, awaiting>>
    BY <1>9 DEF GoesOffUnheeded
  <2>2. recurringTimers'[q] = recurringTimers[q] /\ leaked'[q] = leaked[q]
    BY <1>1, <1>9, <2>1 DEF GoesOffUnheeded
  <2> QED BY <1>3, <1>4, <2>1, <2>2 DEF HasTimer
<1>10. ASSUME NEW r \in Recs, NEW t \in GoingOff(r), NEW i \in TaskIds,
              FireRecurringInstance(r, t, i)
       PROVE  Armed(q)'
  <2>1. RunOn(r, t) \in SUBSET TimerRecord
    BY GoingOffTypes
  <2>2. CASE tasks'[i].status # "executing"
    <3>1. /\ ArmRecurring(r, Occurrence, RunOn(r, t)) /\ UNCHANGED awaiting
          /\ recurringTasks' = [recurringTasks EXCEPT ![r] = Waiting]
      BY <1>10, <2>2 DEF FireRecurringInstance
    <3>2. q # r => recurringTasks'[q] = recurringTasks[q]
      BY <1>1, <3>1
    <3> QED BY <1>1, <1>3, <1>5, <2>1, <3>1, <3>2
  <2>3. CASE tasks'[i].status = "executing"
    <3>1. /\ recurringTasks' = [recurringTasks EXCEPT ![r].child = i]
          /\ recurringTimers' = [recurringTimers EXCEPT ![r] = NoTimer]
          /\ leaked' = [leaked EXCEPT ![r] = RunOn(r, t)]
          /\ awaiting' = awaiting \cup {i}
          /\ tasks' = [tasks EXCEPT ![i] = Fired(NewChild(r))]
      BY <1>10, <2>3 DEF FireRecurringInstance
    <3>2. Fired(NewChild(r)).parent = r
      BY NewChildType DEF Fired, Ended, NewChild, Task, TaskRecord
    <3>3. tasks'[i].parent = r
      BY <3>1, <3>2 DEF TypeOK
    <3>4. q # r => /\ recurringTimers'[q] = recurringTimers[q] /\ leaked'[q] = leaked[q]
                   /\ recurringTasks'[q] = recurringTasks[q]
      BY <1>1, <3>1
    <3> QED BY <1>3, <1>4, <3>1, <3>3, <3>4 DEF HasTimer
  <2> QED BY <2>2, <2>3
<1>11. ASSUME NEW i \in TaskIds, TaskEnds(i) PROVE Armed(q)'
  <2> DEFINE r == tasks[i].parent
  <2>1. PICK s \in {"completed", "failed"} : tasks' = [tasks EXCEPT ![i].status = s]
    BY <1>11 DEF TaskEnds
  <2>2. /\ awaiting' = awaiting \ {i}
        /\ \A j \in TaskIds : tasks'[j].parent = tasks[j].parent
    BY <1>11, <2>1 DEF TaskEnds, TypeOK, TaskRecord
  <2>3. r # q \/ i \notin awaiting => Kept(q)
    BY <1>1, <2>2
  <2>4. CASE i \notin awaiting
    <3>1. UNCHANGED <<recurringTasks, recurringTimers, leaked>>
      BY <1>11, <2>4 DEF TaskEnds
    <3> QED BY <1>4, <2>3, <2>4, <3>1 DEF HasTimer
  <2>5. CASE i \in awaiting /\ recurringTasks[r].status = "active"
    <3>1. /\ recurringTasks' = [recurringTasks EXCEPT ![r] = Waiting]
          /\ ArmRecurring(r, Occurrence, StillRunning(r))
      BY <1>11, <2>5 DEF TaskEnds
    <3>2. q # r => recurringTasks'[q] = recurringTasks[q] /\ Kept(q)
      BY <1>1, <2>3, <3>1
    <3>3. CASE r \in Recs
      BY <1>1, <1>5, <3>1, <3>2, <3>3, StillRunningType
    <3>4. CASE r \notin Recs
      BY <1>1, <1>4, <3>1, <3>2, <3>4 DEF ArmRecurring, HasTimer
    <3> QED BY <3>3, <3>4
  <2>6. CASE i \in awaiting /\ recurringTasks[r].status # "active"
    <3>1. /\ recurringTasks' = [recurringTasks EXCEPT ![r].child = None]
          /\ UNCHANGED <<recurringTimers, leaked>>
      BY <1>11, <2>6 DEF TaskEnds
    <3>2. recurringTasks'[q].status = recurringTasks[q].status
      BY <1>1, <3>1 DEF RecRecord
    <3> QED BY <1>4, <2>3, <2>6, <3>1, <3>2 DEF HasTimer
  <2> QED BY <2>4, <2>5, <2>6
<1>12. CASE Restart
  <2>1. disk.recurring[q].status = "active"
    BY <1>12 DEF Restart, NoRec, Rec
  <2> QED BY <1>1, <1>12, <2>1, RecurringTimerType DEF Restart, HasTimer
<1>13. CASE Tick
  <2>1. recurringTasks'[q].status = recurringTasks[q].status /\ UNCHANGED awaiting
    BY <1>1, <1>13 DEF Tick, LaterRecs, RecRecord
  <2>2. /\ recurringTimers'[q] = LaterTimer(recurringTimers[q])
        /\ leaked'[q] = {LaterTimer(t) : t \in leaked[q]}
    BY <1>13 DEF Tick
  <2>3. HasTimer(q) => HasTimer(q)'
    BY <1>1, <2>2, LaterTypes DEF HasTimer
  <2> QED BY <1>3, <1>4, <2>1, <2>3
<1>14. CASE UNCHANGED <<recurringTasks, recurringTimers, leaked, awaiting>>
  BY <1>3, <1>4, <1>14 DEF HasTimer
<1>15. CASE \E i \in TaskIds : \/ \E d \in Delays : ScheduleTask(i, d) \/ UpdateTask(i, d)
                               \/ CancelTask(i) \/ FireTask(i) \/ TaskRegisters(i)
  BY <1>14, <1>15 DEF ScheduleTask, UpdateTask, CancelTask, FireTask, TaskRegisters, memVars
<1>16. CASE UserTask \/ BotRemoved \/ UNCHANGED vars
  BY <1>14, <1>16 DEF UserTask, BotRemoved, vars, memVars
<1>17. CASE Crash \/ \E r \in Recs, i \in TaskIds : CrashWhileFiring(r, i)
  BY <1>17 DEF Crash, CrashWhileFiring, Forget, NoRec, Rec
<1>18. CASE \E r \in Recs : FireAny(r)
  BY <1>8, <1>9, <1>10, <1>18 DEF FireAny
<1> QED BY <1>6, <1>7, <1>11, <1>12, <1>13, <1>15, <1>16, <1>17, <1>18 DEF Next

\* An active recurring task always has a timer or a running occurrence that
\* will set its next one: no update, pause, busy chat, end of an occurrence,
\* crash or restart makes it silently stop (scheduleNextOccurrence,
\* fireRecurringInstance, loadFromDisk).
THEOREM ActiveTasksAreArmed == Spec => []ActiveIsArmed
<1>1. Init => ArmedInv
  BY TypeInit DEF ArmedInv, Init, AwaitedExecutes, DownIsIdle, ActiveIsArmed, NoRec, Rec
<1>2. ArmedInv /\ [Next]_vars => ArmedInv'
  BY TypeStep, AwaitedStep, ActiveStep DEF ArmedInv
<1>3. ArmedInv => ActiveIsArmed
  BY DEF ArmedInv
<1> QED BY <1>1, <1>2, <1>3, PTL DEF Spec

-----------------------------------------------------------------------------
(* The history of the tasks. ************************************************)

mcVars == <<vars, ran, overlapped>>

(* A task runs once. ********************************************************)

\* The file offers no task that ran: it is past pending there, or the child
\* the restart ends with its parent's lost occurrence.
DiskOffersNone == \A i \in ran : disk.tasks[i].status # "pending" \/ LostChild(i)

RunsInv ==
  /\ \A i \in TaskIds : tasks[i].status = "executing" => i \in ran
  /\ RunsOnce /\ DiskOffersNone

\* The steps after which a task is pending or executing that was not so before.
Starts(j) ==
  \/ \E d \in Delays : ScheduleTask(j, d)
  \/ \E r \in Recs : \E t \in GoingOff(r) : FireRecurringInstance(r, t, j)
  \/ FireTask(j) /\ tasks[j].status = "pending"
  \/ Restart

LEMMA WhatStarts ==
  ASSUME TypeOK, TypeOK', [Next]_vars, NEW j \in TaskIds,
         tasks'[j].status \in {"pending", "executing"}, tasks'[j].status # tasks[j].status
  PROVE  Starts(j)
<1>1. tasks \in [TaskIds -> TaskRecord] /\ tasks' \in [TaskIds -> TaskRecord]
  BY DEF TypeOK
<1>2. tasks' # tasks
  OBVIOUS
<1>3. ASSUME NEW i \in TaskIds, \A k \in TaskIds : k # i => tasks'[k] = tasks[k]
      PROVE  i = j
  BY <1>3
<1>4. ASSUME NEW i \in TaskIds, NEW d \in Delays, ScheduleTask(i, d) PROVE Starts(j)
  <2>1. \A k \in TaskIds : k # i => tasks'[k] = tasks[k]
    BY <1>1, <1>4 DEF ScheduleTask
  <2> QED BY <1>3, <1>4, <2>1 DEF Starts
<1>5. ASSUME NEW i \in TaskIds, NEW d \in Delays, UpdateTask(i, d) PROVE FALSE
  <2>1. \A k \in TaskIds : tasks'[k].status = tasks[k].status
    BY <1>1, <1>5 DEF UpdateTask, TaskRecord
  <2> QED BY <2>1
<1>6. ASSUME NEW i \in TaskIds, CancelTask(i) PROVE FALSE
  <2>1. \A k \in TaskIds : k # i => tasks'[k] = tasks[k]
    BY <1>1, <1>6 DEF CancelTask
  <2>2. tasks'[i].status = "cancelled"
    BY <1>1, <1>6, EndedType DEF CancelTask
  <2> QED BY <2>1, <2>2
<1>7. ASSUME NEW i \in TaskIds, FireTask(i) PROVE Starts(j)
  <2>1. tasks[i].status = "pending"
    BY <1>2, <1>7 DEF FireTask
  <2>2. \A k \in TaskIds : k # i => tasks'[k] = tasks[k]
    BY <1>1, <1>7, <2>1 DEF FireTask
  <2> QED BY <1>3, <1>7, <2>1, <2>2 DEF Starts
<1>8. ASSUME NEW i \in TaskIds, TaskEnds(i) PROVE FALSE
  <2>1. PICK s \in {"completed", "failed"} : tasks' = [tasks EXCEPT ![i].status = s]
    BY <1>8 DEF TaskEnds
  <2>2. tasks'[i].status = s /\ \A k \in TaskIds : k # i => tasks'[k] = tasks[k]
    BY <1>1, <2>1 DEF TaskRecord
  <2> QED BY <2>2
<1>9. ASSUME NEW r \in Recs, CancelRecurring(r) PROVE FALSE
  <2>1. \A k \in TaskIds : tasks'[k] \in {tasks[k], Ended(tasks[k], "cancelled")}
    BY <1>9 DEF CancelRecurring
  <2>2. Ended(tasks[j], "cancelled").status = "cancelled"
    BY <1>1, EndedType
  <2> QED BY <2>1, <2>2
<1>10. ASSUME NEW r \in Recs, NEW t \in GoingOff(r), NEW i \in TaskIds,
              FireRecurringInstance(r, t, i)
       PROVE  Starts(j)
  <2>1. \A k \in TaskIds : k # i => tasks'[k] = tasks[k]
    BY <1>1, <1>10 DEF FireRecurringInstance
  <2> QED BY <1>3, <1>10, <2>1 DEF Starts
<1>11. ASSUME Forget PROVE FALSE
  BY <1>11 DEF Forget, NoTask, Task
<1>12. ASSUME Tick PROVE FALSE
  BY <1>1, <1>12, LaterTypes DEF Tick, LaterTasks
<1>13. CASE \E r \in Recs : FireAny(r)
  BY <1>2, <1>10, <1>13 DEF FireAny, LookAgain, GoesOffUnheeded
<1>14. CASE \E r \in Recs : \/ ScheduleRecurring(r) \/ UpdateRecurring(r) \/ PauseRecurring(r)
                            \/ ResumeRecurring(r)
  BY <1>2, <1>14 DEF ScheduleRecurring, UpdateRecurring, PauseRecurring, ResumeRecurring
<1>15. CASE UserTask \/ BotRemoved \/ \E i \in TaskIds : TaskRegisters(i)
  BY <1>2, <1>15 DEF UserTask, BotRemoved, TaskRegisters, memVars
<1>16. CASE Crash \/ \E r \in Recs, i \in TaskIds : CrashWhileFiring(r, i)
  BY <1>11, <1>16 DEF Crash, CrashWhileFiring
<1>17. CASE UNCHANGED vars
  BY <1>2, <1>17 DEF vars, memVars
<1>18. CASE Restart
  BY <1>18 DEF Starts
<1> QED BY <1>4, <1>5, <1>6, <1>7, <1>8, <1>9, <1>12, <1>13, <1>14, <1>15, <1>16, <1>17,
           <1>18 DEF Next

\* Every handler leaves the file the image of the tasks; a step that writes no
\* file starts no task.
LEMMA DiskStep ==
  ASSUME TypeOK, TypeOK', [Next]_vars
  PROVE  \/ disk'.tasks = tasks'
         \/ UNCHANGED disk
         \/ Tick
         \/ \E r \in Recs, i \in TaskIds : CrashWhileFiring(r, i)
<1>1. CASE \E i \in TaskIds : \/ \E d \in Delays : ScheduleTask(i, d) \/ UpdateTask(i, d)
                              \/ CancelTask(i) \/ FireTask(i)
  BY <1>1 DEF ScheduleTask, UpdateTask, CancelTask, FireTask, SaveTasks
<1>2. CASE \E r \in Recs : \/ ScheduleRecurring(r) \/ UpdateRecurring(r) \/ PauseRecurring(r)
                           \/ ResumeRecurring(r) \/ CancelRecurring(r)
  BY <1>2 DEF ScheduleRecurring, UpdateRecurring, PauseRecurring, ResumeRecurring,
              CancelRecurring, SaveToDisk
<1>3. CASE \E r \in Recs : FireAny(r)
  BY <1>3 DEF FireAny, LookAgain, GoesOffUnheeded, FireRecurringInstance, SaveToDisk
<1>4. CASE UserTask \/ BotRemoved \/ Crash \/ Restart \/ UNCHANGED vars
           \/ \E i \in TaskIds : TaskRegisters(i)
  BY <1>4 DEF UserTask, BotRemoved, Crash, Restart, TaskRegisters, vars
<1>5. ASSUME NEW i \in TaskIds, TaskEnds(i) PROVE disk'.tasks = tasks'
  <2>1. SaveToDisk
    BY <1>5 DEF TaskEnds
  <2> QED BY <2>1 DEF SaveToDisk
<1> QED BY <1>1, <1>2, <1>3, <1>4, <1>5 DEF Next

\* What starts to run is in the file at once.
LEMMA StartsSaved ==
  ASSUME TypeOK, TypeOK', NEW j \in TaskIds, Starts(j)
  PROVE  \/ disk'.tasks = tasks'
         \/ Restart /\ tasks'[j].status # "executing"
<1>1. ASSUME Restart PROVE tasks'[j].status # "executing"
  <2>1. Restored(j) => Ended(disk.tasks[j], "failed").status # "executing"
    BY EndedType DEF TypeOK
  <2> QED BY <1>1, <2>1 DEF Restart, Restored, NoTask, Task
<1> QED BY <1>1 DEF Starts, ScheduleTask, FireRecurringInstance, FireTask, SaveTasks, SaveToDisk

LEMMA RunsStep ==
  ASSUME TypeOK, TypeOK', RunsInv, [MCNext]_mcVars
  PROVE  RunsInv'
<1>1. CASE UNCHANGED mcVars
  BY <1>1 DEF mcVars, vars, memVars, RunsInv, RunsOnce, DiskOffersNone, LostChild
<1>2. CASE MCNext
  <2>1. /\ [Next]_vars
        /\ \A j \in TaskIds : j \in ran' <=> \/ tasks'[j].status = "executing"
                                             \/ j \in ran /\ ~Created(j)
        /\ ran' \subseteq TaskIds
    BY <1>2 DEF MCNext
  <2>2. ASSUME NEW j \in ran' PROVE tasks'[j].status # "pending"
    <3> SUFFICES ASSUME tasks'[j].status = "pending" PROVE FALSE
      OBVIOUS
    <3>1. j \in ran /\ ~Created(j) /\ tasks[j].status # "pending"
      BY <2>1, <2>2 DEF RunsInv, RunsOnce
    <3>2. Starts(j)
      BY <2>1, <3>1, WhatStarts
    <3>3. Restart
      BY <3>1, <3>2 DEF Starts, Created, ScheduleTask, FireRecurringInstance
    <3>4. /\ Restored(j) /\ tasks'[j] = IF LostChild(j) THEN Ended(disk.tasks[j], "failed")
                                         ELSE disk.tasks[j]
      BY <2>1, <3>3 DEF Restart, NoTask, Task
    <3>5. Ended(disk.tasks[j], "failed").status = "failed"
      BY <2>1, EndedType DEF TypeOK
    <3> QED BY <2>1, <3>1, <3>4, <3>5 DEF RunsInv, DiskOffersNone, Restored
  <2>3. ASSUME NEW j \in ran', disk'.tasks # tasks' PROVE j \in ran
    <3>1. CASE tasks'[j].status # "executing"
      BY <2>1, <2>3, <3>1
    <3>2. CASE tasks'[j].status = "executing" /\ tasks[j].status = "executing"
      BY <2>1, <2>3, <3>2 DEF RunsInv
    <3>3. CASE tasks'[j].status = "executing" /\ tasks[j].status # "executing"
      BY <2>1, <2>3, <3>3, WhatStarts, StartsSaved
    <3> QED BY <3>1, <3>2, <3>3
  <2>4. ASSUME NEW j \in ran' PROVE disk'.tasks[j].status # "pending" \/ LostChild(j)'
    <3>1. CASE disk'.tasks = tasks'
      BY <2>2, <2>4, <3>1
    <3>2. CASE disk'.tasks # tasks' /\ UNCHANGED disk
      BY <2>3, <2>4, <3>2 DEF RunsInv, DiskOffersNone, LostChild
    <3>3. CASE disk'.tasks # tasks' /\ Tick
      <4>1. disk'.tasks[j].status = disk.tasks[j].status
        BY <2>1, <2>4, <3>3, LaterTypes DEF Tick, LaterTasks, TypeOK
      <4>2. \A r \in Recs : /\ disk'.recurring[r].status = disk.recurring[r].status
                            /\ disk'.recurring[r].child = disk.recurring[r].child
        <5>1. disk.recurring \in [Recs -> RecRecord]
          BY DEF TypeOK
        <5>2. \A r \in Recs : disk'.recurring[r] =
                                [disk.recurring[r] EXCEPT !.wait = Less(@)]
          BY <3>3 DEF Tick, LaterRecs
        <5> QED BY <5>1, <5>2 DEF RecRecord
      <4> QED BY <2>3, <2>4, <3>3, <4>1, <4>2 DEF RunsInv, DiskOffersNone, LostChild
    <3>4. CASE disk'.tasks # tasks' /\ \E r \in Recs, i \in TaskIds : CrashWhileFiring(r, i)
      <4>1. PICK r \in Recs, i \in TaskIds : CrashWhileFiring(r, i)
        BY <3>4
      <4>2. /\ disk' = [tasks     |-> [tasks EXCEPT ![i] = NewChild(r)],
                        recurring |-> [recurringTasks EXCEPT ![r].child = i]]
            /\ recurringTasks[r].status = "active"
        BY <4>1 DEF CrashWhileFiring
      <4>3. j # i => disk'.tasks[j].status # "pending"
        BY <2>1, <2>3, <2>4, <3>4, <4>2 DEF RunsInv, RunsOnce, TypeOK
      <4>4. LostChild(i)'
        BY <4>2 DEF LostChild, TypeOK, RecRecord
      <4> QED BY <4>3, <4>4
    <3> QED BY <2>1, <3>1, <3>2, <3>3, <3>4, DiskStep
  <2> QED BY <2>1, <2>2, <2>4 DEF RunsInv, RunsOnce, DiskOffersNone
<1> QED BY <1>1, <1>2

\* The history adds nothing to the steps of the scheduler.
LEMMA HistoryTypes == MCSpec => []TypeOK
<1>1. MCInit => TypeOK
  BY TypeInit DEF MCInit
<1>2. TypeOK /\ [MCNext]_mcVars => TypeOK'
  BY TypeStep DEF MCNext, mcVars
<1> QED BY <1>1, <1>2, PTL DEF MCSpec, mcVars

\* A task runs at most once, through updates, retries, crashes in the middle
\* of a run or of an occurrence, and restarts (fireTask, loadFromDisk).
THEOREM TasksRunOnce == MCSpec => []RunsOnce
<1>1. MCInit /\ TypeOK => RunsInv
  BY DEF MCInit, Init, RunsInv, RunsOnce, DiskOffersNone, NoTask, Task
<1>2. TypeOK /\ TypeOK' /\ RunsInv /\ [MCNext]_mcVars => RunsInv'
  BY RunsStep
<1>3. RunsInv => RunsOnce
  BY DEF RunsInv
<1> QED BY <1>1, <1>2, <1>3, HistoryTypes, PTL DEF MCSpec, mcVars

(* One occurrence at a time. ************************************************)

\* Between two occurrences a recurring task has its one timer and waits for
\* no child; during one it has no timer.
Alone(r) ==
  /\ leaked[r] = {}
  /\ recurringTimers[r] # NoTimer => /\ recurringTasks[r].status = "active"
                                     /\ \A i \in awaiting : tasks[i].parent # r
  /\ \A i, j \in awaiting : tasks[i].parent = r /\ tasks[j].parent = r => i = j

OccurrenceInv == overlapped \/ \A r \in Recs : Alone(r)

LEMMA AloneTimer ==
  ASSUME NEW r \in Recs, leaked[r] = {}
  PROVE  /\ StillRunning(r) = {recurringTimers[r]} \ {NoTimer}
         /\ \A t \in GoingOff(r) : /\ t = recurringTimers[r] /\ t # NoTimer /\ RunOn(r, t) = {}
                                   /\ t.left = 0
BY DEF StillRunning, GoingOff, RunOn

\* A child that is still awaited has still the same parent.
LEMMA AwaitedParent ==
  ASSUME TypeOK, TypeOK', AwaitedExecutes, DownIsIdle, [Next]_vars
  PROVE  \A j \in awaiting \cap awaiting' : tasks'[j].parent = tasks[j].parent
BY AwaitedStep DEF TaskEnds, Forget

\* Where no timer is set beside an awaited child, no step breaks the order.
LEMMA AloneStep ==
  ASSUME TypeOK, TypeOK', AwaitedExecutes, DownIsIdle, Next, \A r \in Recs : Alone(r),
         \A i \in awaiting \cap awaiting', r \in Recs :
           tasks[i].parent = r => recurringTimers'[r] = NoTimer,
         NEW q \in Recs
  PROVE  Alone(q)'
<1> DEFINE Active(r) == recurringTasks[r].status = "active"
           Same == /\ leaked'[q] = leaked[q] /\ recurringTimers'[q] = recurringTimers[q]
                   /\ recurringTasks'[q] = recurringTasks[q]
<1> USE DEF Alone
<1>1. /\ recurringTasks \in [Recs -> RecRecord] /\ recurringTimers \in [Recs -> TimerRecord]
      /\ leaked \in [Recs -> SUBSET TimerRecord] /\ awaiting \subseteq TaskIds
      /\ recurringTasks' \in [Recs -> RecRecord]
      /\ tasks \in [TaskIds -> TaskRecord] /\ tasks' \in [TaskIds -> TaskRecord]
  BY DEF TypeOK
<1>2. \A j \in awaiting \cap awaiting' : tasks'[j].parent = tasks[j].parent
  BY AwaitedParent
<1>3. ASSUME awaiting' \subseteq awaiting, leaked'[q] = {},
             recurringTimers'[q] # NoTimer => recurringTasks'[q].status = "active"
      PROVE  Alone(q)'
  BY <1>2, <1>3
<1>4. ASSUME awaiting' \subseteq awaiting, Same PROVE Alone(q)'
  BY <1>3, <1>4
<1>5. CASE UNCHANGED <<recurringTasks, recurringTimers, leaked, awaiting>>
  BY <1>4, <1>5
<1>6. ASSUME NEW r \in Recs,
             \/ ScheduleRecurring(r) \/ UpdateRecurring(r) \/ ResumeRecurring(r)
      PROVE  Alone(q)'
  <2>1. UNCHANGED awaiting
    BY <1>6 DEF ScheduleRecurring, UpdateRecurring, ResumeRecurring
  <2>2. CASE q # r
    BY <1>1, <1>4, <1>6, <2>1, <2>2
       DEF ScheduleRecurring, UpdateRecurring, ResumeRecurring, ArmRecurring
  <2>3. CASE q = r
    <3>1. leaked'[q] \in {leaked[q], StillRunning(q)}
      BY <1>1, <1>6, <2>3 DEF ScheduleRecurring, UpdateRecurring, ResumeRecurring, ArmRecurring
    <3>2. ResumeRecurring(r) => StillRunning(q) = {}
      BY <2>3, AloneTimer DEF ResumeRecurring
    <3>3. leaked'[q] = {}
      <4>1. CASE ResumeRecurring(r)
        BY <3>1, <3>2, <4>1
      <4>2. CASE ScheduleRecurring(r) \/ UpdateRecurring(r)
        BY <1>1, <2>3, <4>2 DEF ScheduleRecurring, UpdateRecurring, ArmRecurring
      <4> QED BY <1>6, <4>1, <4>2
    <3>4. recurringTasks'[q].status = "active"
      BY <1>1, <1>6, <2>3
         DEF ScheduleRecurring, UpdateRecurring, ResumeRecurring, Waiting, Rec, RecRecord
    <3> QED BY <1>3, <2>1, <3>3, <3>4
  <2> QED BY <2>2, <2>3
<1>7. ASSUME NEW r \in Recs, PauseRecurring(r) \/ CancelRecurring(r) PROVE Alone(q)'
  <2>1. UNCHANGED <<awaiting, leaked>>
    BY <1>7 DEF PauseRecurring, CancelRecurring
  <2>2. CASE q # r
    BY <1>1, <1>4, <1>7, <2>1, <2>2 DEF PauseRecurring, CancelRecurring
  <2>3. CASE q = r
    <3>1. recurringTimers'[q] = NoTimer
      BY <1>1, <1>7, <2>3 DEF PauseRecurring, CancelRecurring
    <3> QED BY <1>3, <2>1, <3>1
  <2> QED BY <2>2, <2>3
<1>8. ASSUME NEW r \in Recs, NEW t \in GoingOff(r), LookAgain(r, t) PROVE Alone(q)'
  <2>1. UNCHANGED <<awaiting, recurringTasks>> /\ ArmRecurring(r, recurringTasks[r].wait, RunOn(r, t))
    BY <1>8 DEF LookAgain
  <2>2. CASE q # r
    BY <1>1, <1>4, <2>1, <2>2 DEF ArmRecurring
  <2>3. CASE q = r
    <3>1. Active(q) /\ RunOn(r, t) = {}
      BY <2>3, AloneTimer
    <3> QED BY <1>1, <1>3, <2>1, <2>3, <3>1 DEF ArmRecurring
  <2> QED BY <2>2, <2>3
<1>9. ASSUME NEW r \in Recs, NEW t \in GoingOff(r), GoesOffUnheeded(r, t) PROVE Alone(q)'
  <2>1. Active(r)
    BY AloneTimer
  <2> QED BY <1>9, <2>1 DEF GoesOffUnheeded
<1>10. ASSUME NEW r \in Recs, NEW t \in GoingOff(r), NEW i \in TaskIds,
              FireRecurringInstance(r, t, i)
       PROVE  Alone(q)'
  <2>1. RunOn(r, t) = {} /\ \A j \in awaiting : tasks[j].parent # r
    BY AloneTimer
  <2>2. CASE tasks'[i].status # "executing"
    <3>1. /\ ArmRecurring(r, Occurrence, {}) /\ UNCHANGED awaiting
          /\ recurringTasks' = [recurringTasks EXCEPT ![r] = Waiting]
      BY <1>10, <2>1, <2>2 DEF FireRecurringInstance
    <3>2. CASE q # r
      BY <1>1, <1>4, <3>1, <3>2 DEF ArmRecurring
    <3>3. CASE q = r
      BY <1>1, <1>3, <3>1, <3>3 DEF ArmRecurring, Waiting, Rec
    <3> QED BY <3>2, <3>3
  <2>3. CASE tasks'[i].status = "executing"
    <3>1. /\ recurringTasks' = [recurringTasks EXCEPT ![r].child = i]
          /\ recurringTimers' = [recurringTimers EXCEPT ![r] = NoTimer]
          /\ leaked' = [leaked EXCEPT ![r] = {}]
          /\ awaiting' = awaiting \cup {i}
          /\ tasks' = [tasks EXCEPT ![i] = Fired(NewChild(r))]
      BY <1>10, <2>1, <2>3 DEF FireRecurringInstance
    <3>2. Fired(NewChild(r)).parent = r
      BY NewChildType DEF Fired, Ended, NewChild, Task, TaskRecord
    <3>3. tasks'[i].parent = r /\ \A j \in awaiting : tasks'[j].parent = tasks[j].parent
      BY <1>1, <1>2, <3>1, <3>2
    <3>4. CASE q # r
      <4>1. Same
        BY <1>1, <3>1, <3>4
      <4> QED BY <3>1, <3>3, <3>4, <4>1
    <3>5. CASE q = r
      <4>1. leaked'[q] = {} /\ recurringTimers'[q] = NoTimer
        BY <1>1, <3>1, <3>5
      <4> QED BY <2>1, <3>1, <3>3, <3>5, <4>1
    <3> QED BY <3>4, <3>5
  <2> QED BY <2>2, <2>3
<1>11. ASSUME NEW i \in TaskIds, TaskEnds(i) PROVE Alone(q)'
  <2> DEFINE r == tasks[i].parent
  <2>1. awaiting' = awaiting \ {i}
    BY <1>11 DEF TaskEnds
  <2>2. CASE i \notin awaiting
    BY <1>4, <1>11, <2>1, <2>2 DEF TaskEnds
  <2>3. CASE i \in awaiting /\ recurringTasks[r].status = "active"
    <3>1. /\ recurringTasks' = [recurringTasks EXCEPT ![r] = Waiting]
          /\ ArmRecurring(r, Occurrence, StillRunning(r))
      BY <1>11, <2>3 DEF TaskEnds
    <3>2. CASE q # r
      BY <1>1, <1>4, <2>1, <3>1, <3>2 DEF ArmRecurring
    <3>3. CASE q = r
      <4>1. StillRunning(r) = {}
        BY <2>3, <3>3, AloneTimer
      <4> QED BY <1>1, <1>3, <2>1, <3>1, <3>3, <4>1 DEF ArmRecurring, Waiting, Rec
    <3> QED BY <3>2, <3>3
  <2>4. CASE i \in awaiting /\ recurringTasks[r].status # "active"
    <3>1. /\ recurringTasks' = [recurringTasks EXCEPT ![r].child = None]
          /\ UNCHANGED <<recurringTimers, leaked>>
      BY <1>11, <2>4 DEF TaskEnds
    <3>2. recurringTasks'[q].status = recurringTasks[q].status
      BY <1>1, <3>1 DEF RecRecord
    <3> QED BY <1>3, <2>1, <3>1, <3>2
  <2> QED BY <2>2, <2>3, <2>4
<1>12. CASE Restart
  <2>1. UNCHANGED <<awaiting, leaked>>
    BY <1>12 DEF Restart
  <2>2. recurringTimers'[q] # NoTimer => recurringTasks'[q].status = "active"
    BY <1>12 DEF Restart, Waiting, Rec
  <2> QED BY <1>3, <2>1, <2>2
<1>13. CASE Forget
  BY <1>13 DEF Forget
<1>14. CASE Tick
  <2>1. UNCHANGED awaiting /\ leaked'[q] = {}
    BY <1>14 DEF Tick
  <2>2. LaterTimer(NoTimer) = NoTimer
    BY DEF LaterTimer, NoTimer, RecTimer, Off, Less
  <2>3. recurringTasks'[q].status = recurringTasks[q].status
    BY <1>1, <1>14 DEF Tick, LaterRecs, RecRecord
  <2> QED BY <1>3, <1>14, <2>1, <2>2, <2>3 DEF Tick
<1>15. CASE \E i \in TaskIds : \/ \E d \in Delays : ScheduleTask(i, d) \/ UpdateTask(i, d)
                               \/ CancelTask(i) \/ FireTask(i) \/ TaskRegisters(i)
  BY <1>5, <1>15 DEF ScheduleTask, UpdateTask, CancelTask, FireTask, TaskRegisters, memVars
<1>16. CASE UserTask \/ BotRemoved
  BY <1>5, <1>16 DEF UserTask, BotRemoved, memVars
<1>17. CASE Crash \/ \E r \in Recs, i \in TaskIds : CrashWhileFiring(r, i)
  BY <1>13, <1>17 DEF Crash, CrashWhileFiring
<1>18. CASE \E r \in Recs : FireAny(r)
  BY <1>8, <1>9, <1>10, <1>18 DEF FireAny
<1> QED BY <1>6, <1>7, <1>11, <1>12, <1>14, <1>15, <1>16, <1>17, <1>18 DEF Next

LEMMA OccurrenceStep ==
  ASSUME TypeOK, TypeOK', AwaitedExecutes, DownIsIdle, OccurrenceInv, [MCNext]_mcVars
  PROVE  OccurrenceInv'
<1>1. CASE UNCHANGED mcVars
  BY <1>1 DEF mcVars, vars, memVars, OccurrenceInv, Alone
<1>2. CASE MCNext
  <2> SUFFICES ASSUME ~overlapped' PROVE \A r \in Recs : Alone(r)'
    BY DEF OccurrenceInv
  <2>1. ~overlapped /\ \A i \in awaiting \cap awaiting', r \in Recs :
                         tasks[i].parent = r => recurringTimers'[r] = NoTimer
    BY <1>2 DEF MCNext
  <2>2. Next /\ \A r \in Recs : Alone(r)
    BY <1>2, <2>1 DEF MCNext, OccurrenceInv
  <2> QED BY <2>1, <2>2, AloneStep
<1> QED BY <1>1, <1>2

LEMMA AloneIsOne ==
  ASSUME NEW r \in Recs, Alone(r)
  PROVE  Cardinality(StillRunning(r)) + Cardinality({i \in awaiting : tasks[i].parent = r}) <= 1
<1> DEFINE fires == {i \in awaiting : tasks[i].parent = r}
<1>1. StillRunning(r) = {recurringTimers[r]} \ {NoTimer}
  BY AloneTimer DEF Alone
<1>2. CASE recurringTimers[r] # NoTimer
  <2>1. StillRunning(r) = {recurringTimers[r]} /\ fires = {}
    BY <1>1, <1>2 DEF Alone
  <2>2. Cardinality(StillRunning(r)) = 1 /\ Cardinality(fires) = 0
    BY <2>1, FS_Singleton, FS_EmptySet
  <2> QED BY <2>2
<1>3. CASE recurringTimers[r] = NoTimer
  <2>1. Cardinality(StillRunning(r)) = 0
    <3>1. StillRunning(r) = {}
      BY <1>1, <1>3
    <3> QED BY <3>1, FS_EmptySet
  <2>2. Cardinality(fires) \in {0, 1}
    <3>1. CASE fires = {}
      BY <3>1, FS_EmptySet
    <3>2. ASSUME NEW i \in fires PROVE fires = {i}
      BY <3>2 DEF Alone
    <3> QED BY <3>1, <3>2, FS_Singleton
  <2> QED BY <2>1, <2>2
<1> QED BY <1>2, <1>3

\* The history adds nothing to what is known of the awaited children.
LEMMA HistoryAwaited == MCSpec => [](AwaitedExecutes /\ DownIsIdle)
<1> DEFINE I == AwaitedExecutes /\ DownIsIdle
<1>1. MCInit => I
  BY DEF MCInit, Init, AwaitedExecutes, DownIsIdle
<1>2. TypeOK /\ TypeOK' /\ I /\ [MCNext]_mcVars => I'
  BY AwaitedStep DEF MCNext, mcVars
<1> QED BY <1>1, <1>2, HistoryTypes, PTL DEF MCSpec, mcVars

LEMMA HistoryOccurrences == MCSpec => []OccurrenceInv
<1> DEFINE I == AwaitedExecutes /\ DownIsIdle
<1>1. MCInit => OccurrenceInv
  BY DEF MCInit, Init, OccurrenceInv, Alone
<1>2. TypeOK /\ TypeOK' /\ I /\ OccurrenceInv /\ [MCNext]_mcVars => OccurrenceInv'
  BY OccurrenceStep
<1> QED BY <1>1, <1>2, HistoryTypes, HistoryAwaited, PTL DEF MCSpec, mcVars

\* A recurring task that was given no timer while one of its occurrences was
\* under way has one timer or one occurrence, never both and never two
\* (setRecurringTimer, fireRecurringInstance).
THEOREM OneOccurrenceAtATime == MCSpec => []OneOccurrence
<1>1. OccurrenceInv => OneOccurrence
  BY AloneIsOne DEF OccurrenceInv, OneOccurrence
<1> QED BY <1>1, HistoryOccurrences, PTL

(* Nothing is early. ********************************************************)

\* The wait a client asks for is within the limit of setTimeout: setTimer does
\* not cut a longer one, and Node then fires at once.
DelaysFit == \A d \in Delays : d <= MaxTimeout

\* The timer of a task has no less to run than the task has to wait.
TimerIsLate ==
  \A i \in TaskIds :
    /\ tasks[i].status = "pending" => timers[i] >= tasks[i].due /\ tasks[i].due <= MaxTimeout
    /\ disk.tasks[i].status = "pending" => disk.tasks[i].due <= MaxTimeout

\* So has the timer of a recurring task, when it is one that fires.
RecurringTimerIsLate ==
  \A r \in Recs : recurringTimers[r].fires => recurringTimers[r].left >= recurringTasks[r].wait

LEMMA LaterDue ==
  ASSUME NEW t \in TaskRecord, NEW n \in Nat \cup {Off}, t.status = "pending", n >= t.due, n # Off
  PROVE  Less(n) >= LaterTask(t).due /\ LaterTask(t).due <= t.due
<1>1. t.due \in Int /\ StaleAfter \in Nat /\ n \in Nat
  BY SchedulerAssumption DEF TaskRecord
<1>2. LaterTask(t).due = IF t.due >= -StaleAfter THEN t.due - 1 ELSE t.due
  BY DEF LaterTask, TaskRecord
<1> QED BY <1>1, <1>2 DEF Less

LEMMA LaterDueOnDisk ==
  ASSUME NEW t \in TaskRecord PROVE LaterTask(t).due \in Int /\ LaterTask(t).due <= t.due
BY SchedulerAssumption DEF LaterTask, TaskRecord

LEMMA TimerStep ==
  ASSUME DelaysFit, TypeOK, TypeOK', PendingIsArmed, TimerIsLate, [Next]_vars,
         NEW j \in TaskIds, tasks'[j].status = "pending"
  PROVE  timers'[j] >= tasks'[j].due /\ tasks'[j].due <= MaxTimeout
<1> DEFINE Late == timers'[j] >= tasks'[j].due /\ tasks'[j].due <= MaxTimeout
<1>1. /\ tasks \in [TaskIds -> TaskRecord] /\ timers \in [TaskIds -> Nat \cup {Off}]
      /\ tasks' \in [TaskIds -> TaskRecord] /\ timers' \in [TaskIds -> Nat \cup {Off}]
      /\ MaxTimeout \in Nat /\ RetryDelay \in Nat /\ Delays \subseteq Nat
  BY SchedulerAssumption DEF TypeOK
<1>2. tasks[j].status = "pending" => /\ timers[j] >= tasks[j].due /\ tasks[j].due <= MaxTimeout
                                     /\ timers[j] # Off
  BY DEF TimerIsLate, PendingIsArmed
<1>3. CASE tasks'[j] = tasks[j] /\ timers'[j] = timers[j]
  BY <1>2, <1>3
<1>4. ASSUME NEW i \in TaskIds, NEW d \in Delays, ScheduleTask(i, d) \/ UpdateTask(i, d)
      PROVE  Late
  <2>1. SetTimeout(d) = d /\ d <= MaxTimeout /\ d \in Nat
    BY <1>1 DEF SetTimeout, DelaysFit
  <2>2. timers' = [timers EXCEPT ![i] = d]
    BY <1>4, <2>1 DEF ScheduleTask, UpdateTask
  <2>3. \A k \in TaskIds : k # i => tasks'[k] = tasks[k]
    BY <1>1, <1>4 DEF ScheduleTask, UpdateTask
  <2>4. tasks'[i].due = d
    <3>1. CASE ScheduleTask(i, d)
      BY <1>1, <3>1 DEF ScheduleTask, Task
    <3>2. CASE UpdateTask(i, d)
      BY <1>1, <3>2 DEF UpdateTask, TaskRecord
    <3> QED BY <1>4, <3>1, <3>2
  <2>5. CASE j = i
    BY <1>1, <2>1, <2>2, <2>4, <2>5
  <2>6. CASE j # i
    BY <1>1, <1>3, <2>2, <2>3, <2>6
  <2> QED BY <2>5, <2>6
<1>5. ASSUME NEW i \in TaskIds, CancelTask(i) PROVE Late
  <2>1. j # i
    BY <1>1, <1>5, EndedType DEF CancelTask
  <2> QED BY <1>1, <1>3, <1>5, <2>1 DEF CancelTask
<1>6. ASSUME NEW i \in TaskIds, FireTask(i) PROVE Late
  <2>1. CASE j # i \/ tasks[i].status # "pending"
    BY <1>1, <1>3, <1>6, <2>1 DEF FireTask
  <2>2. CASE j = i /\ tasks[i].status = "pending"
    <3>1. /\ tasks'[j] = Fired(tasks[j]) /\ timers'[j] = RetryTimer(tasks'[j]) /\ timers[j] = 0
      BY <1>1, <1>6, <2>2 DEF FireTask
    <3>2. Fired(tasks[j]).due = tasks[j].due
      BY <1>1, <3>1, EndedType DEF Fired, TaskRecord
    <3> QED BY <1>1, <1>2, <2>2, <3>1, <3>2 DEF RetryTimer, TaskRecord
  <2> QED BY <2>1, <2>2
<1>7. ASSUME NEW i \in TaskIds, TaskEnds(i) PROVE Late
  <2>1. PICK s \in {"completed", "failed"} : tasks' = [tasks EXCEPT ![i].status = s]
    BY <1>7 DEF TaskEnds
  <2>2. j # i
    BY <1>1, <2>1 DEF TaskRecord
  <2> QED BY <1>1, <1>3, <1>7, <2>1, <2>2 DEF TaskEnds
<1>8. ASSUME NEW r \in Recs, CancelRecurring(r) PROVE Late
  <2> DEFINE goes(i) == i = recurringTasks[r].child /\ tasks[i].status = "pending"
  <2>1. /\ tasks' = [i \in TaskIds |-> IF goes(i) THEN Ended(tasks[i], "cancelled") ELSE tasks[i]]
        /\ timers' = [i \in TaskIds |-> IF goes(i) THEN Off ELSE timers[i]]
    BY <1>8 DEF CancelRecurring
  <2>2. ~goes(j)
    BY <1>1, <2>1, EndedType
  <2> QED BY <1>3, <2>1, <2>2
<1>9. ASSUME NEW r \in Recs, NEW t \in GoingOff(r), NEW i \in TaskIds,
             FireRecurringInstance(r, t, i)
      PROVE  Late
  <2>1. CASE j # i
    BY <1>1, <1>3, <1>9, <2>1 DEF FireRecurringInstance
  <2>2. CASE j = i
    <3>1. tasks'[j] = Fired(NewChild(r)) /\ timers'[j] = RetryTimer(tasks'[j])
      BY <1>1, <1>9, <2>2 DEF FireRecurringInstance
    <3>2. Fired(NewChild(r)).due = 0
      BY <3>1, NewChildType, EndedType DEF Fired, NewChild, Task
    <3> QED BY <1>1, <3>1, <3>2 DEF RetryTimer
  <2> QED BY <2>1, <2>2
<1>10. CASE Forget
  BY <1>10 DEF Forget, NoTask, Task
<1>11. CASE Restart
  <2>1. Restored(j) /\ tasks'[j] = disk.tasks[j]
    BY <1>11, EndedType DEF Restart, NoTask, Task, TypeOK
  <2>2. disk.tasks[j].due \in Int /\ disk.tasks[j].due <= MaxTimeout
    BY <2>1 DEF TimerIsLate, Restored, TypeOK, TaskRecord
  <2>3. timers'[j] = IF disk.tasks[j].due < 0 THEN 0 ELSE SetTimeout(disk.tasks[j].due)
    BY <1>11, <2>1 DEF Restart
  <2> QED BY <1>1, <2>1, <2>2, <2>3 DEF SetTimeout
<1>12. CASE Tick
  <2>1. tasks'[j] = LaterTask(tasks[j]) /\ timers'[j] = Less(timers[j])
    BY <1>12 DEF Tick, LaterTasks
  <2>2. tasks[j].status = "pending"
    BY <1>1, <2>1, LaterTypes
  <2> QED BY <1>1, <1>2, <2>1, <2>2, LaterDue DEF TaskRecord
<1>13. CASE UNCHANGED <<tasks, timers>>
  BY <1>3, <1>13
<1>14. CASE \E r \in Recs : \/ ScheduleRecurring(r) \/ UpdateRecurring(r) \/ PauseRecurring(r)
                            \/ ResumeRecurring(r)
  BY <1>13, <1>14 DEF ScheduleRecurring, UpdateRecurring, PauseRecurring, ResumeRecurring
<1>15. CASE UserTask \/ BotRemoved \/ UNCHANGED vars \/ \E i \in TaskIds : TaskRegisters(i)
  BY <1>13, <1>15 DEF UserTask, BotRemoved, TaskRegisters, vars, memVars
<1>16. CASE \E r \in Recs : FireAny(r)
  BY <1>9, <1>13, <1>16 DEF FireAny, LookAgain, GoesOffUnheeded
<1>17. CASE Crash \/ \E r \in Recs, i \in TaskIds : CrashWhileFiring(r, i)
  BY <1>10, <1>17 DEF Crash, CrashWhileFiring
<1> QED BY <1>4, <1>5, <1>6, <1>7, <1>8, <1>11, <1>12, <1>14, <1>15, <1>16, <1>17 DEF Next

LEMMA DiskDueStep ==
  ASSUME DelaysFit, TypeOK, TypeOK', PendingIsArmed, TimerIsLate, [Next]_vars,
         NEW j \in TaskIds, disk'.tasks[j].status = "pending"
  PROVE  disk'.tasks[j].due <= MaxTimeout
<1>1. disk.tasks \in [TaskIds -> TaskRecord] /\ tasks \in [TaskIds -> TaskRecord] /\ MaxTimeout \in Nat
  BY SchedulerAssumption DEF TypeOK
<1>2. CASE disk'.tasks = tasks'
  BY <1>2, TimerStep
<1>3. CASE UNCHANGED disk
  BY <1>3 DEF TimerIsLate
<1>4. CASE Tick
  <2>1. disk'.tasks[j] = LaterTask(disk.tasks[j])
    BY <1>4 DEF Tick, LaterTasks
  <2>2. disk.tasks[j].due <= MaxTimeout
    BY <1>1, <2>1, LaterTypes DEF TimerIsLate
  <2> QED BY <1>1, <2>1, <2>2, LaterDueOnDisk DEF TaskRecord
<1>5. ASSUME NEW r \in Recs, NEW i \in TaskIds, CrashWhileFiring(r, i)
      PROVE  disk'.tasks[j].due <= MaxTimeout
  <2>1. disk'.tasks = [tasks EXCEPT ![i] = NewChild(r)]
    BY <1>5 DEF CrashWhileFiring
  <2>2. NewChild(r).due = 0
    BY DEF NewChild, Task
  <2> QED BY <1>1, <2>1, <2>2 DEF TimerIsLate
<1> QED BY <1>2, <1>3, <1>4, <1>5, DiskStep

LEMMA RecurringTimerLate ==
  ASSUME NEW w \in Nat PROVE RecurringTimer(w).fires => RecurringTimer(w).left >= w
BY SchedulerAssumption DEF RecurringTimer, SetTimeout, RecTimer

LEMMA RecurringTimerStep ==
  ASSUME TypeOK, TypeOK', RecurringTimerIsLate, [Next]_vars, NEW q \in Recs
  PROVE  recurringTimers'[q].fires => recurringTimers'[q].left >= recurringTasks'[q].wait
<1> DEFINE Late == recurringTimers'[q].fires => recurringTimers'[q].left >= recurringTasks'[q].wait
<1>1. /\ recurringTasks \in [Recs -> RecRecord] /\ recurringTimers \in [Recs -> TimerRecord]
      /\ recurringTasks' \in [Recs -> RecRecord] /\ recurringTimers' \in [Recs -> TimerRecord]
      /\ Occurrence \in Nat /\ \A r \in Recs : recurringTasks[r].wait \in Nat
  BY OccurrenceType, SchedulerAssumption DEF TypeOK, RecRecord
<1>2. recurringTimers[q].fires => recurringTimers[q].left >= recurringTasks[q].wait
  BY DEF RecurringTimerIsLate
<1>3. CASE recurringTimers'[q] = recurringTimers[q] /\ recurringTasks'[q].wait = recurringTasks[q].wait
  BY <1>2, <1>3
<1>4. CASE recurringTimers'[q] = NoTimer
  BY <1>4 DEF NoTimer, RecTimer
<1>5. ASSUME NEW r \in Recs, NEW w \in Nat, NEW kept, ArmRecurring(r, w, kept),
             recurringTasks'[r].wait = w, \A k \in Recs : k # r => recurringTasks'[k] = recurringTasks[k]
      PROVE  Late
  <2>1. recurringTimers' = [recurringTimers EXCEPT ![r] = RecurringTimer(w)]
    BY <1>5 DEF ArmRecurring
  <2>2. CASE q = r
    BY <1>1, <1>5, <2>1, <2>2, RecurringTimerLate
  <2>3. CASE q # r
    BY <1>1, <1>3, <1>5, <2>1, <2>3
  <2> QED BY <2>2, <2>3
<1>6. CASE UNCHANGED <<recurringTasks, recurringTimers>>
  BY <1>3, <1>6
<1>7. ASSUME NEW r \in Recs,
             \/ ScheduleRecurring(r) \/ UpdateRecurring(r) \/ ResumeRecurring(r)
      PROVE  Late
  <2>1. \E kept : ArmRecurring(r, Occurrence, kept)
    BY <1>7 DEF ScheduleRecurring, UpdateRecurring, ResumeRecurring
  <2>2. \A k \in Recs : k # r => recurringTasks'[k] = recurringTasks[k]
    BY <1>1, <1>7 DEF ScheduleRecurring, UpdateRecurring, ResumeRecurring
  <2>3. recurringTasks'[r].wait = Occurrence
    <3>1. CASE ScheduleRecurring(r)
      BY <1>1, <3>1 DEF ScheduleRecurring, Waiting, Rec
    <3>2. CASE UpdateRecurring(r)
      BY <1>1, <3>2 DEF UpdateRecurring, RecRecord
    <3>3. CASE ResumeRecurring(r)
      BY <1>1, <3>3 DEF ResumeRecurring, Rec
    <3> QED BY <1>7, <3>1, <3>2, <3>3
  <2> QED BY <1>1, <1>5, <2>1, <2>2, <2>3
<1>8. ASSUME NEW r \in Recs, PauseRecurring(r) \/ CancelRecurring(r) PROVE Late
  <2>1. recurringTimers' = [recurringTimers EXCEPT ![r] = NoTimer]
    BY <1>8 DEF PauseRecurring, CancelRecurring
  <2>2. \A k \in Recs : k # r => recurringTasks'[k] = recurringTasks[k]
    BY <1>1, <1>8 DEF PauseRecurring, CancelRecurring
  <2> QED BY <1>1, <1>3, <1>4, <2>1, <2>2
<1>9. ASSUME NEW r \in Recs, NEW t \in GoingOff(r), LookAgain(r, t) PROVE Late
  BY <1>1, <1>5, <1>9 DEF LookAgain
<1>10. ASSUME NEW r \in Recs, NEW t \in GoingOff(r), GoesOffUnheeded(r, t) PROVE Late
  BY <1>1, <1>3, <1>4, <1>10 DEF GoesOffUnheeded
<1>11. ASSUME NEW r \in Recs, NEW t \in GoingOff(r), NEW i \in TaskIds,
              FireRecurringInstance(r, t, i)
       PROVE  Late
  <2>1. CASE tasks'[i].status # "executing"
    <3>1. /\ recurringTasks' = [recurringTasks EXCEPT ![r] = Waiting]
          /\ ArmRecurring(r, Occurrence, RunOn(r, t))
      BY <1>11, <2>1 DEF FireRecurringInstance
    <3> QED BY <1>1, <1>5, <3>1 DEF Waiting, Rec
  <2>2. CASE tasks'[i].status = "executing"
    <3>1. /\ recurringTasks' = [recurringTasks EXCEPT ![r].child = i]
          /\ recurringTimers' = [recurringTimers EXCEPT ![r] = NoTimer]
      BY <1>11, <2>2 DEF FireRecurringInstance
    <3> QED BY <1>1, <1>3, <1>4, <3>1
  <2> QED BY <2>1, <2>2
<1>12. ASSUME NEW i \in TaskIds, TaskEnds(i) PROVE Late
  <2> DEFINE r == tasks[i].parent
  <2>1. CASE i \notin awaiting
    BY <1>6, <1>12, <2>1 DEF TaskEnds
  <2>2. CASE i \in awaiting /\ recurringTasks[r].status = "active"
    <3>1. /\ recurringTasks' = [recurringTasks EXCEPT ![r] = Waiting]
          /\ ArmRecurring(r, Occurrence, StillRunning(r))
      BY <1>12, <2>2 DEF TaskEnds
    <3>2. CASE r \in Recs
      <4>1. /\ recurringTasks'[r].wait = Occurrence
            /\ \A k \in Recs : k # r => recurringTasks'[k] = recurringTasks[k]
        BY <1>1, <3>1, <3>2 DEF Waiting, Rec
      <4> QED BY <1>1, <1>5, <3>1, <3>2, <4>1
    <3>3. CASE r \notin Recs
      BY <1>1, <1>3, <3>1, <3>3 DEF ArmRecurring
    <3> QED BY <3>2, <3>3
  <2>3. CASE i \in awaiting /\ recurringTasks[r].status # "active"
    <3>1. /\ recurringTasks' = [recurringTasks EXCEPT ![r].child = None]
          /\ UNCHANGED recurringTimers
      BY <1>12, <2>3 DEF TaskEnds
    <3>2. recurringTasks'[q].wait = recurringTasks[q].wait
      BY <1>1, <3>1 DEF RecRecord
    <3> QED BY <1>3, <3>1, <3>2
  <2> QED BY <2>1, <2>2, <2>3
<1>13. CASE Restart
  <2>1. CASE disk.recurring[q].status = "active"
    <3>1. recurringTasks'[q] = Waiting /\ recurringTimers'[q] = RecurringTimer(Occurrence)
      BY <1>13, <2>1 DEF Restart
    <3> QED BY <1>1, <3>1, RecurringTimerLate DEF Waiting, Rec
  <2>2. CASE disk.recurring[q].status # "active"
    BY <1>4, <1>13, <2>2 DEF Restart
  <2> QED BY <2>1, <2>2
<1>14. CASE Forget
  BY <1>4, <1>14 DEF Forget
<1>15. CASE Tick
  <2>1. /\ recurringTimers'[q].left = Less(recurringTimers[q].left)
        /\ recurringTimers'[q].fires = recurringTimers[q].fires
        /\ recurringTasks'[q].wait = Less(recurringTasks[q].wait)
    BY <1>1, <1>15 DEF Tick, LaterRecs, LaterTimer, RecRecord, TimerRecord
  <2>2. recurringTimers[q].left \in Nat \cup {Off}
    BY <1>1 DEF TimerRecord
  <2> QED BY <1>1, <1>2, <2>1, <2>2 DEF Less, Off
<1>16. CASE \E i \in TaskIds : \/ \E d \in Delays : ScheduleTask(i, d) \/ UpdateTask(i, d)
                               \/ CancelTask(i) \/ FireTask(i) \/ TaskRegisters(i)
  BY <1>6, <1>16 DEF ScheduleTask, UpdateTask, CancelTask, FireTask, TaskRegisters, memVars
<1>17. CASE UserTask \/ BotRemoved \/ UNCHANGED vars
  BY <1>6, <1>17 DEF UserTask, BotRemoved, vars, memVars
<1>18. CASE Crash \/ \E r \in Recs, i \in TaskIds : CrashWhileFiring(r, i)
  BY <1>14, <1>18 DEF Crash, CrashWhileFiring
<1>19. CASE \E r \in Recs : FireAny(r)
  BY <1>9, <1>10, <1>11, <1>19 DEF FireAny
<1> QED BY <1>7, <1>8, <1>12, <1>13, <1>15, <1>16, <1>17, <1>18, <1>19 DEF Next

LateInv == TimerIsLate /\ RecurringTimerIsLate

LEMMA LateStep ==
  ASSUME DelaysFit, TypeOK, TypeOK', PendingIsArmed, LateInv, [MCNext]_mcVars
  PROVE  LateInv'
<1>1. [Next]_vars
  BY DEF MCNext, mcVars
<1> QED BY <1>1, TimerStep, DiskDueStep, RecurringTimerStep
       DEF LateInv, TimerIsLate, RecurringTimerIsLate

\* The step NeverEarly speaks of.
Timely ==
  /\ \A i \in TaskIds : tasks[i].status = "pending" /\ tasks'[i].status = "executing"
                          => tasks[i].due <= 0
  /\ \A i \in TaskIds, r \in Recs : Created(i) /\ tasks'[i].parent = r
                          => recurringTasks[r].wait = 0 \/ overlapped

LEMMA TimelyStep ==
  ASSUME TypeOK, TypeOK', LateInv, OccurrenceInv, [Next]_vars
  PROVE  Timely
<1>1. ASSUME NEW i \in TaskIds, tasks[i].status = "pending", tasks'[i].status = "executing"
      PROVE  tasks[i].due <= 0
  <2>1. Starts(i)
    BY <1>1, WhatStarts
  <2>2. ~Restart
    BY <1>1, StartsSaved, <2>1, EndedType DEF Restart, Restored, NoTask, Task, TypeOK
  <2>3. FireTask(i)
    BY <1>1, <2>1, <2>2 DEF Starts, ScheduleTask, FireRecurringInstance, Free
  <2> QED BY <1>1, <2>3 DEF FireTask, LateInv, TimerIsLate
<1>2. ASSUME NEW i \in TaskIds, NEW r \in Recs, Created(i), tasks'[i].parent = r, ~overlapped
      PROVE  recurringTasks[r].wait = 0
  <2>1. Starts(i)
    BY <1>2, WhatStarts DEF Created, Free
  <2>2. ASSUME NEW d \in Delays, ScheduleTask(i, d) PROVE FALSE
    BY <1>2, <2>2, SchedulerAssumption DEF ScheduleTask, Task, TypeOK
  <2>3. PICK q \in Recs : \E t \in GoingOff(q) : FireRecurringInstance(q, t, i)
    BY <1>2, <2>1, <2>2 DEF Starts, Created, Free, Restart
  <2>4. PICK t \in GoingOff(q) : FireRecurringInstance(q, t, i)
    BY <2>3
  <2>5. q = r
    <3>1. Fired(NewChild(q)).parent = q
      BY NewChildType DEF Fired, Ended, NewChild, Task, TaskRecord
    <3> QED BY <1>2, <2>4, <3>1 DEF FireRecurringInstance, TypeOK
  <2>6. t = recurringTimers[r] /\ t.left = 0 /\ t.fires
    BY <1>2, <2>4, <2>5, AloneTimer DEF OccurrenceInv, Alone, FireRecurringInstance
  <2>7. recurringTasks[r].wait <= 0 /\ recurringTasks[r].wait \in 0..Period
    BY <2>6 DEF LateInv, RecurringTimerIsLate, TypeOK, RecRecord
  <2> QED BY <2>7, SchedulerAssumption
<1> QED BY <1>1, <1>2 DEF Timely

LEMMA HistoryArmed == MCSpec => []PendingIsArmed
<1>1. MCInit => PendingIsArmed
  BY DEF MCInit, Init, PendingIsArmed, NoTask, Task
<1>2. TypeOK /\ TypeOK' /\ PendingIsArmed /\ [MCNext]_mcVars => PendingIsArmed'
  BY PendingStep DEF MCNext, mcVars
<1> QED BY <1>1, <1>2, HistoryTypes, PTL DEF MCSpec, mcVars

\* A task starts no earlier than its time and an occurrence no earlier than
\* the cron expression says, through busy retries, pauses, the cutting of long
\* waits and restarts (setTimer, setRecurringTimer, fireTask).
THEOREM NothingIsEarly ==
  ASSUME DelaysFit
  PROVE  MCSpec => NeverEarly
<1>1. MCInit /\ TypeOK => LateInv
  BY SchedulerAssumption DEF MCInit, Init, LateInv, TimerIsLate, RecurringTimerIsLate, NoTask, Task,
     NoTimer, RecTimer
<1>2. TypeOK /\ TypeOK' /\ PendingIsArmed /\ LateInv /\ [MCNext]_mcVars => LateInv'
  BY LateStep
<1>3. TypeOK /\ TypeOK' /\ LateInv /\ OccurrenceInv /\ [MCNext]_mcVars => [Timely]_vars
  BY TimelyStep DEF MCNext, mcVars
<1> QED BY <1>1, <1>2, <1>3, HistoryTypes, HistoryArmed, HistoryOccurrences, PTL
       DEF MCSpec, mcVars, NeverEarly, Timely

(* The API of a host and of its peers. ***************************************)

Day == [date : {"earlier", "today"}, cost : Nat]
BudgetOf == [limit : Limits \cup {0}, spent : Nat, history : Seq(Day)]

\* An open circuit has failed.
OpenHasFailed ==
  \A h \in Hosts, b \in Bots : circuits[h][b].state = "open" => circuits[h][b].failures > 0

\* One circuit, apart from the others.
CircuitIsSound(c) ==
  /\ c \in Circuit
  /\ c.state = "closed" => c.failures < FailureThreshold
  /\ c.state = "half-open" => c.failures > 0 /\ c.successes < HalfOpenMax
  /\ c.state = "open" => c.failures > 0

CircuitsInv == circuits \in [Hosts -> [Bots -> Circuit]] /\ CircuitIsCoherent /\ OpenHasFailed

LEMMA EachCircuit ==
  CircuitsInv <=> /\ circuits \in [Hosts -> [Bots -> Circuit]]
                  /\ \A h \in Hosts, b \in Bots : CircuitIsSound(circuits[h][b])
BY DEF CircuitsInv, CircuitIsCoherent, OpenHasFailed, CircuitIsSound

LEMMA EachCircuitNext ==
  CircuitsInv' <=> /\ circuits' \in [Hosts -> [Bots -> Circuit]]
                   /\ \A h \in Hosts, b \in Bots : CircuitIsSound(circuits'[h][b])
BY DEF CircuitsInv, CircuitIsCoherent, OpenHasFailed, CircuitIsSound

\* What tasks report, what a probe and the clock do keep a circuit sound.
LEMMA SoundCircuits ==
  ASSUME NEW c, CircuitIsSound(c)
  PROVE  /\ CircuitIsSound(Probed(c)) /\ CircuitIsSound(RecordFailure(c))
         /\ \A ok \in BOOLEAN : CircuitIsSound(Recorded(c, ok))
         /\ c.state = "open" /\ c.age < ResetTimeout => CircuitIsSound([c EXCEPT !.age = c.age + 1])
<1> USE DEF CircuitIsSound, Circuit
<1>0. /\ 0 \in 0..HalfOpenMax /\ 0 \in 0..FailureThreshold /\ 0 \in 0..ResetTimeout
      /\ 0 < HalfOpenMax /\ HalfOpenMax \in Nat /\ FailureThreshold \in Nat \ {0}
  BY TalkAssumption
<1>1. CircuitIsSound(Probed(c))
  <2>1. CASE c.state = "open" /\ c.age >= ResetTimeout
    <3>1. Probed(c) = [c EXCEPT !.state = "half-open", !.successes = 0]
      BY <2>1 DEF Probed
    <3> DEFINE d == [c EXCEPT !.state = "half-open", !.successes = 0]
    <3>2. d \in Circuit
      BY <1>0
    <3>3. d.state = "half-open" /\ d.successes = 0 /\ d.failures = c.failures
      OBVIOUS
    <3> QED BY <1>0, <3>1, <3>2, <3>3, <2>1
  <2>2. CASE ~(c.state = "open" /\ c.age >= ResetTimeout)
    <3>1. Probed(c) = c
      BY <2>2 DEF Probed
    <3> QED BY <3>1
  <2> QED BY <2>1, <2>2
<1>2. CircuitIsSound(RecordFailure(c))
  <2> DEFINE n == CountFailure(c.failures)
  <2>1. n \in 0..FailureThreshold /\ n > 0
    BY <1>0 DEF CountFailure
  <2>2. n >= FailureThreshold \/ n < FailureThreshold
    BY <1>0, <2>1
  <2> DEFINE s == IF c.state = "half-open" \/ n >= FailureThreshold THEN "open" ELSE c.state
  <2>3. RecordFailure(c) = [c EXCEPT !.failures = n, !.age = 0, !.state = s]
    BY DEF RecordFailure
  <2>4. s \in {"closed", "open"}
    BY <2>1
  <2> HIDE DEF n
  <2>5. s = "closed" => n < FailureThreshold
    BY <2>1, <2>2
  <2> HIDE DEF s
  <2> DEFINE d == [c EXCEPT !.failures = n, !.age = 0, !.state = s]
  <2>6. d \in Circuit
    BY <1>0, <2>1, <2>4
  <2>7. d.state = s /\ d.failures = n
    OBVIOUS
  <2> QED BY <2>1, <2>3, <2>4, <2>5, <2>6, <2>7
<1>3. CircuitIsSound(RecordSuccess(c))
  <2>1. CASE c.state = "half-open"
    <3>1. c.successes + 1 \in 0..HalfOpenMax
      BY <1>0, <2>1
    <3>2. CASE c.successes + 1 >= HalfOpenMax
      <4>0. ~(c.successes + 1 < HalfOpenMax) /\ c.state # "closed"
        BY <1>0, <2>1, <3>1, <3>2
      <4>1. RecordSuccess(c) = [c EXCEPT !.state = "closed", !.failures = 0, !.successes = c.successes + 1]
        BY <2>1, <3>2, <4>0, Zenon DEF RecordSuccess
      <4> DEFINE d == [c EXCEPT !.state = "closed", !.failures = 0, !.successes = c.successes + 1]
      <4>2. d \in Circuit
        BY <1>0, <3>1
      <4>3. d.state = "closed" /\ d.failures = 0
        OBVIOUS
      <4> QED BY <1>0, <4>1, <4>2, <4>3
    <3>3. CASE c.successes + 1 < HalfOpenMax
      <4>1. RecordSuccess(c) = [c EXCEPT !.successes = c.successes + 1]
        BY <2>1, <3>3 DEF RecordSuccess
      <4> QED BY <4>1, <3>1, <3>3, <2>1
    <3> QED BY <1>0, <3>1, <3>2, <3>3
  <2>2. CASE c.state = "closed"
    <3>1. RecordSuccess(c) = [c EXCEPT !.failures = 0]
      BY <2>2 DEF RecordSuccess
    <3> QED BY <1>0, <3>1, <2>2
  <2>3. CASE c.state = "open"
    <3>1. RecordSuccess(c) = c
      BY <2>3 DEF RecordSuccess
    <3> QED BY <3>1
  <2> QED BY <2>1, <2>2, <2>3
<1>4. ASSUME NEW ok \in BOOLEAN PROVE CircuitIsSound(Recorded(c, ok))
  BY <1>2, <1>3 DEF Recorded
<1>5. c.state = "open" /\ c.age < ResetTimeout => CircuitIsSound([c EXCEPT !.age = c.age + 1])
  <2> SUFFICES ASSUME c.state = "open", c.age < ResetTimeout PROVE CircuitIsSound([c EXCEPT !.age = c.age + 1])
    OBVIOUS
  <2>1. c.age + 1 \in 0..ResetTimeout
    BY TalkAssumption
  <2>2. [c EXCEPT !.age = c.age + 1] \in Circuit
    BY <2>1
  <2> QED BY <2>2
<1> QED BY <1>1, <1>2, <1>4, <1>5

LEMMA NewIsSound == CircuitIsSound(NewCircuit)
BY TalkAssumption DEF CircuitIsSound, Circuit, NewCircuit

\* A step replaces at most one circuit, by a sound one.
LEMMA OneCircuit ==
  ASSUME CircuitsInv, NEW h \in Hosts, NEW b \in Bots, NEW c, CircuitIsSound(c),
         circuits' = [circuits EXCEPT ![h][b] = c]
  PROVE  CircuitsInv'
<1>1. c \in Circuit
  BY DEF CircuitIsSound
<1>2. circuits' \in [Hosts -> [Bots -> Circuit]]
  BY <1>1 DEF CircuitsInv
<1>3. \A g \in Hosts, a \in Bots : circuits'[g][a] = IF g = h /\ a = b THEN c ELSE circuits[g][a]
  BY DEF CircuitsInv
<1> QED BY <1>2, <1>3, EachCircuit, EachCircuitNext

(* Budgets. *)

LEMMA DaysAreKept ==
  ASSUME NEW history \in Seq(Day)
  PROVE  LastDays(history) \in Seq(Day)
<1>1. Len(history) \in Nat /\ MaxHistory \in Nat
  BY LenProperties, TalkAssumption
<1>2. CASE Len(history) > MaxHistory
  <2> DEFINE m == Len(history) - MaxHistory + 1
  <2>1. m \in 1..Len(history) + 1 /\ Len(history) \in m - 1..Len(history)
    BY <1>1, <1>2
  <2>2. SubSeq(history, m, Len(history)) \in Seq(Day)
    BY <2>1, SubSeqProperties
  <2> QED BY <1>2, <2>2 DEF LastDays
<1>3. CASE ~(Len(history) > MaxHistory)
  BY <1>3 DEF LastDays
<1> QED BY <1>2, <1>3

\* A budget rolled over is a budget, and rolling it over again changes nothing.
LEMMA RolloverOnce ==
  ASSUME NEW b \in BudgetOf
  PROVE  /\ RolloverIfNeeded(b) \in BudgetOf
         /\ RolloverIfNeeded(RolloverIfNeeded(b)) = RolloverIfNeeded(b)
         /\ RolloverIfNeeded(b).limit = b.limit
<1>1. CASE b.history # << >> /\ b.history[Len(b.history)].date = "today"
  BY <1>1 DEF RolloverIfNeeded
<1>2. CASE ~(b.history # << >> /\ b.history[Len(b.history)].date = "today")
  <2> DEFINE kept == IF b.spent > 0 THEN LastDays(Append(b.history, [date |-> "earlier", cost |-> b.spent]))
                     ELSE b.history
             d == [b EXCEPT !.spent = 0, !.history = kept]
  <2>1. RolloverIfNeeded(b) = d
    BY <1>2 DEF RolloverIfNeeded
  <2>2. [date |-> "earlier", cost |-> b.spent] \in Day
    BY DEF Day, BudgetOf
  <2>3. kept \in Seq(Day)
    BY <2>2, AppendProperties, DaysAreKept DEF BudgetOf
  <2> HIDE DEF kept
  <2>4. d \in BudgetOf
    BY <2>3 DEF BudgetOf
  <2>5. d.spent = 0 /\ d.history = kept /\ d.limit = b.limit
    BY DEF BudgetOf
  <2>6. d = [d EXCEPT !.spent = 0, !.history = kept]
    BY <2>4, <2>5 DEF BudgetOf
  <2> HIDE DEF d
  <2>7. RolloverIfNeeded(d) = d
    BY <2>5, <2>6 DEF RolloverIfNeeded
  <2> QED BY <2>1, <2>4, <2>5, <2>7
<1> QED BY <1>1, <1>2

LEMMA CheckedBudget ==
  ASSUME NEW b \in BudgetOf
  PROVE  Checked(b) \in {b, RolloverIfNeeded(b)} /\ Checked(b) \in BudgetOf
BY RolloverOnce DEF Checked

LEMMA CostedBudget ==
  ASSUME NEW b \in BudgetOf, NEW c \in Nat
  PROVE  RecordCost(b, c) \in BudgetOf
<1> DEFINE r == RolloverIfNeeded(b)
<1>1. r \in BudgetOf
  BY RolloverOnce
<1>2. RecordCost(b, c) = [r EXCEPT !.spent = r.spent + c]
  BY DEF RecordCost
<1> HIDE DEF r
<1>3. r.spent + c \in Nat
  BY <1>1 DEF BudgetOf
<1>4. \A n \in Nat : [r EXCEPT !.spent = n] \in BudgetOf
  BY <1>1 DEF BudgetOf
<1> QED BY <1>2, <1>3, <1>4

BudgetsInv ==
  /\ budgets \in [Hosts -> [Bots -> BudgetOf]] /\ budgetsFile \in [Hosts -> [Bots -> BudgetOf]]
  /\ saveTimer \in [Hosts -> BOOLEAN] /\ hostUp \in [Hosts -> BOOLEAN]
  /\ CostsSurvive

\* A task that is refused or taken in rolls its bot's budget over, at most.
LEMMA OneBudgetChecked ==
  ASSUME BudgetsInv, NEW h \in Hosts, NEW b \in Bots,
         NEW d, d \in {budgets[h][b], RolloverIfNeeded(budgets[h][b])},
         budgets' = [budgets EXCEPT ![h][b] = d], UNCHANGED <<budgetsFile, saveTimer, hostUp>>
  PROVE  BudgetsInv'
<1> USE DEF BudgetsInv
<1>1. budgets[h][b] \in BudgetOf
  OBVIOUS
<1>2. d \in BudgetOf
  BY <1>1, RolloverOnce
<1>3. budgets' \in [Hosts -> [Bots -> BudgetOf]]
  BY <1>2
<1>4. \A g \in Hosts, a \in Bots : budgets'[g][a] = IF g = h /\ a = b THEN d ELSE budgets[g][a]
  OBVIOUS
<1>5. ASSUME NEW g \in Hosts, NEW a \in Bots, hostUp[g], ~saveTimer[g]
      PROVE  budgets'[g][a] \in {budgetsFile[g][a], RolloverIfNeeded(budgetsFile[g][a])}
  <2>1. budgets[g][a] \in {budgetsFile[g][a], RolloverIfNeeded(budgetsFile[g][a])}
    BY <1>5 DEF CostsSurvive
  <2>2. budgetsFile[g][a] \in BudgetOf
    OBVIOUS
  <2>3. RolloverIfNeeded(RolloverIfNeeded(budgetsFile[g][a])) = RolloverIfNeeded(budgetsFile[g][a])
    BY <2>2, RolloverOnce
  <2> QED BY <1>4, <2>1, <2>3
<1>6. CostsSurvive'
  BY <1>5 DEF CostsSurvive
<1> QED BY <1>3, <1>6

\* A change that makes a save due.
LEMMA OneBudgetDue ==
  ASSUME BudgetsInv, NEW h \in Hosts, NEW b \in Bots, NEW d \in BudgetOf,
         budgets' = [budgets EXCEPT ![h][b] = d], saveTimer' = [saveTimer EXCEPT ![h] = TRUE],
         UNCHANGED <<budgetsFile, hostUp>>
  PROVE  BudgetsInv'
<1> USE DEF BudgetsInv
<1>1. budgets' \in [Hosts -> [Bots -> BudgetOf]] /\ saveTimer' \in [Hosts -> BOOLEAN]
  OBVIOUS
<1>2. \A g \in Hosts, a \in Bots : ~saveTimer'[g] => budgets'[g][a] = budgets[g][a] /\ ~saveTimer[g]
  OBVIOUS
<1>3. CostsSurvive'
  BY <1>2 DEF CostsSurvive
<1> QED BY <1>1, <1>3

LEMMA BudgetsUnchanged ==
  BudgetsInv /\ UNCHANGED <<budgets, budgetsFile, saveTimer, hostUp>> => BudgetsInv'
BY DEF BudgetsInv, CostsSurvive

(* Requests. *)

\* Where a request is tells what it has: a host and a bot from its arrival to
\* its end, a peer as long as it is a client's and passed on.
RequestIsSound(x) ==
  /\ x \in TalkRequest
  /\ x.at = "waiting" <=> x.child # Absent
  /\ x.at \in {"forward", "waiting", "running", "callback"} => x.host \in Hosts /\ x.bot \in Bots
  /\ x.at \in {"forward", "waiting"} => x.peer \in Hosts /\ x.hops = 0
  /\ x.hops = 1 => x.peer = Absent /\ x.child = Absent

RequestsInv == req \in [Reqs -> TalkRequest] /\ \A r \in Reqs : RequestIsSound(req[r])

LEMMA BlankIsSound == RequestIsSound(Blank) /\ Blank \in TalkRequest
BY DEF RequestIsSound, TalkRequest, Blank

LEMMA AnsweredIsSound ==
  ASSUME NEW x \in TalkRequest, NEW a \in {"refused", "missing", "failed", "ok", "badgateway", "error"}
  PROVE  RequestIsSound(Answered(x, a))
<1>1. CASE x.hops = 0
  BY <1>1, BlankIsSound DEF Answered
<1>2. CASE x.hops # 0
  <2>1. Answered(x, a) = [Blank EXCEPT !.at = "done", !.host = x.host, !.hops = x.hops, !.answer = a]
    BY <1>2 DEF Answered
  <2> QED BY <2>1 DEF RequestIsSound, TalkRequest, Blank
<1> QED BY <1>1, <1>2

LEMMA EntryIsSound ==
  ASSUME NEW x \in TalkRequest, NEW outcome \in {"none", "running", "completed", "failed"}
  PROVE  RequestIsSound(Entry(x, outcome))
<1>1. PICK h \in Hosts \cup {Absent} : h = x.host
  BY DEF TalkRequest
<1> DEFINE d == [Blank EXCEPT !.at = "done", !.host = h, !.task = outcome]
<1>2. d = Entry(x, outcome)
  BY <1>1 DEF Entry
<1>3. d \in TalkRequest
  <2> DEFINE blank == [Blank EXCEPT !.at = "done"]
  <2>1. blank \in TalkRequest
    BY BlankIsSound DEF TalkRequest
  <2>2. d = [[blank EXCEPT !.host = h] EXCEPT !.task = outcome]
    BY DEF Blank
  <2> HIDE DEF blank
  <2> DEFINE hosted == [blank EXCEPT !.host = h]
  <2>3. hosted \in TalkRequest
    BY <2>1 DEF TalkRequest
  <2> HIDE DEF hosted
  <2>4. [hosted EXCEPT !.task = outcome] \in TalkRequest
    BY <2>3 DEF TalkRequest
  <2> QED BY <2>2, <2>4 DEF hosted
<1>4. d.at = "done" /\ d.child = Absent /\ d.peer = Absent
  BY DEF Blank
<1> HIDE DEF d
<1> QED BY <1>2, <1>3, <1>4 DEF RequestIsSound

\* A request as it arrives, of a client or of a peer.
Arrived(x) ==
  /\ RequestIsSound(x) /\ x.at = "idle" /\ x.host \in Hosts /\ x.bot \in Bots

LEMMA StartedIsSound ==
  ASSUME NEW x, Arrived(x)
  PROVE  RequestIsSound(Started(x))
BY DEF RequestIsSound, TalkRequest, Started, Arrived

LEMMA SentIsSound ==
  ASSUME NEW x, Arrived(x), NEW p \in ForwardTo(x)
  PROVE  RequestIsSound(Sent(x, p))
<1>1. x.hops = 0 /\ p \in Hosts
  BY TalkAssumption DEF ForwardTo, Known, Arrived, RequestIsSound, TalkRequest
<1> DEFINE d == Sent(x, p)
<1>2. x \in TalkRequest /\ x.child = Absent /\ x.host \in Hosts /\ x.bot \in Bots
  BY DEF Arrived, RequestIsSound
<1>3. d \in TalkRequest
  BY <1>1, <1>2 DEF TalkRequest, Sent
<1>4. d.at = "forward" /\ d.child = Absent /\ d.peer = p /\ d.hops = 0 /\ d.host = x.host /\ d.bot = x.bot
  BY <1>1, <1>2 DEF TalkRequest, Sent
<1> HIDE DEF d
<1>5. RequestIsSound(d)
  BY <1>1, <1>2, <1>3, <1>4 DEF RequestIsSound
<1> QED BY <1>5 DEF d

LEMMA ClientsRequest ==
  ASSUME NEW h \in Hosts, NEW b \in Bots, NEW p \in Hosts \cup {Absent},
         NEW async \in BOOLEAN, NEW callback \in BOOLEAN
  PROVE  Arrived([Blank EXCEPT !.host = h, !.bot = b, !.peer = p, !.async = async, !.callback = callback])
<1> DEFINE d == [Blank EXCEPT !.host = h, !.bot = b, !.peer = p, !.async = async, !.callback = callback]
<1>1. d \in TalkRequest
  BY BlankIsSound DEF TalkRequest
<1>2. d.at = "idle" /\ d.child = Absent /\ d.hops = 0 /\ d.host = h /\ d.bot = b
  BY DEF Blank
<1> HIDE DEF d
<1>3. Arrived(d)
  BY <1>1, <1>2 DEF RequestIsSound, Arrived
<1> QED BY <1>3 DEF d

LEMMA PeersRequest ==
  ASSUME NEW h \in Hosts, NEW b \in Bots
  PROVE  Arrived([Blank EXCEPT !.host = h, !.bot = b, !.hops = 1])
<1> DEFINE d == [Blank EXCEPT !.host = h, !.bot = b, !.hops = 1]
<1>1. d \in TalkRequest
  <2>1. 1 \in 0..1
    OBVIOUS
  <2> QED BY <2>1, BlankIsSound DEF TalkRequest
<1>2. d.at = "idle" /\ d.child = Absent /\ d.peer = Absent /\ d.host = h /\ d.bot = b
  BY DEF Blank
<1> HIDE DEF d
<1>3. Arrived(d)
  BY <1>1, <1>2 DEF RequestIsSound, Arrived
<1> QED BY <1>3 DEF d

LEMMA OneRequest ==
  ASSUME RequestsInv, NEW r \in Reqs, NEW x, RequestIsSound(x), req' = [req EXCEPT ![r] = x]
  PROVE  RequestsInv'
<1>1. \A s \in Reqs : req'[s] = IF s = r THEN x ELSE req[s]
  BY DEF RequestsInv
<1>2. x \in TalkRequest
  BY DEF RequestIsSound
<1>3. req' \in [Reqs -> TalkRequest]
  BY <1>2 DEF RequestsInv
<1> QED BY <1>1, <1>3 DEF RequestsInv, RequestIsSound

LEMMA TwoRequests ==
  ASSUME RequestsInv, NEW r \in Reqs, NEW x, RequestIsSound(x), NEW s \in Reqs, NEW y, RequestIsSound(y),
         req' = [req EXCEPT ![r] = x, ![s] = y]
  PROVE  RequestsInv'
<1>1. \A t \in Reqs : req'[t] = IF t = s THEN y ELSE IF t = r THEN x ELSE req[t]
  BY DEF RequestsInv
<1>2. x \in TalkRequest /\ y \in TalkRequest
  BY DEF RequestIsSound
<1>3. req' \in [Reqs -> TalkRequest]
  BY <1>2 DEF RequestsInv
<1> QED BY <1>1, <1>3 DEF RequestsInv, RequestIsSound

(* Steps. *)

RegistryInv ==
  /\ config \in [Hosts -> SUBSET Bots] /\ registry \in [Hosts -> SUBSET Bots]
  /\ hostUp \in [Hosts -> BOOLEAN]
  /\ RegistryWithinConfig

TalkInv == RequestsInv /\ CircuitsInv /\ BudgetsInv /\ RegistryInv

LEMMA CircuitsUnchanged == CircuitsInv /\ UNCHANGED circuits => CircuitsInv'
BY DEF CircuitsInv, CircuitIsCoherent, OpenHasFailed

LEMMA RequestsUnchanged == RequestsInv /\ UNCHANGED req => RequestsInv'
BY DEF RequestsInv

LEMMA HostsUnchanged == RegistryInv /\ UNCHANGED hostVars => RegistryInv'
BY DEF RegistryInv, RegistryWithinConfig, hostVars

\* Every step that is about requests alone.
LEMMA OnlyRequests ==
  TalkInv /\ RequestsInv' /\ UNCHANGED <<circuits, budgets, saveTimer, budgetsFile, hostVars>> => TalkInv'
BY CircuitsUnchanged, BudgetsUnchanged, HostsUnchanged DEF TalkInv, hostVars

LEMMA AdministratorsStep == TalkInv /\ Administrators => TalkInv'
<1> SUFFICES ASSUME TalkInv, Administrators PROVE TalkInv'
  OBVIOUS
<1> USE DEF TalkInv
<1>1. ASSUME NEW h \in Hosts, NEW b \in Bots, NEW l \in Limits, SetLimit(h, b, l) PROVE TalkInv'
  <2> DEFINE d == [budgets[h][b] EXCEPT !.limit = l]
  <2>1. d \in BudgetOf
    <3>1. budgets[h][b] \in BudgetOf /\ l \in Limits \cup {0}
      BY DEF BudgetsInv
    <3> QED BY <3>1 DEF BudgetOf
  <2>2. budgets' = [budgets EXCEPT ![h][b] = d]
    BY <1>1 DEF SetLimit, BudgetsInv
  <2> HIDE DEF d
  <2>3. BudgetsInv'
    BY <1>1, <2>1, <2>2, OneBudgetDue DEF SetLimit, hostVars
  <2> QED BY <1>1, <2>3, RequestsUnchanged, CircuitsUnchanged, HostsUnchanged DEF SetLimit
<1>2. ASSUME NEW h \in Hosts, NEW b \in Bots, ResetCircuit(h, b) PROVE TalkInv'
  <2>1. CircuitsInv'
    BY <1>2, OneCircuit, NewIsSound DEF ResetCircuit
  <2> QED BY <1>2, <2>1, RequestsUnchanged, BudgetsUnchanged, HostsUnchanged DEF ResetCircuit, hostVars
<1>3. ASSUME NEW h \in Hosts, NEW b \in Bots, NEW web \in BOOLEAN, AddBot(h, b, web) PROVE TalkInv'
  <2>1. RegistryInv'
    BY <1>3 DEF AddBot, AddedTo, RegistryInv, RegistryWithinConfig
  <2> QED BY <1>3, <2>1, RequestsUnchanged, CircuitsUnchanged, BudgetsUnchanged DEF AddBot
<1>4. ASSUME NEW h \in Hosts, NEW b \in Bots, RemoveBot(h, b) PROVE TalkInv'
  <2>1. RegistryInv'
    BY <1>4 DEF RemoveBot, RemovedFrom, RegistryInv, RegistryWithinConfig
  <2> QED BY <1>4, <2>1, RequestsUnchanged, CircuitsUnchanged, BudgetsUnchanged DEF RemoveBot
<1>5. ASSUME NEW h \in Hosts, ReadBudgets(h) PROVE TalkInv'
  <2>1. budgets' = [budgets EXCEPT ![h] = [b \in Bots |-> RolloverIfNeeded(budgets[h][b])]]
    BY <1>5 DEF ReadBudgets
  <2>2. \A b \in Bots : budgets[h][b] \in BudgetOf /\ RolloverIfNeeded(budgets[h][b]) \in BudgetOf
    BY RolloverOnce DEF BudgetsInv
  <2>3. budgets' \in [Hosts -> [Bots -> BudgetOf]]
    BY <2>1, <2>2 DEF BudgetsInv
  <2>4. ASSUME NEW g \in Hosts, NEW b \in Bots, hostUp[g], ~saveTimer[g]
        PROVE  budgets'[g][b] \in {budgetsFile[g][b], RolloverIfNeeded(budgetsFile[g][b])}
    <3>1. budgets[g][b] \in {budgetsFile[g][b], RolloverIfNeeded(budgetsFile[g][b])}
      BY <2>4 DEF BudgetsInv, CostsSurvive
    <3>2. budgets'[g][b] = IF g = h THEN RolloverIfNeeded(budgets[h][b]) ELSE budgets[g][b]
      BY <2>1 DEF BudgetsInv
    <3>3. budgetsFile[g][b] \in BudgetOf
      BY DEF BudgetsInv
    <3> QED BY <3>1, <3>2, <3>3, RolloverOnce
  <2>5. BudgetsInv'
    BY <1>5, <2>3, <2>4 DEF ReadBudgets, BudgetsInv, CostsSurvive, hostVars
  <2> QED BY <1>5, <2>5, RequestsUnchanged, CircuitsUnchanged, HostsUnchanged DEF ReadBudgets
<1> QED BY <1>1, <1>2, <1>3, <1>4, <1>5 DEF Administrators

\* A request that arrives at a host which has its bot.
LEMMA ReceivedHere ==
  ASSUME TalkInv, NEW r \in Reqs, NEW x, Arrived(x), ReceiveHere(r, x)
  PROVE  TalkInv'
<1> USE DEF TalkInv
<1> DEFINE c == circuits[x.host][x.bot]
           b == budgets[x.host][x.bot]
           checked == IF IsAvailable(c) THEN Checked(b) ELSE b
<1>1. x.host \in Hosts /\ x.bot \in Bots /\ x \in TalkRequest
  BY DEF Arrived, RequestIsSound
<1>2. CircuitIsSound(c) /\ b \in BudgetOf
  BY <1>1, EachCircuit DEF BudgetsInv
<1>3. CircuitsInv'
  <2>1. circuits' = [circuits EXCEPT ![x.host][x.bot] = Probed(c)]
    BY DEF ReceiveHere
  <2>2. CircuitIsSound(Probed(c))
    BY <1>2, SoundCircuits
  <2> HIDE DEF c
  <2> QED BY <1>1, <2>1, <2>2, OneCircuit
<1>4. BudgetsInv'
  <2>1. budgets' = [budgets EXCEPT ![x.host][x.bot] = checked] /\ UNCHANGED <<budgetsFile, saveTimer, hostUp>>
    BY DEF ReceiveHere, hostVars
  <2>2. checked \in {b, RolloverIfNeeded(b)}
    BY <1>2, CheckedBudget
  <2> HIDE DEF checked
  <2> QED BY <1>1, <2>1, <2>2, OneBudgetChecked
<1>5. RequestsInv'
  <2> DEFINE settled == IF IsAvailable(c) /\ CanAcceptTask(b) THEN Started(x) ELSE Answered(x, "refused")
  <2>1. req' = [req EXCEPT ![r] = settled]
    BY DEF ReceiveHere
  <2>2. RequestIsSound(settled)
    BY <1>1, StartedIsSound, AnsweredIsSound
  <2> HIDE DEF settled
  <2> QED BY <2>1, <2>2, OneRequest
<1> QED BY <1>3, <1>4, <1>5, HostsUnchanged DEF ReceiveHere

LEMMA ClientsStep == TalkInv /\ Clients => TalkInv'
<1> SUFFICES ASSUME TalkInv, NEW r \in Reqs, NEW h \in Hosts, NEW b \in Bots, NEW p \in Hosts \cup {Absent},
                    NEW async \in BOOLEAN, NEW cb \in BOOLEAN, Talk(r, h, b, p, async, cb)
             PROVE  TalkInv'
  BY DEF Clients
<1> DEFINE x == [Blank EXCEPT !.host = h, !.bot = b, !.peer = p, !.async = async, !.callback = cb]
<1>1. Arrived(x)
  BY ClientsRequest
<1>2. ReceiveHere(r, x) \/ ReceiveAndForward(r, x) \/ ReceiveUnknown(r, x)
  BY DEF Talk
<1> HIDE DEF x
<1>3. CASE ReceiveHere(r, x)
  BY <1>1, <1>3, ReceivedHere
<1>4. CASE ReceiveAndForward(r, x)
  <2>1. PICK q \in ForwardTo(x) : req' = [req EXCEPT ![r] = Sent(x, q)]
    BY <1>4 DEF ReceiveAndForward
  <2>2. RequestsInv'
    BY <1>1, <2>1, SentIsSound, OneRequest DEF TalkInv
  <2> QED BY <1>4, <2>2, OnlyRequests DEF ReceiveAndForward
<1>5. CASE ReceiveUnknown(r, x)
  <2>1. x \in TalkRequest
    BY <1>1 DEF Arrived, RequestIsSound
  <2>2. RequestsInv'
    BY <1>5, <2>1, AnsweredIsSound, OneRequest DEF TalkInv, ReceiveUnknown
  <2> QED BY <1>5, <2>2, OnlyRequests DEF ReceiveUnknown
<1> QED BY <1>2, <1>3, <1>4, <1>5

LEMMA ArrivesStep ==
  ASSUME TalkInv, NEW r \in Reqs, NEW s \in Reqs, ForwardArrives(r, s)
  PROVE  TalkInv'
<1> USE DEF TalkInv
<1> DEFINE x == [Blank EXCEPT !.host = req[r].peer, !.bot = req[r].bot, !.hops = req[r].hops + 1]
           waits == [req[r] EXCEPT !.at = "waiting", !.child = s]
           settled == IF ~RunsHere(x) THEN Answered(x, "missing")
                      ELSE IF IsAvailable(circuits[x.host][x.bot]) /\ CanAcceptTask(budgets[x.host][x.bot])
                        THEN Started(x) ELSE Answered(x, "refused")
           sent(q) == [q EXCEPT ![r].at = "waiting", ![r].child = s]
<1>1. /\ RequestIsSound(req[r]) /\ req[r] \in TalkRequest /\ req[r].at = "forward" /\ req[s] = Blank
      /\ req[r].peer \in Hosts /\ req[r].host \in Hosts /\ req[r].bot \in Bots /\ req[r].hops = 0
  BY DEF RequestsInv, RequestIsSound, ForwardArrives
<1>2. r # s
  BY <1>1 DEF Blank
<1>3. Arrived(x) /\ x.hops = 1 /\ x.host = req[r].peer /\ x.bot = req[r].bot /\ x.peer = Absent
  <2>1. x = [Blank EXCEPT !.host = req[r].peer, !.bot = req[r].bot, !.hops = 1]
    BY <1>1
  <2>2. Arrived(x)
    BY <1>1, <2>1, PeersRequest
  <2> QED BY <2>1, <2>2 DEF Blank
<1>4. ForwardTo(x) = {}
  BY <1>3 DEF ForwardTo
<1>5. RequestIsSound(waits)
  <2>1. s \in Reqs \cup {Absent} /\ s # Absent
    BY TalkAssumption
  <2>2. waits \in TalkRequest
    BY <1>1, <2>1 DEF TalkRequest
  <2>3. /\ waits.at = "waiting" /\ waits.child = s /\ waits.host = req[r].host /\ waits.bot = req[r].bot
        /\ waits.peer = req[r].peer /\ waits.hops = req[r].hops
    BY <1>1 DEF TalkRequest
  <2> HIDE DEF waits
  <2> QED BY <1>1, <2>1, <2>2, <2>3 DEF RequestIsSound
<1>6. RequestIsSound(settled)
  <2>1. x \in TalkRequest
    BY <1>3 DEF Arrived, RequestIsSound
  <2> QED BY <1>3, <2>1, StartedIsSound, AnsweredIsSound
<1>7. /\ req' = [sent(req) EXCEPT ![s] = settled]
      /\ circuits' = [circuits EXCEPT ![x.host][x.bot] = IF RunsHere(x) THEN Probed(@) ELSE @]
      /\ budgets' = [budgets EXCEPT ![x.host][x.bot] =
                IF RunsHere(x) /\ IsAvailable(circuits[x.host][x.bot]) THEN Checked(@) ELSE @]
      /\ UNCHANGED <<saveTimer, budgetsFile, hostVars>>
  BY <1>4 DEF ForwardArrives
<1> HIDE DEF x, settled
<1>8. RequestsInv'
  <2>1. req' = [req EXCEPT ![r] = waits, ![s] = settled]
    BY <1>1, <1>7 DEF RequestsInv, TalkRequest
  <2> HIDE DEF waits
  <2> QED BY <1>5, <1>6, <2>1, TwoRequests
<1> DEFINE c == circuits[x.host][x.bot]
           probed == IF RunsHere(x) THEN Probed(c) ELSE c
           b == budgets[x.host][x.bot]
           checked == IF RunsHere(x) /\ IsAvailable(c) THEN Checked(b) ELSE b
<1>9. x.host \in Hosts /\ x.bot \in Bots
  BY <1>1, <1>3
<1>10. CircuitIsSound(c) /\ b \in BudgetOf
  BY <1>9, EachCircuit DEF BudgetsInv
<1>11. CircuitsInv'
  <2>1. circuits' = [circuits EXCEPT ![x.host][x.bot] = probed]
    BY <1>7
  <2>2. CircuitIsSound(probed)
    BY <1>10, SoundCircuits
  <2> HIDE DEF probed
  <2> QED BY <1>9, <2>1, <2>2, OneCircuit
<1>12. BudgetsInv'
  <2>1. budgets' = [budgets EXCEPT ![x.host][x.bot] = checked] /\ UNCHANGED <<budgetsFile, saveTimer, hostUp>>
    BY <1>7 DEF hostVars
  <2>2. checked \in {b, RolloverIfNeeded(b)}
    BY <1>10, CheckedBudget
  <2> HIDE DEF checked
  <2> QED BY <1>9, <2>1, <2>2, OneBudgetChecked
<1> QED BY <1>7, <1>8, <1>11, <1>12, HostsUnchanged

LEMMA ForwardStep ==
  ASSUME TalkInv, NEW r \in Reqs, Forward(r)
  PROVE  TalkInv'
<1> USE DEF TalkInv
<1>0. req[r] \in TalkRequest /\ RequestIsSound(req[r])
  BY DEF RequestsInv
<1>1. CASE \E s \in Reqs : ForwardArrives(r, s)
  BY <1>1, ArrivesStep
<1>2. CASE PeerAnswers(r)
  <2> DEFINE s == req[r].child
             told == Answered(req[r], IF req[s].answer = "failed" THEN "failed" ELSE "ok")
  <2>1. s \in Reqs
    BY <1>0, <1>2 DEF PeerAnswers, RequestIsSound, TalkRequest
  <2>2. req' = [req EXCEPT ![r] = told, ![s] = Blank]
    BY <1>2 DEF PeerAnswers
  <2>3. RequestIsSound(told)
    BY <1>0, AnsweredIsSound
  <2> HIDE DEF told, s
  <2>4. RequestsInv'
    BY <2>1, <2>2, <2>3, BlankIsSound, TwoRequests
  <2> QED BY <1>2, <2>4, OnlyRequests DEF PeerAnswers
<1>3. CASE ForwardFails(r)
  <2>1. req' = [req EXCEPT ![r] = Answered(req[r], "badgateway")]
    BY <1>3 DEF ForwardFails
  <2>2. RequestIsSound(Answered(req[r], "badgateway"))
    BY <1>0, AnsweredIsSound
  <2>3. RequestsInv'
    BY <2>1, <2>2, OneRequest
  <2> QED BY <1>3, <2>3, OnlyRequests DEF ForwardFails
<1> QED BY <1>1, <1>2, <1>3 DEF Forward

LEMMA TaskStep ==
  ASSUME TalkInv, NEW r \in Reqs, TaskOf(r)
  PROVE  TalkInv'
<1> USE DEF TalkInv
<1> DEFINE x == req[r]
           c == circuits[x.host][x.bot]
<1>0. x \in TalkRequest /\ RequestIsSound(x)
  BY DEF RequestsInv
<1>1. x.at \in {"running", "callback"} => /\ x.host \in Hosts /\ x.bot \in Bots
                                          /\ CircuitIsSound(c) /\ x.child = Absent
  BY <1>0, EachCircuit DEF RequestIsSound
<1>2. ASSUME NEW ok \in BOOLEAN, NEW n \in 0..1, TaskReturns(r, ok, n) PROVE TalkInv'
  <2> DEFINE outcome == IF ok THEN "completed" ELSE "failed"
             asked == x.async /\ x.callback /\ registry[x.host] # {}
             next == IF asked THEN [x EXCEPT !.at = "callback", !.task = outcome]
                     ELSE IF x.async THEN Entry(x, outcome)
                     ELSE Answered(x, IF ok THEN "ok" ELSE "failed")
  <2>1. x.at = "running" /\ x.host \in Hosts /\ x.bot \in Bots /\ CircuitIsSound(c) /\ x.child = Absent
    BY <1>1, <1>2 DEF TaskReturns
  <2>2. CircuitsInv'
    <3>1. circuits' = [circuits EXCEPT ![x.host][x.bot] = Recorded(c, ok)]
      BY <1>2 DEF TaskReturns
    <3>2. CircuitIsSound(Recorded(c, ok))
      BY <2>1, SoundCircuits
    <3> QED BY <2>1, <3>1, <3>2, OneCircuit
  <2>3. BudgetsInv'
    <3>1. CASE n > 0
      <4> DEFINE d == RecordCost(budgets[x.host][x.bot], n)
      <4>1. budgets' = [budgets EXCEPT ![x.host][x.bot] = d] /\ saveTimer' = [saveTimer EXCEPT ![x.host] = TRUE]
        BY <1>2, <3>1 DEF TaskReturns, PaidFor
      <4>2. d \in BudgetOf
        BY <2>1, CostedBudget DEF BudgetsInv
      <4> HIDE DEF d
      <4> QED BY <1>2, <2>1, <4>1, <4>2, OneBudgetDue DEF TaskReturns, hostVars
    <3>2. CASE ~(n > 0)
      BY <1>2, <3>2, BudgetsUnchanged DEF TaskReturns, hostVars
    <3> QED BY <3>1, <3>2
  <2>4. RequestsInv'
    <3>1. req' = [req EXCEPT ![r] = next]
      BY <1>2 DEF TaskReturns
    <3>2. RequestIsSound([x EXCEPT !.at = "callback", !.task = outcome])
      <4> DEFINE d == [x EXCEPT !.at = "callback", !.task = outcome]
      <4>1. [x EXCEPT !.task = outcome] \in TalkRequest
        <5>1. outcome \in {"none", "running", "completed", "failed"}
          OBVIOUS
        <5> HIDE DEF outcome, x
        <5> QED BY <1>0, <5>1 DEF TalkRequest
      <4>2. \A y \in TalkRequest : [y EXCEPT !.at = "callback"] \in TalkRequest
        BY DEF TalkRequest
      <4>3. d = [[x EXCEPT !.task = outcome] EXCEPT !.at = "callback"]
        BY <1>0 DEF TalkRequest
      <4>4. d \in TalkRequest
        BY <4>1, <4>2, <4>3
      <4>5. d.at = "callback" /\ d.child = Absent /\ d.host = x.host /\ d.bot = x.bot /\ d.hops = x.hops /\ d.peer = x.peer
        BY <1>0, <2>1 DEF TalkRequest
      <4> HIDE DEF d
      <4>6. RequestIsSound(d)
        BY <1>0, <2>1, <4>4, <4>5 DEF RequestIsSound
      <4> QED BY <4>6 DEF d
    <3>3. RequestIsSound(next)
      BY <1>0, <3>2, EntryIsSound, AnsweredIsSound
    <3> HIDE DEF next
    <3> QED BY <3>1, <3>3, OneRequest
  <2> QED BY <1>2, <2>2, <2>3, <2>4, HostsUnchanged DEF TaskReturns
<1>3. CASE TaskThrows(r)
  <2> DEFINE next == IF x.async THEN Caught(x) ELSE Answered(x, "error")
             d == IF x.async THEN RecordFailure(c) ELSE c
  <2>1. x.host \in Hosts /\ x.bot \in Bots /\ CircuitIsSound(c)
    BY <1>1, <1>3 DEF TaskThrows
  <2>2. CircuitsInv'
    <3>1. circuits' = [circuits EXCEPT ![x.host][x.bot] = d]
      BY <1>3 DEF TaskThrows
    <3>2. CircuitIsSound(d)
      BY <2>1, SoundCircuits
    <3> HIDE DEF d
    <3> QED BY <2>1, <3>1, <3>2, OneCircuit
  <2>3. RequestsInv'
    <3>1. req' = [req EXCEPT ![r] = next]
      BY <1>3 DEF TaskThrows
    <3>2. RequestIsSound(next)
      BY <1>0, EntryIsSound, AnsweredIsSound DEF Caught
    <3> HIDE DEF next
    <3> QED BY <3>1, <3>2, OneRequest
  <2> QED BY <1>3, <2>2, <2>3, BudgetsUnchanged, HostsUnchanged DEF TaskThrows, hostVars
<1>4. CASE CallbackEnds(r)
  <2>1. x.task \in {"none", "running", "completed", "failed"}
    BY <1>0 DEF TalkRequest
  <2>2. RequestIsSound(Entry(x, x.task))
    BY <1>0, <2>1, EntryIsSound
  <2>3. req' = [req EXCEPT ![r] = Entry(x, x.task)]
    BY <1>4 DEF CallbackEnds
  <2>4. RequestsInv'
    BY <2>2, <2>3, OneRequest
  <2> QED BY <1>4, <2>4, OnlyRequests DEF CallbackEnds
<1>5. CASE CallbackThrows(r)
  <2>1. x.host \in Hosts /\ x.bot \in Bots /\ CircuitIsSound(c)
    BY <1>1, <1>5 DEF CallbackThrows
  <2>2. CircuitsInv'
    <3>1. circuits' = [circuits EXCEPT ![x.host][x.bot] = RecordFailure(c)]
      BY <1>5 DEF CallbackThrows
    <3>2. CircuitIsSound(RecordFailure(c))
      BY <2>1, SoundCircuits
    <3> QED BY <2>1, <3>1, <3>2, OneCircuit
  <2>3. RequestsInv'
    <3>1. req' = [req EXCEPT ![r] = Caught(x)]
      BY <1>5 DEF CallbackThrows
    <3>2. RequestIsSound(Caught(x))
      BY <1>0, EntryIsSound DEF Caught
    <3> QED BY <3>1, <3>2, OneRequest
  <2> QED BY <1>5, <2>2, <2>3, BudgetsUnchanged, HostsUnchanged DEF CallbackThrows, hostVars
<1> QED BY <1>2, <1>3, <1>4, <1>5 DEF TaskOf

LEMMA CrashStep ==
  ASSUME TalkInv, NEW h \in Hosts, HostCrashes(h)
  PROVE  TalkInv'
<1> USE DEF TalkInv
<1> DEFINE after(r) == IF req[r].host = h THEN Blank
                       ELSE IF req[r].child # Absent /\ req[req[r].child].host = h
                         THEN Answered(req[r], "badgateway")
                       ELSE req[r]
<1>1. req' = [r \in Reqs |-> after(r)]
  BY DEF HostCrashes
<1>2. ASSUME NEW r \in Reqs PROVE RequestIsSound(after(r)) /\ after(r) \in TalkRequest
  <2>1. req[r] \in TalkRequest /\ RequestIsSound(req[r])
    BY DEF RequestsInv
  <2>2. RequestIsSound(after(r))
    BY <2>1, BlankIsSound, AnsweredIsSound
  <2> QED BY <2>2 DEF RequestIsSound
<1>3. RequestsInv'
  <2> HIDE DEF after
  <2>1. \A r \in Reqs : req'[r] = after(r)
    BY <1>1
  <2>2. req' \in [Reqs -> TalkRequest]
    BY <1>1, <1>2
  <2> QED BY <1>2, <2>1, <2>2 DEF RequestsInv, RequestIsSound
<1>4. hostUp' = [hostUp EXCEPT ![h] = FALSE] /\ saveTimer' = [saveTimer EXCEPT ![h] = FALSE]
  BY DEF HostCrashes
<1>5. BudgetsInv'
  <2>1. hostUp' \in [Hosts -> BOOLEAN] /\ saveTimer' \in [Hosts -> BOOLEAN]
    BY <1>4 DEF BudgetsInv
  <2>2. \A g \in Hosts : hostUp'[g] => hostUp[g] /\ g # h /\ saveTimer'[g] = saveTimer[g]
    BY <1>4 DEF BudgetsInv
  <2>3. UNCHANGED <<budgets, budgetsFile>>
    BY DEF HostCrashes
  <2>4. CostsSurvive'
    BY <2>2, <2>3 DEF BudgetsInv, CostsSurvive
  <2> QED BY <2>1, <2>3, <2>4 DEF BudgetsInv
<1>6. RegistryInv'
  <2>1. UNCHANGED <<config, registry>>
    BY DEF HostCrashes
  <2>2. hostUp' \in [Hosts -> BOOLEAN] /\ \A g \in Hosts : hostUp'[g] => hostUp[g]
    BY <1>4 DEF BudgetsInv
  <2> QED BY <2>1, <2>2 DEF RegistryInv, RegistryWithinConfig
<1> QED BY <1>3, <1>5, <1>6, CircuitsUnchanged DEF HostCrashes

LEMMA RestartStep ==
  ASSUME TalkInv, NEW h \in Hosts, HostRestarts(h)
  PROVE  TalkInv'
<1> USE DEF TalkInv
<1>1. /\ hostUp' = [hostUp EXCEPT ![h] = TRUE] /\ budgets' = [budgets EXCEPT ![h] = budgetsFile[h]]
      /\ circuits' = [circuits EXCEPT ![h] = [b \in Bots |-> NewCircuit]]
      /\ UNCHANGED <<req, saveTimer, budgetsFile, config>>
  BY DEF HostRestarts
<1>2. PICK started \in SUBSET config[h] : registry' = [registry EXCEPT ![h] = started]
  BY DEF HostRestarts
<1>3. CircuitsInv'
  <2>1. NewCircuit \in Circuit
    BY NewIsSound DEF CircuitIsSound
  <2>2. circuits' \in [Hosts -> [Bots -> Circuit]]
    BY <1>1, <2>1 DEF CircuitsInv
  <2>3. \A g \in Hosts, b \in Bots : circuits'[g][b] = IF g = h THEN NewCircuit ELSE circuits[g][b]
    BY <1>1 DEF CircuitsInv
  <2> QED BY <2>2, <2>3, NewIsSound, EachCircuit, EachCircuitNext
<1>4. BudgetsInv'
  <2>1. budgets' \in [Hosts -> [Bots -> BudgetOf]] /\ hostUp' \in [Hosts -> BOOLEAN]
    BY <1>1 DEF BudgetsInv
  <2>2. \A g \in Hosts : budgets'[g] = IF g = h THEN budgetsFile[g] ELSE budgets[g]
    BY <1>1 DEF BudgetsInv
  <2>3. \A g \in Hosts : g # h => hostUp'[g] = hostUp[g]
    BY <1>1 DEF BudgetsInv
  <2>4. CostsSurvive'
    BY <1>1, <2>2, <2>3 DEF BudgetsInv, CostsSurvive
  <2> QED BY <1>1, <2>1, <2>4 DEF BudgetsInv
<1>5. RegistryInv'
  <2>1. config[h] \in SUBSET Bots
    BY DEF RegistryInv
  <2>2. registry' \in [Hosts -> SUBSET Bots] /\ hostUp' \in [Hosts -> BOOLEAN]
    BY <1>1, <1>2, <2>1 DEF RegistryInv
  <2>3. \A g \in Hosts : registry'[g] = IF g = h THEN started ELSE registry[g]
    BY <1>2 DEF RegistryInv
  <2>4. \A g \in Hosts : g # h => hostUp'[g] = hostUp[g]
    BY <1>1 DEF RegistryInv
  <2> QED BY <1>1, <1>2, <2>2, <2>3, <2>4 DEF RegistryInv, RegistryWithinConfig
<1> QED BY <1>1, <1>3, <1>4, <1>5, RequestsUnchanged

LEMMA EnvironmentStep == TalkInv /\ Environment => TalkInv'
<1> SUFFICES ASSUME TalkInv, Environment PROVE TalkInv'
  OBVIOUS
<1> USE DEF TalkInv
<1>1. ASSUME NEW h \in Hosts, Polls(h) PROVE TalkInv'
  <2>1. PICK p \in Hosts : RefreshPeer(h, p)
    BY <1>1 DEF Polls
  <2>2. UNCHANGED <<req, circuits, budgets, saveTimer, budgetsFile, config, registry, hostUp>>
    BY <2>1 DEF RefreshPeer
  <2>3. RegistryInv'
    BY <2>2 DEF RegistryInv, RegistryWithinConfig
  <2> QED BY <2>2, <2>3, RequestsUnchanged, CircuitsUnchanged, BudgetsUnchanged
<1>2. ASSUME NEW h \in Hosts, NEW b \in Bots, CircuitAges(h, b) PROVE TalkInv'
  <2> DEFINE c == circuits[h][b]
             d == [c EXCEPT !.age = c.age + 1]
  <2>1. c.state = "open" /\ c.age < ResetTimeout /\ CircuitIsSound(c)
    BY <1>2, EachCircuit DEF CircuitAges
  <2>2. CircuitIsSound(d)
    BY <2>1, SoundCircuits
  <2>3. circuits' = [circuits EXCEPT ![h][b] = d]
    BY <1>2 DEF CircuitAges, CircuitsInv
  <2> HIDE DEF d
  <2>4. CircuitsInv'
    BY <2>2, <2>3, OneCircuit
  <2> QED BY <1>2, <2>4, RequestsUnchanged, BudgetsUnchanged, HostsUnchanged DEF CircuitAges, hostVars
<1> QED BY <1>1, <1>2, CrashStep, RestartStep DEF Environment

LEMMA SaveStep ==
  ASSUME TalkInv, NEW h \in Hosts, Save(h)
  PROVE  TalkInv'
<1> USE DEF TalkInv
<1>1. /\ saveTimer' = [saveTimer EXCEPT ![h] = FALSE] /\ budgetsFile' = [budgetsFile EXCEPT ![h] = budgets[h]]
      /\ UNCHANGED <<req, circuits, budgets, hostVars>>
  BY DEF Save
<1>2. BudgetsInv'
  <2>1. saveTimer' \in [Hosts -> BOOLEAN] /\ budgetsFile' \in [Hosts -> [Bots -> BudgetOf]]
    BY <1>1 DEF BudgetsInv
  <2>2. \A g \in Hosts : IF g = h THEN budgetsFile'[g] = budgets[g]
                         ELSE budgetsFile'[g] = budgetsFile[g] /\ saveTimer'[g] = saveTimer[g]
    BY <1>1 DEF BudgetsInv
  <2>3. UNCHANGED <<budgets, hostUp>>
    BY <1>1 DEF hostVars
  <2>4. CostsSurvive'
    BY <2>2, <2>3 DEF BudgetsInv, CostsSurvive
  <2> QED BY <2>1, <2>3, <2>4 DEF BudgetsInv
<1> QED BY <1>1, <1>2, RequestsUnchanged, CircuitsUnchanged, HostsUnchanged

LEMMA TalkStep == TalkInv /\ [TalkNext]_talkVars => TalkInv'
<1> SUFFICES ASSUME TalkInv, [TalkNext]_talkVars PROVE TalkInv'
  OBVIOUS
<1>1. CASE Administrators
  BY <1>1, AdministratorsStep
<1>2. CASE Clients
  BY <1>2, ClientsStep
<1>3. CASE Environment
  BY <1>3, EnvironmentStep
<1>4. CASE \E h \in Hosts : Save(h)
  BY <1>4, SaveStep
<1>5. CASE \E r \in Reqs : TaskOf(r) \/ Forward(r) \/ Forgotten(r)
  <2>1. PICK r \in Reqs : TaskOf(r) \/ Forward(r) \/ Forgotten(r)
    BY <1>5
  <2>2. CASE Forgotten(r)
    <3>1. req' = [req EXCEPT ![r] = Blank]
      BY <2>2 DEF Forgotten
    <3>2. RequestsInv'
      BY <3>1, BlankIsSound, OneRequest DEF TalkInv
    <3> QED BY <2>2, <3>2, OnlyRequests DEF Forgotten
  <2> QED BY <2>1, <2>2, TaskStep, ForwardStep
<1>6. CASE UNCHANGED talkVars
  <2>1. UNCHANGED <<req, circuits, budgets, saveTimer, budgetsFile, hostVars>>
    BY <1>6 DEF talkVars
  <2>2. RequestsInv'
    BY <2>1, RequestsUnchanged DEF TalkInv
  <2> QED BY <2>1, <2>2, OnlyRequests
<1> QED BY <1>1, <1>2, <1>3, <1>4, <1>5, <1>6 DEF TalkNext

LEMMA TalkStarts == TalkInit => TalkInv
<1> SUFFICES ASSUME TalkInit PROVE TalkInv
  OBVIOUS
<1> USE DEF TalkInit, HostsStart
<1>1. RequestsInv
  BY BlankIsSound DEF RequestsInv
<1>2. CircuitsInv
  <2>1. NewCircuit \in Circuit
    BY NewIsSound DEF CircuitIsSound
  <2>2. circuits \in [Hosts -> [Bots -> Circuit]]
    BY <2>1
  <2>3. \A h \in Hosts, b \in Bots : circuits[h][b] = NewCircuit
    OBVIOUS
  <2> QED BY <2>2, <2>3, NewIsSound, EachCircuit
<1>3. BudgetsInv
  <2>1. << >> \in Seq(Day)
    BY EmptySeq
  <2>2. NewBudget \in BudgetOf
    BY <2>1 DEF NewBudget, BudgetOf
  <2>3. budgets \in [Hosts -> [Bots -> BudgetOf]] /\ budgetsFile = budgets
    BY <2>2
  <2> QED BY <2>3 DEF BudgetsInv, CostsSurvive
<1>4. RegistryInv
  BY DEF RegistryInv, RegistryWithinConfig
<1> QED BY <1>1, <1>2, <1>3, <1>4 DEF TalkInv

\* What TalkInv says is more than HostsAreSound.
LEMMA TalkInvIsEnough == TalkInv => HostsAreSound
<1> SUFFICES ASSUME TalkInv PROVE HostsAreSound
  OBVIOUS
<1>1. NoForwardLoop
  BY DEF TalkInv, RequestsInv, RequestIsSound, TalkRequest, NoForwardLoop
<1>2. TalkTypeOK
  <2>1. \A h \in Hosts, b \in Bots : budgets[h][b].spent \in Nat /\ budgetsFile[h][b].spent \in Nat
    BY DEF TalkInv, BudgetsInv, BudgetOf
  <2>2. req \in [Reqs -> TalkRequest] /\ \A r \in Reqs : req[r].at = "waiting" <=> req[r].child # Absent
    BY DEF TalkInv, RequestsInv, RequestIsSound
  <2> QED BY <2>1, <2>2 DEF TalkInv, CircuitsInv, RegistryInv, TalkTypeOK
<1> QED BY <1>1, <1>2 DEF TalkInv, CircuitsInv, BudgetsInv, RegistryInv, HostsAreSound

\* On hosts that are each other's peers (task-routes.ts, circuit-breaker.ts,
\* budget-manager.ts, peer-manager.ts, bots-config-writer.ts), for all hosts, bots
\* and requests: a circuit keeps its thresholds, a crash loses no cost but those
\* of the last two seconds, no request is passed on twice, and no bot runs that is
\* not in the file.
THEOREM HostsStaySound == TalkSpec => []HostsAreSound
<1> QED BY TalkStarts, TalkStep, TalkInvIsEnough, PTL DEF TalkSpec
=============================================================================
