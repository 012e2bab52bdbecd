--------------------------- MODULE MCTaskScheduler --------------------------
(* Instances of TaskScheduler for TLC.  ran remembers the tasks that began   *)
(* to run, across restarts; overlapped remembers that a recurring task was   *)
(* given a timer while an occurrence of it was under way.                    *)
EXTENDS TaskScheduler, TLC

Ids == Permutations(TaskIds)

VARIABLES ran, overlapped

Created(i) == up /\ Free(i) /\ tasks'[i].status \in {"pending", "executing"}

MCInit == Init /\ ran = {} /\ overlapped = FALSE
MCNext ==
  /\ Next
  /\ ran' = {i \in TaskIds : \/ tasks'[i].status = "executing"
                             \/ i \in ran /\ ~Created(i)}
  /\ overlapped' = \/ overlapped
                   \/ \E i \in awaiting \cap awaiting', r \in Recs :
                        tasks[i].parent = r /\ recurringTimers'[r] # NoTimer
MCSpec == MCInit /\ [][MCNext]_<<vars, ran, overlapped>>

\* A task runs at most once: one the process died under is not run again.
RunsOnce == \A i \in ran : tasks[i].status # "pending"

\* A recurring task has one timer or one occurrence under way, never both.
OneOccurrence ==
  overlapped \/ \A r \in Recs :
    LET timersOf == StillRunning(r)
        fires    == {i \in awaiting : tasks[i].parent = r}
    IN Cardinality(timersOf) + Cardinality(fires) <= 1

\* Nothing runs before its time, waits beyond the limit of setTimeout included
\* where the code cuts them.
NeverEarly ==
  [][ /\ \A i \in TaskIds : tasks[i].status = "pending" /\ tasks'[i].status = "executing"
                              => tasks[i].due <= 0
      /\ \A i \in TaskIds, r \in Recs : Created(i) /\ tasks'[i].parent = r
                              => recurringTasks[r].wait = 0 \/ overlapped ]_vars
=============================================================================
