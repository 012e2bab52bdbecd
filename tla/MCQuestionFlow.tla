--------------------------- MODULE MCQuestionFlow ---------------------------
(* Instances of QuestionFlow for TLC.  raced remembers that a call was       *)
(* settled while the loop still had its cards under way, or that the loop    *)
(* took up a call while an answer was being delivered.                       *)
EXTENDS QuestionFlow, TLC

CONSTANTS q1, q2
VARIABLE raced

OneAndTwo == (q1 :> 1) @@ (q2 :> 2)

MCInit == Init /\ raced = FALSE
MCNext ==
  /\ Next
  /\ raced' = \/ raced
              \/ loop = "showing" /\ pending # NoQuestion /\ pending' # pending
              \/ loop # "showing" /\ loop' = "showing" /\ answering # {}
MCSpec == MCInit /\ [][MCNext]_<<vars, raced>> /\ Fairness

\* A timer that fires although the task has taken up another call, or that was
\* left behind by another timer, finds no call to answer.
StartedForIt ==
  (leaked' < leaked \/ (timer = "stale" /\ timer' = "none" /\ texts' = texts /\ loop' = loop
                         /\ aborted' = aborted))
    => pending = NoQuestion \/ raced

\* Whoever answers in the user's place is a timer started for the call: no timer
\* of an earlier call cuts its five minutes short.
NoEarlyTimeout == [][StartedForIt]_<<vars, raced>>
=============================================================================
