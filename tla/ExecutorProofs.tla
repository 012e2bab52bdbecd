--------------------------- MODULE ExecutorProofs ---------------------------
(***************************************************************************)
(* Proofs about the executor that lives as long as its chat, and about     *)
(* which conversation a turn continues.  PersistentExecutor, for every     *)
(* number of turns, questions and restarts, and every bound on the wire:   *)
(* one turn at a time, an idle timer, the end of an executor and its       *)
(* hooks; then that turns do not see each other's messages, and an aborted *)
(* turn leaves nothing behind, as long as the SDK only works on what it    *)
(* was prompted for: it opens no burst of its own and no late answer       *)
(* prompts it.  Sessions, for every number of chats, engines and           *)
(* conversations and every order of turns, commands, evictions and         *)
(* restarts: a turn continues a conversation of its own engine, none the   *)
(* user left, and the one it is expected to, unless a pooled executor is   *)
(* taken as it is or the id was written back.  TaskOutputs, for all tasks, *)
(* files, retries and updates of cards: a task leaves its files and its    *)
(* result in the chat.                                                     *)
(***************************************************************************)
EXTENDS PersistentExecutor, Sessions, TaskOutputs, SequenceTheorems, TLAPS

(* The executor: type correctness. ******************************************)

\* AsyncQueue.enqueue and the end of start() keep the types.
LEMMA EnqueueType ==
  ASSUME TypeOK, NEW owner \in Owners, Enqueue(owner)
  PROVE  inputQueue' \in [items : Seq(Owners), finished : BOOLEAN]
<1>1. Append(inputQueue.items, owner) \in Seq(Owners)
  BY AppendProperties DEF TypeOK
<1> QED BY <1>1 DEF TypeOK, Enqueue

LEMMA QueryStartsType ==
  ASSUME QueryStarts
  PROVE  /\ sdk' \in [status : {"none", "running", "exited", "failed"}, burst : Owners \cup {NoOwner}]
         /\ wire' \in Seq(Message)
         /\ consumeLoop' \in {"running", "restarting", "exited"}
         /\ idleTimer' \in BOOLEAN
BY DEF QueryStarts

LEMMA NewTurnType ==
  ASSUME NEW cont \in BOOLEAN, NEW got \in SUBSET Owners
  PROVE  NewTurn(cont, got) \in Turn
BY DEF NewTurn, Turn

\* What the handlers of consumeLoop and abort() do to a turn.
LEMMA TurnUpdates ==
  ASSUME NEW f \in [TurnIds -> Turn], NEW t \in TurnIds, NEW owner \in Owners
  PROVE  /\ [f EXCEPT ![t].detached = TRUE, ![t].finished = TRUE] \in [TurnIds -> Turn]
         /\ [f EXCEPT ![t].completed = TRUE, ![t].drained = TRUE] \in [TurnIds -> Turn]
         /\ [f EXCEPT ![t].got = @ \cup {owner}] \in [TurnIds -> Turn]
         /\ [f EXCEPT ![t].got = @ \cup {owner},
                      ![t].completed = TRUE, ![t].finished = TRUE] \in [TurnIds -> Turn]
<1>1. [f EXCEPT ![t].detached = TRUE, ![t].finished = TRUE] \in [TurnIds -> Turn]
  BY DEF Turn
<1>2. [f EXCEPT ![t].completed = TRUE, ![t].drained = TRUE] \in [TurnIds -> Turn]
  BY DEF Turn
<1>3. [f EXCEPT ![t].got = @ \cup {owner}] \in [TurnIds -> Turn]
  BY DEF Turn
<1>4. [f EXCEPT ![t].got = @ \cup {owner},
                ![t].completed = TRUE, ![t].finished = TRUE] \in [TurnIds -> Turn]
  BY ZenonT(60) DEF Turn
<1> QED BY <1>1, <1>2, <1>3, <1>4

\* The first message of a burst nobody prompted for belongs to its owner.
LEMMA HeadType ==
  ASSUME TypeOK, Receives
  PROVE  wire' \in Seq(Message) /\ Head(wire) \in Message
BY HeadTailProperties DEF TypeOK, Receives

LEMMA TypeInit == Init => TypeOK
<1> SUFFICES ASSUME Init PROVE TypeOK
  OBVIOUS
<1> USE BoundsAssumption
<1>1. turns \in [TurnIds -> Turn]
  BY NewTurnType DEF Init
<1>2. /\ turnCounter \in 0..MaxTurns
      /\ restartAttempts \in 0..MaxRestartAttempts
  BY DEF Init
<1>3. /\ inputQueue \in [items : Seq(Owners), finished : BOOLEAN]
      /\ wire \in Seq(Message)
  BY EmptySeq DEF Init
<1> QED BY <1>1, <1>2, <1>3 DEF Init, TypeOK, ExecutorState

LEMMA TypeStep == TypeOK /\ [Next]_vars => TypeOK'
<1> SUFFICES ASSUME TypeOK, [Next]_vars PROVE TypeOK'
  OBVIOUS
<1> USE BoundsAssumption
<1> USE DEF TypeOK, ExecutorState, NoTurn
<1>1. CASE Start
  BY <1>1, QueryStartsType DEF Start, turnVars, hookVars
<1>2. CASE Shutdown
  BY <1>2 DEF Shutdown, BeginShutdown, turnVars, hookVars, sdkVars
<1>3. CASE ShutdownReturns
  BY <1>3 DEF ShutdownReturns, turnVars, hookVars, sdkVars
<1>4. CASE IdleTimerFires
  BY ZenonT(60), <1>4 DEF IdleTimerFires, BeginShutdown, turnVars, hookVars, sdkVars, lifeVars
<1>5. CASE RestartWindowPasses
  BY ZenonT(60), <1>5 DEF RestartWindowPasses, turnVars, hookVars, sdkVars
<1>6. CASE NextTurn
  <2>1. turnCounter' \in TurnIds /\ turnCounter' \in 0..MaxTurns
    BY <1>6 DEF NextTurn, TurnIds
  <2>2. turns' \in [TurnIds -> Turn]
    BY <1>6, <2>1, NewTurnType DEF NextTurn
  <2>3. inputQueue' \in [items : Seq(Owners), finished : BOOLEAN]
    BY <1>6, <2>1, EnqueueType DEF NextTurn, Owners
  <2> QED BY <1>6, <2>1, <2>2, <2>3 DEF NextTurn, hookVars, lifeVars, sdkVars
<1>7. ASSUME NEW t \in TurnIds, Abort(t) PROVE TypeOK'
  <2>1. turns' \in [TurnIds -> Turn]
    BY <1>7, TurnUpdates DEF Abort, Owners, Others
  <2> QED BY <1>7, <2>1 DEF Abort, hookVars, lifeVars, sdkVars
<1>8. ASSUME NEW t \in TurnIds, InterruptReturns(t) PROVE TypeOK'
  BY <1>8 DEF InterruptReturns, hookVars, lifeVars, sdkVars
<1>9. ASSUME NEW t \in TurnIds, AbortReturns(t) PROVE TypeOK'
  BY <1>9 DEF AbortReturns, hookVars, lifeVars, sdkVars
<1>10. ASSUME NEW q \in Questions, QuestionAsked(q) PROVE TypeOK'
  BY <1>10 DEF QuestionAsked, turnVars, lifeVars, sdkVars
<1>11. ASSUME NEW q \in Questions, ResolveQuestion(q) PROVE TypeOK'
  <2>1. inputQueue' \in [items : Seq(Owners), finished : BOOLEAN]
    BY <1>11, EnqueueType DEF ResolveQuestion, Owners, Others
  <2> QED BY <1>11, <2>1 DEF ResolveQuestion, turnVars, lifeVars, sdkVars
<1>12. ASSUME NEW q \in Questions, QuestionTimesOut(q) PROVE TypeOK'
  BY <1>12 DEF QuestionTimesOut, turnVars, lifeVars, sdkVars
<1>13. ASSUME NEW q \in Questions, QuestionAborted(q) PROVE TypeOK'
  BY <1>13 DEF QuestionAborted, turnVars, lifeVars, sdkVars
<1>14. CASE TeamHook
  BY <1>14 DEF TeamHook, turnVars, hookVars, lifeVars, sdkVars
<1>15. CASE Forward
  <2>1. turns' \in [TurnIds -> Turn]
    <3>1. activeTurn \in TurnIds /\ Head(wire).owner \in Owners
      BY <1>15, HeadType DEF Forward, Message
    <3>2. CASE Head(wire).type = "result"
      <4>1. turns' = [turns EXCEPT ![activeTurn].got = @ \cup {Head(wire).owner},
                                   ![activeTurn].completed = TRUE,
                                   ![activeTurn].finished = TRUE]
        BY <1>15, <3>2 DEF Forward
      <4> QED BY <3>1, <4>1, TurnUpdates
    <3>3. CASE Head(wire).type # "result"
      <4>1. turns' = [turns EXCEPT ![activeTurn].got = @ \cup {Head(wire).owner}]
        BY <1>15, <3>3 DEF Forward
      <4> QED BY <3>1, <4>1, TurnUpdates
    <3> QED BY <3>2, <3>3
  <2> QED BY ZenonT(60), <1>15, HeadType, <2>1 DEF Forward, hookVars, lifeVars
<1>16. CASE Drain
  <2>1. turns' \in [TurnIds -> Turn]
    <3>1. activeTurn \in TurnIds /\ Answer \in Owners
      BY <1>16 DEF Drain, Owners, Others
    <3>2. CASE turns' = [turns EXCEPT ![activeTurn].completed = TRUE,
                                      ![activeTurn].drained = TRUE]
      BY <3>1, <3>2, TurnUpdates
    <3>3. CASE turns' = turns
      BY <3>3
    <3> QED BY <1>16, <3>2, <3>3 DEF Drain
  <2> QED BY ZenonT(60), <1>16, HeadType, <2>1 DEF Drain, hookVars, lifeVars
<1>17. CASE OpenContinuation
  <2>1. turnCounter' \in TurnIds /\ turnCounter' \in 0..MaxTurns
    BY <1>17 DEF OpenContinuation, TurnIds
  <2>2. turns' \in [TurnIds -> Turn]
    BY <1>17, <2>1, HeadType, NewTurnType DEF OpenContinuation, Message
  <2> QED BY ZenonT(60), <1>17, HeadType, <2>1, <2>2 DEF OpenContinuation, hookVars, lifeVars
<1>18. CASE BufferSpontaneous
  BY <1>18, HeadType DEF BufferSpontaneous, turnVars, hookVars, lifeVars
<1>19. CASE StreamEnds
  BY <1>19 DEF StreamEnds, turnVars, hookVars, sdkVars
<1>20. CASE StreamErrorsInShutdown
  BY <1>20 DEF StreamErrorsInShutdown, turnVars, hookVars, sdkVars
<1>21. ASSUME LoseActiveTurn
       PROVE  /\ turns' \in [TurnIds -> Turn]
              /\ activeTurn' = NoTurn
              /\ UNCHANGED <<turnCounter, abort>>
  BY <1>21, TurnUpdates DEF LoseActiveTurn, Owners, Others
<1>22. AttemptsSoFar \in 0..MaxRestartAttempts
  BY DEF AttemptsSoFar
<1>23. CASE CrashGivesUp
  BY <1>21, <1>22, <1>23 DEF CrashGivesUp, Crashes, hookVars, sdkVars
<1>24. CASE CrashRestarts
  BY <1>21, <1>22, <1>24, QueryStartsType DEF CrashRestarts, Crashes, hookVars
<1>25. CASE CrashRestartThrows
  BY <1>21, <1>22, <1>25 DEF CrashRestartThrows, Crashes, hookVars, sdkVars
<1>26. CASE RestartRejected
  BY <1>26 DEF RestartRejected, turnVars, hookVars, sdkVars
<1>27. CASE SdkReads
  <2>1. /\ Head(inputQueue.items) \in Owners
        /\ Tail(inputQueue.items) \in Seq(Owners)
    BY <1>27, HeadTailProperties DEF SdkReads
  <2> QED BY <1>27, <2>1 DEF SdkReads, turnVars, hookVars, lifeVars
<1>28. ASSUME NEW owner \in {Spontaneous, Continuation}, SdkSelfPrompts(owner) PROVE TypeOK'
  BY <1>28 DEF SdkSelfPrompts, turnVars, hookVars, lifeVars, Message, Owners, Others
<1>29. ASSUME sdk.burst # NoOwner
       PROVE  sdk.burst \in Owners
  BY <1>29
<1>30. CASE SdkEmits
  BY <1>29, <1>30 DEF SdkEmits, turnVars, hookVars, lifeVars, Message
<1>31. CASE SdkResult
  BY <1>29, <1>31 DEF SdkResult, turnVars, hookVars, lifeVars, Message
<1>32. ASSUME NEW how \in {"exited", "failed"}, SdkStops(how) PROVE TypeOK'
  BY <1>32 DEF SdkStops, turnVars, hookVars, lifeVars
<1>33. CASE UNCHANGED vars
  BY <1>33 DEF vars, turnVars, hookVars, lifeVars, sdkVars
<1> QED
  BY <1>1, <1>2, <1>3, <1>4, <1>5, <1>6, <1>7, <1>8, <1>9, <1>10, <1>11, <1>12, <1>13,
     <1>14, <1>15, <1>16, <1>17, <1>18, <1>19, <1>20, <1>23, <1>24, <1>25, <1>26, <1>27,
     <1>28, <1>30, <1>31, <1>32, <1>33
  DEF Next, TurnNext, HookNext, Consume, Ends, SdkNext

\* The executor's state keeps its types on every path.
THEOREM TypeCorrect == Spec => []TypeOK
BY TypeInit, TypeStep, PTL DEF Spec

(* One turn in flight. ******************************************************)

\* Only detached turns are drained, and a detached turn's stream is over: so a
\* turn that stops being the active one has always been finished.
DetachedIsFinished == \A t \in TurnIds : turns[t].detached => turns[t].finished

OneTurnInv == TypeOK /\ OneTurnInFlight /\ DetachedIsFinished

LEMMA OneTurnInit == Init => OneTurnInv
BY TypeInit DEF Init, OneTurnInv, OneTurnInFlight, DetachedIsFinished, Opened, TurnIds, NewTurn

LEMMA OneTurnStep == OneTurnInv /\ [Next]_vars => OneTurnInv'
<1> SUFFICES ASSUME OneTurnInv, [Next]_vars PROVE OneTurnInv'
  OBVIOUS
<1>1. TypeOK /\ TypeOK' /\ OneTurnInFlight /\ DetachedIsFinished
  BY TypeStep DEF OneTurnInv
<1>2. /\ turns \in [TurnIds -> Turn]
      /\ activeTurn \in TurnIds \cup {NoTurn}
      /\ turnCounter \in 0..MaxTurns
  BY <1>1 DEF TypeOK
<1> USE DEF OneTurnInFlight, DetachedIsFinished, Opened
<1>3. ASSUME UNCHANGED <<activeTurn, turnCounter, turns>>
      PROVE  OneTurnInv'
  BY <1>1, <1>3 DEF OneTurnInv
<1>4. CASE NextTurn
  <2>1. \A t \in TurnIds : Opened(t) => turns[t].finished
    BY <1>1, <1>4 DEF NextTurn, NoTurn, TurnIds
  <2>2. /\ turnCounter' \in TurnIds /\ turnCounter' = turnCounter + 1
        /\ turns' = [turns EXCEPT ![turnCounter'] = NewTurn(FALSE, {})]
        /\ activeTurn' = turnCounter'
    BY <1>2, <1>4, BoundsAssumption DEF NextTurn, TurnIds
  <2>3. /\ ~turns'[turnCounter'].detached
        /\ \A u \in TurnIds \ {turnCounter'} : turns'[u] = turns[u]
    <3>1. ~NewTurn(FALSE, {}).detached
      BY DEF NewTurn
    <3> QED BY <1>2, <2>2, <3>1
  <2>4. \A u \in TurnIds \ {turnCounter'} : u <= turnCounter' => u <= turnCounter
    BY <1>2, <2>2 DEF TurnIds
  <2> QED BY <1>1, <2>1, <2>2, <2>3, <2>4 DEF OneTurnInv
<1>5. CASE OpenContinuation
  <2>1. \A t \in TurnIds : Opened(t) => turns[t].finished
    BY <1>1, <1>5 DEF OpenContinuation, NoTurn, TurnIds
  <2>2. /\ turnCounter' \in TurnIds /\ turnCounter' = turnCounter + 1
        /\ turns' = [turns EXCEPT ![turnCounter'] = NewTurn(TRUE, {Head(wire).owner})]
        /\ activeTurn' = turnCounter'
    BY <1>2, <1>5, BoundsAssumption DEF OpenContinuation, TurnIds
  <2>3. /\ ~turns'[turnCounter'].detached
        /\ \A u \in TurnIds \ {turnCounter'} : turns'[u] = turns[u]
    <3>1. ~NewTurn(TRUE, {Head(wire).owner}).detached
      BY DEF NewTurn
    <3> QED BY <1>2, <2>2, <3>1
  <2>4. \A u \in TurnIds \ {turnCounter'} : u <= turnCounter' => u <= turnCounter
    BY <1>2, <2>2 DEF TurnIds
  <2> QED BY <1>1, <2>1, <2>2, <2>3, <2>4 DEF OneTurnInv
<1>6. ASSUME NEW t \in TurnIds, Abort(t) PROVE OneTurnInv'
  <2>1. /\ turns'[t].finished
        /\ \A u \in TurnIds \ {t} : turns'[u] = turns[u]
        /\ UNCHANGED <<activeTurn, turnCounter>>
    BY <1>2, <1>6 DEF Abort, Turn
  <2> QED BY <1>1, <2>1 DEF OneTurnInv
<1>7. CASE Forward
  <2>1. activeTurn \in TurnIds /\ ~turns[activeTurn].detached
    BY <1>2, <1>7 DEF Forward
  <2>2. CASE Head(wire).type = "result"
    <3>1. /\ turns' = [turns EXCEPT ![activeTurn].got = @ \cup {Head(wire).owner},
                                    ![activeTurn].completed = TRUE,
                                    ![activeTurn].finished = TRUE]
          /\ turnCounter' = turnCounter
      BY <1>7, <2>2 DEF Forward
    <3>2. /\ turns'[activeTurn].finished
          /\ \A u \in TurnIds \ {activeTurn} : turns'[u] = turns[u]
      BY <1>2, <2>1, <3>1 DEF Turn
    <3> QED BY <1>1, <3>1, <3>2 DEF OneTurnInv
  <2>3. CASE Head(wire).type # "result"
    <3>1. /\ turns' = [turns EXCEPT ![activeTurn].got = @ \cup {Head(wire).owner}]
          /\ UNCHANGED <<activeTurn, turnCounter>>
      BY <1>7, <2>3 DEF Forward
    <3>2. \A u \in TurnIds : /\ turns'[u].finished = turns[u].finished
                             /\ turns'[u].detached = turns[u].detached
      BY <1>2, <2>1, <3>1 DEF Turn
    <3> QED BY <1>1, <3>1, <3>2 DEF OneTurnInv
  <2> QED BY <2>2, <2>3
<1>8. CASE Drain
  <2>1. activeTurn \in TurnIds /\ turns[activeTurn].finished
    BY <1>1, <1>2, <1>8 DEF Drain
  <2>2. \A u \in TurnIds : /\ turns'[u].finished = turns[u].finished
                           /\ turns'[u].detached = turns[u].detached
    <3>1. CASE turns' = [turns EXCEPT ![activeTurn].completed = TRUE,
                                      ![activeTurn].drained = TRUE]
      BY <1>2, <2>1, <3>1 DEF Turn
    <3>2. CASE turns' = turns
      BY <3>2
    <3> QED BY <1>8, <3>1, <3>2 DEF Drain
  <2>3. turnCounter' = turnCounter /\ activeTurn' \in {activeTurn, NoTurn}
    BY <1>8 DEF Drain
  <2> QED BY <1>1, <2>1, <2>2, <2>3 DEF OneTurnInv
<1>9. ASSUME LoseActiveTurn PROVE OneTurnInv'
  <2>1. CASE activeTurn = NoTurn
    BY <1>1, <1>9, <2>1 DEF OneTurnInv, LoseActiveTurn
  <2>2. CASE activeTurn # NoTurn
    <3>1. /\ turns' = [turns EXCEPT ![activeTurn].detached = TRUE,
                                    ![activeTurn].finished = TRUE]
          /\ turnCounter' = turnCounter
      BY <1>9, <2>2 DEF LoseActiveTurn
    <3>2. /\ turns'[activeTurn].finished
          /\ \A u \in TurnIds \ {activeTurn} : turns'[u] = turns[u]
      BY <1>2, <2>2, <3>1 DEF Turn
    <3> QED BY <1>1, <3>1, <3>2 DEF OneTurnInv
  <2> QED BY <2>1, <2>2
<1>10. CASE UNCHANGED vars
  BY <1>3, <1>10 DEF vars, turnVars
<1>11. CASE Next
  <2>1. CASE Start \/ Shutdown \/ ShutdownReturns \/ IdleTimerFires \/ RestartWindowPasses
    BY <1>3, <2>1 DEF Start, Shutdown, BeginShutdown, ShutdownReturns, IdleTimerFires,
                      RestartWindowPasses, turnVars
  <2>2. CASE TurnNext
    BY <1>3, <1>4, <1>6, <2>2 DEF TurnNext, InterruptReturns, AbortReturns
  <2>3. CASE HookNext
    BY <1>3, <2>3 DEF HookNext, QuestionAsked, ResolveQuestion, QuestionTimesOut,
                      QuestionAborted, TeamHook, turnVars
  <2>4. CASE Consume
    BY <1>3, <1>5, <1>7, <1>8, <2>4 DEF Consume, BufferSpontaneous, turnVars
  <2>5. CASE Ends
    BY <1>3, <1>9, <2>5 DEF Ends, StreamEnds, StreamErrorsInShutdown, Crashes, CrashGivesUp,
                            CrashRestarts, CrashRestartThrows, RestartRejected, turnVars
  <2>6. CASE SdkNext
    BY <1>3, <2>6 DEF SdkNext, SdkReads, SdkSelfPrompts, SdkEmits, SdkResult, SdkStops, turnVars
  <2> QED BY <1>11, <2>1, <2>2, <2>3, <2>4, <2>5, <2>6 DEF Next
<1> QED BY <1>10, <1>11

\* However turns, aborts, crashes and restarts interleave, at most one turn's
\* stream is open (nextTurn(), consumeLoop).
THEOREM OneTurn == Spec => []OneTurnInFlight
<1>1. OneTurnInv => OneTurnInFlight
  BY DEF OneTurnInv
<1> QED BY <1>1, OneTurnInit, OneTurnStep, PTL DEF Spec

(* The idle timer. **********************************************************)

LEMMA IdleTimerStep == TypeOK /\ IdleExecutorHasTimer /\ [Next]_vars => IdleExecutorHasTimer'
<1> SUFFICES ASSUME TypeOK, IdleExecutorHasTimer, [Next]_vars PROVE IdleExecutorHasTimer'
  OBVIOUS
<1> USE DEF IdleExecutorHasTimer
<1>1. ASSUME UNCHANGED <<state, activeTurn, idleTimer>>
      PROVE  IdleExecutorHasTimer'
  BY <1>1
<1>2. CASE UNCHANGED vars
  BY <1>1, <1>2 DEF vars, turnVars, lifeVars
<1>3. CASE Start \/ Shutdown \/ ShutdownReturns \/ IdleTimerFires \/ RestartWindowPasses
  BY <1>3 DEF Start, QueryStarts, Shutdown, BeginShutdown, ShutdownReturns, IdleTimerFires,
              RestartWindowPasses, turnVars, lifeVars
<1>4. CASE TurnNext
  BY <1>4 DEF TurnNext, NextTurn, Abort, InterruptReturns, AbortReturns, lifeVars
<1>5. CASE HookNext
  BY <1>5 DEF HookNext, QuestionAsked, ResolveQuestion, QuestionTimesOut, QuestionAborted,
              TeamHook, turnVars, lifeVars
<1>6. CASE Consume
  BY <1>6 DEF Consume, Forward, Drain, OpenContinuation, BufferSpontaneous, turnVars, lifeVars
<1>7. CASE Ends
  BY <1>7 DEF Ends, StreamEnds, StreamErrorsInShutdown, Crashes, CrashGivesUp, CrashRestarts,
              QueryStarts, CrashRestartThrows, RestartRejected, turnVars
<1>8. CASE SdkNext
  BY <1>8 DEF SdkNext, SdkReads, SdkSelfPrompts, SdkEmits, SdkResult, SdkStops, turnVars, lifeVars
<1> QED BY <1>2, <1>3, <1>4, <1>5, <1>6, <1>7, <1>8 DEF Next

\* Every path on which the executor becomes idle arms the timer that will
\* reclaim it (armIdleTimer and its callers).
THEOREM IdleTimerArmed == Spec => []IdleExecutorHasTimer
<1>1. Init => IdleExecutorHasTimer
  BY DEF Init, IdleExecutorHasTimer
<1> QED BY <1>1, IdleTimerStep, TypeCorrect, PTL DEF Spec

(* Closed executors. ********************************************************)

\* A restart that may still fail keeps the executor from being closed.
RestartingIsNotClosed == consumeLoop = "restarting" => state \in {"restarting", "shutting_down"}

LEMMA ClosedStep ==
  RestartingIsNotClosed /\ [Next]_vars =>
    /\ RestartingIsNotClosed'
    /\ state = "closed" => state' = "closed"
<1> SUFFICES ASSUME RestartingIsNotClosed, [Next]_vars
             PROVE  /\ RestartingIsNotClosed'
                    /\ state = "closed" => state' = "closed"
  OBVIOUS
<1> USE DEF RestartingIsNotClosed
<1>1. CASE UNCHANGED vars
  BY <1>1 DEF vars, lifeVars
<1>2. CASE Start \/ Shutdown \/ ShutdownReturns \/ IdleTimerFires \/ RestartWindowPasses
  BY <1>2 DEF Start, QueryStarts, Shutdown, BeginShutdown, ShutdownReturns, IdleTimerFires,
              RestartWindowPasses, lifeVars
<1>3. CASE TurnNext
  BY <1>3 DEF TurnNext, NextTurn, Abort, InterruptReturns, AbortReturns, lifeVars
<1>4. CASE HookNext
  BY <1>4 DEF HookNext, QuestionAsked, ResolveQuestion, QuestionTimesOut, QuestionAborted,
              TeamHook, lifeVars
<1>5. CASE Consume
  BY <1>5 DEF Consume, Forward, Drain, OpenContinuation, BufferSpontaneous, lifeVars
<1>6. CASE Ends
  BY <1>6 DEF Ends, StreamOver, StreamEnds, StreamErrorsInShutdown, Crashes, CrashGivesUp,
              CrashRestarts, QueryStarts, CrashRestartThrows, RestartRejected
<1>7. CASE SdkNext
  BY <1>7 DEF SdkNext, SdkReads, SdkSelfPrompts, SdkEmits, SdkResult, SdkStops, lifeVars
<1> QED BY <1>1, <1>2, <1>3, <1>4, <1>5, <1>6, <1>7 DEF Next

\* Nothing revives a closed executor: not a stream that fails late, not a
\* restart that was under way (shutdown(), consumeLoop, maybeRestart).
THEOREM ClosedStaysClosed == Spec => ClosedIsFinal
<1>1. Init => RestartingIsNotClosed
  BY DEF Init, RestartingIsNotClosed
<1>2. RestartingIsNotClosed /\ [Next]_vars => [state = "closed" => state' = "closed"]_vars
  BY ClosedStep
<1> QED BY <1>1, <1>2, ClosedStep, PTL DEF Spec, ClosedIsFinal

(* Question hooks. **********************************************************)

LEMMA ResolverStep == TypeOK /\ ResolverWhileWaiting /\ [Next]_vars => ResolverWhileWaiting'
<1> SUFFICES ASSUME TypeOK, ResolverWhileWaiting, [Next]_vars PROVE ResolverWhileWaiting'
  OBVIOUS
<1>0. hook \in [Questions -> {"none", "waiting", "answered", "empty"}]
  BY DEF TypeOK
<1> USE DEF ResolverWhileWaiting
<1>1. ASSUME UNCHANGED hookVars PROVE ResolverWhileWaiting'
  BY <1>1 DEF hookVars
<1>2. CASE UNCHANGED vars
  BY <1>1, <1>2 DEF vars
<1>3. CASE HookNext
  BY <1>0, <1>1, <1>3 DEF HookNext, QuestionAsked, ResolveQuestion, QuestionTimesOut,
                          QuestionAborted, TeamHook
<1>4. CASE Start \/ Shutdown \/ ShutdownReturns \/ IdleTimerFires \/ RestartWindowPasses
  BY <1>1, <1>4 DEF Start, Shutdown, BeginShutdown, ShutdownReturns, IdleTimerFires,
                    RestartWindowPasses
<1>5. CASE TurnNext
  BY <1>1, <1>5 DEF TurnNext, NextTurn, Abort, InterruptReturns, AbortReturns
<1>6. CASE Consume
  BY <1>1, <1>6 DEF Consume, Forward, Drain, OpenContinuation, BufferSpontaneous
<1>7. CASE Ends
  BY <1>1, <1>7 DEF Ends, StreamEnds, StreamErrorsInShutdown, CrashGivesUp, CrashRestarts,
                    CrashRestartThrows, RestartRejected
<1>8. CASE SdkNext
  BY <1>1, <1>8 DEF SdkNext, SdkReads, SdkSelfPrompts, SdkEmits, SdkResult, SdkStops
<1> QED BY <1>2, <1>3, <1>4, <1>5, <1>6, <1>7, <1>8 DEF Next

\* No hook waits that resolveQuestion() cannot reach, and no resolver is left
\* behind by a hook that timed out or was aborted (askUserQuestionHook).
THEOREM ResolversMatchHooks == Spec => []ResolverWhileWaiting
<1>1. Init => ResolverWhileWaiting
  BY DEF Init, ResolverWhileWaiting
<1> QED BY <1>1, ResolverStep, TypeCorrect, PTL DEF Spec

-----------------------------------------------------------------------------
(* Turns are isolated. ******************************************************)

Quiet == inputQueue.items = <<>> /\ sdk.burst = NoOwner /\ wire = <<>>

\* Work of that owner is anywhere between nextTurn() and consumeLoop.
InPipe(owner) ==
  \/ sdk.burst = owner
  \/ \E i \in 1..Len(wire) : wire[i].owner = owner
  \/ \E i \in 1..Len(inputQueue.items) : inputQueue.items[i] = owner

\* A prompt, then a burst, then its result: only one of them at a time, and
\* nothing follows a result.
PromptThenBurst ==
  /\ Len(inputQueue.items) <= 1
  /\ inputQueue.items # <<>> => sdk.burst = NoOwner /\ wire = <<>>

ResultIsLast ==
  \A i \in 1..Len(wire) :
    /\ wire[i].type # "task-notification"
    /\ wire[i].type = "result" =>
         i = Len(wire) /\ sdk.burst = NoOwner /\ inputQueue.items = <<>>

\* All of the pipe is the active turn's.
PipeIsActive ==
  /\ \A owner \in Owners : InPipe(owner) /\ activeTurn # NoTurn => owner = activeTurn
  /\ activeTurn = NoTurn /\ consumeLoop = "running" => Quiet

\* A prompt and the SDK need a consumer; start() finds the queue empty, and a
\* process that stopped works on nothing.
SomebodyConsumes ==
  /\ state = "ready" \/ sdk.status = "running" => consumeLoop = "running"
  /\ state = "starting" => inputQueue.items = <<>>
  /\ sdk.status # "running" => sdk.burst = NoOwner

DrainedIsGone == \A t \in TurnIds : InPipe(t) => ~turns[t].drained

IsolationInv ==
  /\ TypeOK
  /\ PromptThenBurst /\ ResultIsLast /\ PipeIsActive
  /\ SomebodyConsumes /\ DrainedIsGone /\ TurnIsolation

OnlyPrompted == SdkInitiates = FALSE /\ Questions = {}

(* Steps that leave the pipe alone, and steps that leave it empty. **********)

LEMMA PipeUntouched ==
  ASSUME IsolationInv, TypeOK', SomebodyConsumes',
         sdk'.burst = sdk.burst, wire' = wire, inputQueue'.items = inputQueue.items,
         activeTurn' \in {activeTurn, NoTurn},
         activeTurn' = NoTurn /\ consumeLoop' = "running" =>
           activeTurn = NoTurn /\ consumeLoop = "running",
         \A t \in TurnIds : /\ turns'[t].cont = turns[t].cont
                            /\ turns'[t].got = turns[t].got
                            /\ turns'[t].drained = turns[t].drained
  PROVE  IsolationInv'
<1>1. PromptThenBurst' /\ ResultIsLast'
  BY DEF IsolationInv, PromptThenBurst, ResultIsLast
<1>2. \A owner : InPipe(owner)' <=> InPipe(owner)
  BY DEF InPipe
<1>3. PipeIsActive'
  BY <1>2 DEF IsolationInv, PipeIsActive, Quiet
<1>4. DrainedIsGone' /\ TurnIsolation'
  BY <1>2 DEF IsolationInv, DrainedIsGone, TurnIsolation
<1> QED BY <1>1, <1>3, <1>4 DEF IsolationInv

LEMMA QuietIsIsolated ==
  ASSUME TypeOK, SomebodyConsumes, Quiet, TurnIsolation
  PROVE  IsolationInv
<1>1. \A owner \in Owners : ~InPipe(owner)
  BY OwnersAssumption DEF Quiet, InPipe, Owners, TurnIds
<1>2. \A t \in TurnIds : ~InPipe(t)
  BY <1>1 DEF Owners
<1>3. PromptThenBurst /\ ResultIsLast
  BY DEF Quiet, PromptThenBurst, ResultIsLast
<1> QED BY <1>1, <1>2, <1>3 DEF IsolationInv, PipeIsActive, DrainedIsGone

LEMMA IsolationInit == Init => IsolationInv
<1> SUFFICES ASSUME Init PROVE IsolationInv
  OBVIOUS
<1>1. SomebodyConsumes /\ Quiet
  BY DEF Init, SomebodyConsumes, Quiet
<1>2. TurnIsolation
  BY DEF Init, TurnIsolation, NewTurn
<1> QED BY <1>1, <1>2, TypeInit, QuietIsIsolated

(* The steps that move a turn's work along the pipe. ************************)

\* nextTurn() finds the pipe empty and puts one prompt into it.
LEMMA NextTurnIsolated == IsolationInv /\ TypeOK' /\ NextTurn => IsolationInv'
<1> SUFFICES ASSUME IsolationInv, TypeOK', NextTurn PROVE IsolationInv'
  OBVIOUS
<1> DEFINE new == turnCounter + 1
<1>1. /\ new \in TurnIds /\ activeTurn' = new
      /\ turns' = [turns EXCEPT ![new] = NewTurn(FALSE, {})]
      /\ UNCHANGED <<state, consumeLoop, sdk, wire>>
  BY BoundsAssumption DEF NextTurn, IsolationInv, TypeOK, TurnIds, lifeVars, sdkVars
<1>2. Quiet /\ activeTurn = NoTurn /\ state = "ready"
  <2>1. activeTurn = NoTurn /\ state = "ready"
    BY DEF NextTurn
  <2>2. consumeLoop = "running"
    BY <2>1 DEF IsolationInv, SomebodyConsumes
  <2> QED BY <2>1, <2>2 DEF IsolationInv, PipeIsActive
<1>3. inputQueue'.items \in {<<>>, <<new>>}
  <2>1. Append(<<>>, new) = <<new>>
    OBVIOUS
  <2>2. inputQueue.items = <<>> /\ inputQueue \in [items : Seq(Owners), finished : BOOLEAN]
    BY <1>2 DEF Quiet, IsolationInv, TypeOK
  <2>3. Enqueue(new)
    BY DEF NextTurn
  <2> QED BY <2>1, <2>2, <2>3 DEF Enqueue
<1>4. turns \in [TurnIds -> Turn]
  BY DEF IsolationInv, TypeOK
<1>5. /\ \A t \in TurnIds \ {new} : turns'[t] = turns[t]
      /\ turns'[new].got = {} /\ turns'[new].drained = FALSE
  <2>1. turns'[new] = NewTurn(FALSE, {})
    BY <1>1, <1>4
  <2> QED BY <1>1, <1>4, <2>1 DEF NewTurn
<1>6. /\ sdk'.burst = NoOwner /\ wire' = <<>> /\ Len(wire') = 0
      /\ Len(inputQueue'.items) <= 1
      /\ \A i \in 1..Len(inputQueue'.items) : inputQueue'.items[i] = new
  <2>1. sdk'.burst = NoOwner /\ wire' = <<>> /\ Len(wire') = 0
    BY <1>1, <1>2 DEF Quiet
  <2>2. CASE inputQueue'.items = <<>>
    BY <2>1, <2>2
  <2>3. CASE inputQueue'.items = <<new>>
    BY <2>1, <2>3
  <2> QED BY <1>3, <2>2, <2>3
<1>7. /\ PromptThenBurst' /\ ResultIsLast'
      /\ \A owner \in Owners : InPipe(owner)' => owner = new
  <2>1. PromptThenBurst'
    BY <1>6 DEF PromptThenBurst
  <2>2. ResultIsLast'
    BY <1>6 DEF ResultIsLast
  <2>3. NoOwner \notin Owners
    BY OwnersAssumption DEF Owners, TurnIds
  <2>4. \A owner \in Owners : InPipe(owner)' => owner = new
    BY <1>6, <2>3 DEF InPipe
  <2> QED BY <2>1, <2>2, <2>4
<1>8. PipeIsActive' /\ DrainedIsGone'
  <2>1. new # NoTurn /\ TurnIds \subseteq Owners
    BY <1>1 DEF NoTurn, TurnIds, Owners
  <2>2. PipeIsActive'
    BY <1>1, <1>7, <2>1 DEF PipeIsActive
  <2>3. DrainedIsGone'
    BY <1>5, <1>7, <2>1 DEF DrainedIsGone
  <2> QED BY <2>2, <2>3
<1>9. TurnIsolation'
  BY <1>5 DEF IsolationInv, TurnIsolation
<1>10. SomebodyConsumes'
  BY <1>1, <1>2 DEF IsolationInv, SomebodyConsumes
<1> QED BY <1>7, <1>8, <1>9, <1>10 DEF IsolationInv

\* What consumeLoop takes from the stream is the active turn's, and nothing is
\* left behind a result.
LEMMA ReceivedIsActive ==
  ASSUME IsolationInv, Receives
  PROVE  /\ activeTurn # NoTurn /\ activeTurn \in TurnIds
         /\ Head(wire).owner = activeTurn
         /\ Head(wire).type # "task-notification"
         /\ wire' \in Seq(Message) /\ Len(wire') = Len(wire) - 1
         /\ \A i \in 1..Len(wire') : wire'[i] = wire[i + 1]
         /\ Head(wire).type = "result" =>
              wire' = <<>> /\ sdk.burst = NoOwner /\ inputQueue.items = <<>>
<1>1. wire \in Seq(Message) /\ wire # <<>> /\ wire' = Tail(wire)
  BY DEF IsolationInv, TypeOK, Receives
<1>2. /\ Head(wire) = wire[1] /\ 1 \in 1..Len(wire) /\ wire[1] \in Message
      /\ wire' \in Seq(Message) /\ Len(wire') = Len(wire) - 1
      /\ \A i \in 1..Len(wire') : wire'[i] = wire[i + 1]
  BY <1>1, HeadTailProperties, ElementOfSeq
<1>3. activeTurn # NoTurn /\ activeTurn \in TurnIds
  BY <1>1 DEF IsolationInv, TypeOK, PipeIsActive, Receives, Quiet
<1>4. InPipe(wire[1].owner) /\ wire[1].owner \in Owners
  BY <1>2 DEF InPipe, Message
<1>5. wire[1].owner = activeTurn
  BY <1>3, <1>4 DEF IsolationInv, PipeIsActive
<1>6. /\ wire[1].type # "task-notification"
      /\ wire[1].type = "result" =>
           Len(wire) = 1 /\ sdk.burst = NoOwner /\ inputQueue.items = <<>>
  BY <1>2 DEF IsolationInv, ResultIsLast
<1>7. Len(wire') = 0 => wire' = <<>>
  BY <1>2, EmptySeq
<1>8. Len(wire) = 1 => wire' = <<>>
  BY <1>2, <1>7
<1> QED BY <1>2, <1>3, <1>5, <1>6, <1>8

\* A message that is no result moves from the wire to the active turn.
LEMMA MessageIsolated ==
  ASSUME IsolationInv, TypeOK', Receives, Head(wire).type # "result",
         UNCHANGED <<state, consumeLoop, sdk, inputQueue, activeTurn>>,
         TurnIsolation', \A t \in TurnIds : turns'[t].drained = turns[t].drained
  PROVE  IsolationInv'
<1>1. PromptThenBurst' /\ SomebodyConsumes'
  BY DEF IsolationInv, PromptThenBurst, SomebodyConsumes, Receives
<1>2. ResultIsLast'
  <2> SUFFICES ASSUME NEW i \in 1..Len(wire')
               PROVE  /\ wire'[i].type # "task-notification"
                      /\ wire'[i].type = "result" =>
                           i = Len(wire') /\ sdk.burst = NoOwner /\ inputQueue.items = <<>>
    BY DEF ResultIsLast
  <2>1. wire \in Seq(Message) /\ i \in Nat /\ Len(wire) \in Nat
    BY LenProperties DEF IsolationInv, TypeOK
  <2>2. i + 1 \in 1..Len(wire) /\ wire'[i] = wire[i + 1] /\ Len(wire') = Len(wire) - 1
    BY <2>1, ReceivedIsActive
  <2> QED BY <2>1, <2>2 DEF IsolationInv, ResultIsLast
<1>3. \A owner : InPipe(owner)' => InPipe(owner)
  <2>1. wire \in Seq(Message) /\ Len(wire) \in Nat /\ Len(wire') = Len(wire) - 1
    BY ReceivedIsActive, LenProperties DEF IsolationInv, TypeOK
  <2>2. \A i \in 1..Len(wire') : i + 1 \in 1..Len(wire) /\ wire'[i] = wire[i + 1]
    BY <2>1, ReceivedIsActive
  <2> QED BY <2>2 DEF InPipe
<1>4. PipeIsActive' /\ DrainedIsGone'
  BY <1>3, ReceivedIsActive DEF IsolationInv, PipeIsActive, DrainedIsGone
<1> QED BY <1>1, <1>2, <1>4 DEF IsolationInv

LEMMA ForwardIsolated == IsolationInv /\ TypeOK' /\ Forward => IsolationInv'
<1> SUFFICES ASSUME IsolationInv, TypeOK', Forward PROVE IsolationInv'
  OBVIOUS
<1> USE DEF Forward
<1>1. turns \in [TurnIds -> Turn]
  BY DEF IsolationInv, TypeOK
<1>2. CASE Head(wire).type = "result"
  <2>1. turns' = [turns EXCEPT ![activeTurn].got = @ \cup {Head(wire).owner},
                               ![activeTurn].completed = TRUE,
                               ![activeTurn].finished = TRUE]
    BY <1>2
  <2>2. \A t \in TurnIds : /\ turns'[t].cont = turns[t].cont
                           /\ turns'[t].got \subseteq turns[t].got \cup
                                (IF t = activeTurn THEN {Head(wire).owner} ELSE {})
    BY <1>1, <2>1 DEF Turn
  <2>3. TurnIsolation'
    BY <2>2, ReceivedIsActive DEF IsolationInv, TurnIsolation
  <2>4. Quiet' /\ SomebodyConsumes'
    BY <1>2, ReceivedIsActive DEF IsolationInv, Quiet, SomebodyConsumes, lifeVars
  <2>5. (TypeOK /\ SomebodyConsumes /\ Quiet /\ TurnIsolation => IsolationInv)'
    BY QuietIsIsolated, PTL
  <2> QED BY <2>3, <2>4, <2>5
<1>3. CASE Head(wire).type # "result"
  <2>1. turns' = [turns EXCEPT ![activeTurn].got = @ \cup {Head(wire).owner}]
    BY <1>3
  <2>2. \A t \in TurnIds : /\ turns'[t].cont = turns[t].cont
                           /\ turns'[t].drained = turns[t].drained
                           /\ turns'[t].got \subseteq turns[t].got \cup
                                (IF t = activeTurn THEN {Head(wire).owner} ELSE {})
    BY <1>1, <2>1 DEF Turn
  <2>3. TurnIsolation'
    BY <2>2, ReceivedIsActive DEF IsolationInv, TurnIsolation
  <2> QED BY <1>3, <2>2, <2>3, MessageIsolated DEF lifeVars
<1> QED BY <1>2, <1>3

LEMMA DrainIsolated == IsolationInv /\ TypeOK' /\ Drain => IsolationInv'
<1> SUFFICES ASSUME IsolationInv, TypeOK', Drain PROVE IsolationInv'
  OBVIOUS
<1> USE DEF Drain
<1>1. turns \in [TurnIds -> Turn]
  BY DEF IsolationInv, TypeOK
<1>2. CASE Head(wire).type = "result"
  <2>1. turns' = [turns EXCEPT ![activeTurn].completed = TRUE,
                               ![activeTurn].drained = TRUE]
    BY <1>2
  <2>2. \A t \in TurnIds : turns'[t].cont = turns[t].cont /\ turns'[t].got = turns[t].got
    BY <1>1, <2>1 DEF Turn
  <2>3. TurnIsolation'
    BY <2>2 DEF IsolationInv, TurnIsolation
  <2>4. Quiet' /\ SomebodyConsumes'
    BY <1>2, ReceivedIsActive DEF IsolationInv, Quiet, SomebodyConsumes, lifeVars
  <2>5. (TypeOK /\ SomebodyConsumes /\ Quiet /\ TurnIsolation => IsolationInv)'
    BY QuietIsIsolated, PTL
  <2> QED BY <2>3, <2>4, <2>5
<1>3. CASE Head(wire).type # "result"
  <2>1. turns' = turns
    BY <1>3
  <2>2. TurnIsolation'
    BY <2>1 DEF IsolationInv, TurnIsolation
  <2> QED BY <1>3, <2>1, <2>2, MessageIsolated DEF lifeVars
<1> QED BY <1>2, <1>3

LEMMA SdkReadsIsolated == IsolationInv /\ TypeOK' /\ SdkReads => IsolationInv'
<1> SUFFICES ASSUME IsolationInv, TypeOK', SdkReads PROVE IsolationInv'
  OBVIOUS
<1>1. /\ inputQueue \in [items : Seq(Owners), finished : BOOLEAN]
      /\ inputQueue.items # <<>> /\ sdk.status = "running"
      /\ sdk' = [sdk EXCEPT !.burst = Head(inputQueue.items)]
      /\ inputQueue' = [inputQueue EXCEPT !.items = Tail(@)]
      /\ UNCHANGED <<state, consumeLoop, activeTurn, turns, wire>>
  BY DEF SdkReads, IsolationInv, TypeOK, turnVars, lifeVars
<1>2. /\ Len(inputQueue.items) = 1 /\ Head(inputQueue.items) = inputQueue.items[1]
      /\ wire = <<>> /\ Len(wire) = 0
  <2>1. Len(inputQueue.items) \in Nat \ {0}
    BY <1>1, EmptySeq
  <2>2. Len(inputQueue.items) <= 1 /\ wire = <<>>
    BY <1>1 DEF IsolationInv, PromptThenBurst
  <2>3. Len(inputQueue.items) = 1
    <3> DEFINE n == Len(inputQueue.items)
    <3>1. n \in Nat \ {0} /\ n <= 1
      BY <2>1, <2>2
    <3> HIDE DEF n
    <3>2. n = 1
      BY <3>1
    <3> QED BY <3>2 DEF n
  <2>4. Len(wire) = 0
    BY <2>2
  <2> QED BY <1>1, <2>2, <2>3, <2>4, HeadTailProperties
<1>3. inputQueue'.items = <<>>
  <2>1. Tail(inputQueue.items) \in Seq(Owners) /\ Len(Tail(inputQueue.items)) = 0
    BY <1>1, <1>2, HeadTailProperties
  <2>2. Tail(inputQueue.items) = <<>>
    BY <2>1, EmptySeq
  <2> QED BY <1>1, <2>2
<1>4. sdk'.burst = inputQueue.items[1] /\ sdk'.status = "running"
  BY <1>1, <1>2 DEF IsolationInv, TypeOK
<1>5. PromptThenBurst' /\ ResultIsLast'
  BY <1>1, <1>2, <1>3 DEF PromptThenBurst, ResultIsLast
<1>6. \A owner : InPipe(owner)' => InPipe(owner)
  BY <1>1, <1>2, <1>3, <1>4 DEF InPipe
<1>7. consumeLoop = "running"
  BY <1>1 DEF IsolationInv, SomebodyConsumes
<1>8. activeTurn # NoTurn
  BY <1>1, <1>7 DEF IsolationInv, PipeIsActive, Quiet
<1>9. PipeIsActive' /\ DrainedIsGone' /\ TurnIsolation'
  BY <1>1, <1>6, <1>8 DEF IsolationInv, PipeIsActive, DrainedIsGone, TurnIsolation
<1>10. SomebodyConsumes'
  BY <1>1, <1>3, <1>4 DEF IsolationInv, SomebodyConsumes
<1> QED BY <1>5, <1>9, <1>10 DEF IsolationInv

\* SdkEmits and SdkResult: one more message of the burst's owner.
LEMMA EmittedIsolated ==
  ASSUME IsolationInv, TypeOK', sdk.status = "running", sdk.burst # NoOwner,
         NEW type \in {"message", "result"},
         wire' = Append(wire, [type |-> type, owner |-> sdk.burst]),
         sdk' = IF type = "result" THEN [sdk EXCEPT !.burst = NoOwner] ELSE sdk,
         UNCHANGED <<state, consumeLoop, inputQueue, activeTurn, turns>>
  PROVE  IsolationInv'
<1>1. /\ wire \in Seq(Message) /\ Len(wire) \in Nat
      /\ sdk.burst \in Owners
      /\ [type |-> type, owner |-> sdk.burst] \in Message
  BY LenProperties DEF IsolationInv, TypeOK, Message
<1>2. /\ Len(wire') = Len(wire) + 1
      /\ \A i \in 1..Len(wire) : wire'[i] = wire[i]
      /\ wire'[Len(wire) + 1] = [type |-> type, owner |-> sdk.burst]
  BY <1>1, AppendProperties
<1>3. /\ inputQueue.items = <<>>
      /\ \A i \in 1..Len(wire) : wire[i].type \notin {"task-notification", "result"}
  BY DEF IsolationInv, PromptThenBurst, ResultIsLast
<1>4. sdk'.burst = (IF type = "result" THEN NoOwner ELSE sdk.burst) /\ sdk'.status = "running"
  BY DEF IsolationInv, TypeOK
<1>5. ResultIsLast'
  <2> SUFFICES ASSUME NEW i \in 1..Len(wire')
               PROVE  /\ wire'[i].type # "task-notification"
                      /\ wire'[i].type = "result" =>
                           i = Len(wire') /\ sdk'.burst = NoOwner /\ inputQueue'.items = <<>>
    BY DEF ResultIsLast
  <2>1. CASE i \in 1..Len(wire)
    BY <1>2, <1>3, <2>1
  <2>2. CASE i = Len(wire')
    BY <1>2, <1>3, <1>4, <2>2
  <2> QED BY <1>1, <1>2, <2>1, <2>2
<1>6. PromptThenBurst'
  BY <1>3 DEF IsolationInv, PromptThenBurst
<1>7. \A owner \in Owners : InPipe(owner)' => InPipe(owner)
  <2> SUFFICES ASSUME NEW owner \in Owners, InPipe(owner)' PROVE InPipe(owner)
    OBVIOUS
  <2>1. NoOwner \notin Owners
    BY OwnersAssumption DEF Owners, TurnIds
  <2>2. CASE sdk'.burst = owner
    BY <1>4, <2>1, <2>2 DEF InPipe
  <2>3. CASE \E i \in 1..Len(inputQueue'.items) : inputQueue'.items[i] = owner
    BY <2>3 DEF InPipe
  <2>4. CASE \E i \in 1..Len(wire') : wire'[i].owner = owner
    <3>1. PICK i \in 1..Len(wire') : wire'[i].owner = owner
      BY <2>4
    <3>2. CASE i \in 1..Len(wire)
      BY <1>2, <3>1, <3>2 DEF InPipe
    <3>3. CASE i = Len(wire')
      BY <1>2, <3>1, <3>3 DEF InPipe
    <3> QED BY <1>1, <1>2, <3>2, <3>3
  <2> QED BY <2>2, <2>3, <2>4 DEF InPipe
<1>8. activeTurn # NoTurn
  BY DEF IsolationInv, SomebodyConsumes, PipeIsActive, Quiet
<1>9. PipeIsActive' /\ DrainedIsGone' /\ TurnIsolation'
  BY <1>7, <1>8 DEF IsolationInv, PipeIsActive, DrainedIsGone, TurnIsolation, Owners
<1>10. SomebodyConsumes'
  BY <1>3, <1>4 DEF IsolationInv, SomebodyConsumes
<1> QED BY <1>5, <1>6, <1>9, <1>10 DEF IsolationInv

\* The process stops: its burst is lost, the wire is still to be read.
LEMMA StoppedIsolated ==
  ASSUME IsolationInv, TypeOK', NEW how \in {"exited", "failed"}, SdkStops(how)
  PROVE  IsolationInv'
<1>1. /\ sdk'.burst = NoOwner /\ sdk'.status = how
      /\ UNCHANGED <<state, consumeLoop, inputQueue, activeTurn, turns, wire>>
  BY DEF SdkStops, turnVars, lifeVars
<1>2. PromptThenBurst' /\ ResultIsLast' /\ SomebodyConsumes'
  BY <1>1 DEF IsolationInv, PromptThenBurst, ResultIsLast, SomebodyConsumes
<1>3. \A owner \in Owners : InPipe(owner)' => InPipe(owner)
  <2>1. NoOwner \notin Owners
    BY OwnersAssumption DEF Owners, TurnIds
  <2> QED BY <1>1, <2>1 DEF InPipe
<1>4. PipeIsActive' /\ DrainedIsGone' /\ TurnIsolation'
  BY <1>1, <1>3 DEF IsolationInv, PipeIsActive, DrainedIsGone, TurnIsolation, Owners, Quiet
<1> QED BY <1>2, <1>4 DEF IsolationInv

(* Everything else. *********************************************************)

LEMMA LoseActiveTurnKeeps ==
  ASSUME TypeOK, LoseActiveTurn
  PROVE  /\ activeTurn' = NoTurn
         /\ \A t \in TurnIds : /\ turns'[t].cont = turns[t].cont
                               /\ turns'[t].got = turns[t].got
                               /\ turns'[t].drained = turns[t].drained
<1>1. turns \in [TurnIds -> Turn] /\ activeTurn \in TurnIds \cup {NoTurn}
  BY DEF TypeOK
<1>2. CASE activeTurn = NoTurn
  BY <1>2 DEF LoseActiveTurn
<1>3. CASE activeTurn # NoTurn
  <2>1. turns' = [turns EXCEPT ![activeTurn].detached = TRUE, ![activeTurn].finished = TRUE]
    BY <1>3 DEF LoseActiveTurn
  <2> QED BY <1>1, <1>3, <2>1 DEF LoseActiveTurn, Turn
<1> QED BY <1>2, <1>3

LEMMA EndsIsolated == IsolationInv /\ TypeOK' /\ Ends => IsolationInv'
<1> SUFFICES ASSUME IsolationInv, TypeOK', Ends PROVE IsolationInv'
  OBVIOUS
<1> DEFINE TurnsKept ==
             \A t \in TurnIds : /\ turns'[t].cont = turns[t].cont
                                /\ turns'[t].got = turns[t].got
                                /\ turns'[t].drained = turns[t].drained
<1>1. TypeOK /\ SomebodyConsumes /\ TurnIsolation
  BY DEF IsolationInv
<1>2. Crashes => TurnsKept /\ activeTurn' = NoTurn /\ TurnIsolation'
  BY <1>1, LoseActiveTurnKeeps DEF Crashes, TurnIsolation
<1>3. (TypeOK /\ SomebodyConsumes /\ Quiet /\ TurnIsolation => IsolationInv)'
  BY QuietIsIsolated, PTL
<1>4. CASE StreamEnds \/ StreamErrorsInShutdown \/ RestartRejected
  <2>1. /\ UNCHANGED <<activeTurn, turns, sdk, wire, inputQueue>>
        /\ consumeLoop' = "exited"
        /\ state' \in {"closed", "shutting_down", "crashed"}
        /\ sdk.status # "running"
    BY <1>1, <1>4 DEF StreamEnds, StreamErrorsInShutdown, RestartRejected, StreamOver,
                      turnVars, sdkVars, SomebodyConsumes
  <2>2. SomebodyConsumes'
    BY <1>1, <2>1 DEF SomebodyConsumes
  <2> QED BY <2>1, <2>2, PipeUntouched DEF IsolationInv, TypeOK
<1>5. CASE CrashGivesUp
  <2>1. /\ UNCHANGED <<sdk, wire, inputQueue>>
        /\ consumeLoop' = "exited" /\ state' = "closed"
        /\ sdk.status # "running" /\ Crashes
    BY <1>5 DEF CrashGivesUp, Crashes, StreamOver, sdkVars
  <2>2. SomebodyConsumes'
    BY <1>1, <2>1 DEF SomebodyConsumes
  <2> QED BY <1>2, <2>1, <2>2, PipeUntouched DEF IsolationInv
<1>6. CASE CrashRestarts
  <2>1. Crashes /\ Quiet' /\ SomebodyConsumes'
    BY <1>6 DEF CrashRestarts, QueryStarts, Quiet, SomebodyConsumes
  <2> QED BY <1>2, <1>3, <2>1
<1>7. CASE CrashRestartThrows
  <2>1. /\ Crashes /\ inputQueue'.items = <<>> /\ UNCHANGED sdk
        /\ wire' = <<>> /\ sdk.status # "running" /\ state' = "restarting"
    BY <1>7 DEF CrashRestartThrows, Crashes, StreamOver, sdkVars
  <2>2. Quiet' /\ SomebodyConsumes'
    BY <1>1, <2>1 DEF Quiet, SomebodyConsumes
  <2> QED BY <1>2, <1>3, <2>1, <2>2
<1> QED BY <1>4, <1>5, <1>6, <1>7 DEF Ends

LEMMA IsolationStep ==
  ASSUME OnlyPrompted
  PROVE  IsolationInv /\ [Next]_vars => IsolationInv'
<1> SUFFICES ASSUME IsolationInv, [Next]_vars PROVE IsolationInv'
  OBVIOUS
<1>1. TypeOK /\ TypeOK' /\ SomebodyConsumes
  BY TypeStep DEF IsolationInv
<1>2. CASE UNCHANGED vars
  <2>1. SomebodyConsumes'
    BY <1>1, <1>2 DEF vars, lifeVars, sdkVars, SomebodyConsumes
  <2> QED BY <1>1, <1>2, <2>1, PipeUntouched DEF vars, turnVars, lifeVars, sdkVars, TypeOK
<1>3. CASE Start
  <2>1. Quiet' /\ SomebodyConsumes' /\ TurnIsolation'
    BY <1>3 DEF Start, QueryStarts, Quiet, IsolationInv, SomebodyConsumes, TurnIsolation, turnVars
  <2>2. (TypeOK /\ SomebodyConsumes /\ Quiet /\ TurnIsolation => IsolationInv)'
    BY QuietIsIsolated, PTL
  <2> QED BY <1>1, <2>1, <2>2
<1>4. CASE Shutdown \/ ShutdownReturns \/ IdleTimerFires \/ RestartWindowPasses
  <2>1. /\ UNCHANGED <<turns, activeTurn, sdk, wire, consumeLoop>>
        /\ inputQueue'.items = inputQueue.items
        /\ state' \in {state, "shutting_down", "closed"}
    BY <1>1, <1>4 DEF Shutdown, BeginShutdown, ShutdownReturns, IdleTimerFires,
                      RestartWindowPasses, turnVars, lifeVars, sdkVars, TypeOK
  <2>2. SomebodyConsumes'
    BY <1>1, <2>1 DEF SomebodyConsumes
  <2> QED BY <1>1, <2>1, <2>2, PipeUntouched DEF TypeOK
<1>5. CASE TurnNext
  <2>1. CASE NextTurn
    BY <1>1, <2>1, NextTurnIsolated
  <2>2. ASSUME NEW t \in TurnIds, Abort(t) \/ InterruptReturns(t) \/ AbortReturns(t)
        PROVE  IsolationInv'
    <3>1. /\ UNCHANGED <<activeTurn, sdk, wire, consumeLoop, inputQueue, state>>
          /\ \A u \in TurnIds : /\ turns'[u].cont = turns[u].cont
                                /\ turns'[u].got = turns[u].got
                                /\ turns'[u].drained = turns[u].drained
      <4>1. CASE Abort(t)
        <5>1. turns' = [turns EXCEPT ![t].detached = TRUE, ![t].finished = TRUE]
          BY <4>1 DEF Abort
        <5>2. turns \in [TurnIds -> Turn]
          BY <1>1 DEF TypeOK
        <5>3. ASSUME NEW u \in TurnIds
              PROVE  /\ turns'[u].cont = turns[u].cont
                     /\ turns'[u].got = turns[u].got
                     /\ turns'[u].drained = turns[u].drained
          BY <5>1, <5>2 DEF Turn
        <5>4. UNCHANGED <<activeTurn, sdk, wire, consumeLoop, inputQueue, state>>
          BY <4>1 DEF Abort, lifeVars, sdkVars
        <5> QED BY <5>3, <5>4
      <4>2. CASE InterruptReturns(t) \/ AbortReturns(t)
        BY <4>2 DEF InterruptReturns, AbortReturns, lifeVars, sdkVars
      <4> QED BY <2>2, <4>1, <4>2
    <3>2. SomebodyConsumes'
      BY <1>1, <3>1 DEF SomebodyConsumes
    <3> QED BY <1>1, <3>1, <3>2, PipeUntouched DEF TypeOK
  <2> QED BY <1>5, <2>1, <2>2 DEF TurnNext
<1>6. CASE HookNext
  <2>1. UNCHANGED <<turns, activeTurn, sdk, wire, consumeLoop, inputQueue, state>>
    BY <1>6 DEF HookNext, OnlyPrompted, TeamHook, turnVars, lifeVars, sdkVars
  <2>2. SomebodyConsumes'
    BY <1>1, <2>1 DEF SomebodyConsumes
  <2> QED BY <1>1, <2>1, <2>2, PipeUntouched DEF TypeOK
<1>7. CASE Consume
  <2>1. CASE Forward
    BY <1>1, <2>1, ForwardIsolated
  <2>2. CASE Drain
    BY <1>1, <2>2, DrainIsolated
  <2>3. ~OpenContinuation /\ ~BufferSpontaneous
    BY ReceivedIsActive DEF OpenContinuation, BufferSpontaneous
  <2> QED BY <1>7, <2>1, <2>2, <2>3 DEF Consume
<1>8. CASE Ends
  BY <1>1, <1>8, EndsIsolated
<1>9. CASE SdkNext
  <2>1. CASE SdkReads
    BY <1>1, <2>1, SdkReadsIsolated
  <2>2. CASE SdkEmits
    BY <1>1, <2>2, EmittedIsolated DEF SdkEmits, turnVars, lifeVars
  <2>3. CASE SdkResult
    BY <1>1, <2>3, EmittedIsolated DEF SdkResult, turnVars, lifeVars
  <2>4. ASSUME NEW how \in {"exited", "failed"}, SdkStops(how) PROVE IsolationInv'
    BY <1>1, <2>4, StoppedIsolated
  <2> QED BY <1>9, <2>1, <2>2, <2>3, <2>4 DEF SdkNext, SdkSelfPrompts, OnlyPrompted
<1> QED BY <1>2, <1>3, <1>4, <1>5, <1>6, <1>7, <1>8, <1>9 DEF Next

\* Whatever crashes, restarts, aborts and shutdowns come in between, no turn of
\* such an SDK sees another turn's messages (nextTurn(), consumeLoop).
THEOREM PromptedTurnsAreIsolated ==
  ASSUME OnlyPrompted
  PROVE  Spec => []TurnIsolation
<1>1. IsolationInv => TurnIsolation
  BY DEF IsolationInv
<1>2. Init => IsolationInv
  BY IsolationInit
<1>3. IsolationInv /\ [Next]_vars => IsolationInv'
  BY IsolationStep
<1> QED BY <1>1, <1>2, <1>3, PTL DEF Spec

\* And when abort() has drained a turn, the pipe holds nothing of it (abort()).
THEOREM AbortIsClean ==
  ASSUME OnlyPrompted
  PROVE  Spec => []AbortLeavesNoStragglers
<1>1. IsolationInv => AbortLeavesNoStragglers
  BY DEF IsolationInv, DrainedIsGone, InPipe, AbortLeavesNoStragglers
<1>2. Init => IsolationInv
  BY IsolationInit
<1>3. IsolationInv /\ [Next]_vars => IsolationInv'
  BY IsolationStep
<1> QED BY <1>1, <1>2, <1>3, PTL DEF Spec

(* The sessions. ************************************************************)

Optional == Engines \cup {None}
SessionType == [id : Nat, idEngine : Optional, engine : Optional, model : Optional]
Phases == {"begun", "running", "dying", "refused"}
TurnType ==
  [phase : Phases, engine : Engines, conv : Nat, heard : BOOLEAN, pooled : BOOLEAN,
   bare : BOOLEAN, model : Optional, mine : BOOLEAN, forgot : Nat, back : SUBSET Nat, expect : Nat]
Conversation == [engine : Engines, kept : BOOLEAN]

\* None is told apart from all it stands in for.
Nothing == None \notin Engines \cup Chats \cup SessionType \cup TurnType

\* The types of what the proofs look at; a link names a row or has no effect.
Types ==
  /\ persistent \in BOOLEAN /\ botEngine \in Engines
  /\ sessions \in [Chats -> SessionType \cup {None}] /\ file \in [Chats -> SessionType \cup {None}]
  /\ row \in [Chats -> Nat \cup {None}]
  /\ pool \in [Chats -> Nat] /\ turn \in [Chats -> TurnType \cup {None}]
  /\ made \in Seq(Conversation)
  /\ forgotten \in [Chats -> Nat] /\ back \in [Chats -> SUBSET Nat]
  /\ expected \in [Chats -> Nat]

RowsKnown == \A c \in Chats : row[c] # None => row[c] <= Len(made)

\* A conversation the chat may go on with: begun after the last one left, or back.
Fresh(c, v) == v > forgotten[c] \/ v \in back[c]

\* A session names a fresh conversation, and if it says whose it is, by that engine.
Sound(c, s) ==
  /\ s.id <= Len(made)
  /\ s.id # 0 => /\ Fresh(c, s.id)
                 /\ s.idEngine # None => made[s.id].engine = s.idEngine

\* The file has what the map has.
Saved(c) == Kept(sessions[c]) => file[c] = sessions[c]

\* Only Claude's executors are pooled.
PoolIsClaudes(c) == pool[c] # 0 => pool[c] <= Len(made) /\ made[pool[c]].engine = "claude"

\* What a chat has every reason to resume is in its session, and survives the
\* preparation of a turn.
HasExpected(c) ==
  expected[c] # 0 => /\ sessions[c] # None /\ sessions[c].id = expected[c]
                     /\ sessions[c].idEngine \in {None, ActiveEngine(sessions[c])}

\* A turn that waits for its start finds no id of another engine; one under way is
\* of a conversation of its engine; and as long as no command came between, the
\* chat is still on its engine, with a model of it.
TurnIsSound(c) ==
  LET t == turn[c]  s == GetSession(c)
  IN t # None =>
       /\ t.conv <= Len(made)
       /\ t.phase = "begun" => t.conv = 0 /\ (s.id # 0 => s.idEngine \in {None, t.engine})
       /\ t.phase \in {"running", "dying"} =>
            /\ t.conv # 0 /\ made[t.conv].engine = t.engine
            /\ t.conv > t.forgot \/ t.conv \in t.back \/ (t.pooled /\ Pools(t))
            /\ t.expect # 0 => t.conv = t.expect \/ t.pooled
       /\ t.phase = "refused" => t.conv # 0 /\ (t.bare \/ made[t.conv].engine = t.engine)
       /\ t.mine => /\ t.engine = ActiveEngine(s)
                    /\ s.model \in {None, t.engine} /\ t.model \in {None, t.engine}

ChatIsSound(c) ==
  /\ sessions[c] # None => Sound(c, sessions[c])
  /\ file[c] # None => Sound(c, file[c])
  /\ forgotten[c] <= Len(made)
  /\ Saved(c) /\ PoolIsClaudes(c) /\ HasExpected(c) /\ TurnIsSound(c)

ChatsInv == Types /\ RowsKnown /\ \A c \in Chats : ChatIsSound(c)

-----------------------------------------------------------------------------
(* What the helpers return. *)

LEMMA Typed ==
  ASSUME Nothing, Types, NEW c \in Chats
  PROVE  /\ GetSession(c) \in SessionType
         /\ sessions[c] # None => sessions[c] \in SessionType /\ GetSession(c) = sessions[c]
         /\ sessions[c] = None => GetSession(c).id = 0 /\ GetSession(c).idEngine = None
         /\ file[c] # None => file[c] \in SessionType
         /\ turn[c] # None => turn[c] \in TurnType
         /\ row[c] # None => row[c] \in Nat
BY DEF Types, GetSession, Blank, SessionType, Optional

LEMMA ActiveType == ASSUME Types, NEW s \in SessionType PROVE ActiveEngine(s) \in Engines
BY DEF Types, SessionType, Optional, ActiveEngine

LEMMA ResetFields ==
  ASSUME NEW s \in SessionType
  PROVE  /\ ResetSession(s) \in SessionType
         /\ ResetSession(s).id = 0 /\ ResetSession(s).idEngine = None
         /\ ResetSession(s).engine = s.engine /\ ResetSession(s).model = s.model
BY DEF ResetSession, SessionType, Optional

LEMMA IdFields ==
  ASSUME NEW s \in SessionType, NEW v \in Nat, NEW e \in Optional
  PROVE  /\ WithId(s, v, e) \in SessionType
         /\ WithId(s, v, e).id = v /\ WithId(s, v, e).idEngine = e
         /\ WithId(s, v, e).engine = s.engine /\ WithId(s, v, e).model = s.model
BY DEF WithId, SessionType

LEMMA ModelFields ==
  ASSUME NEW s \in SessionType, NEW m \in Optional
  PROVE  /\ WithModel(s, m) \in SessionType
         /\ WithModel(s, m).id = s.id /\ WithModel(s, m).idEngine = s.idEngine
         /\ WithModel(s, m).engine = s.engine /\ WithModel(s, m).model = m
BY DEF WithModel, SessionType

LEMMA EngineFields ==
  ASSUME NEW s \in SessionType, NEW e \in Optional
  PROVE  /\ WithEngine(s, e) \in SessionType /\ WithEngine(s, e).engine = e
         /\ \/ WithEngine(s, e) = s /\ s.engine = e
            \/ /\ s.engine # e /\ WithEngine(s, e).id = 0
               /\ WithEngine(s, e).idEngine = None
<1>1. Blank \in SessionType
  BY DEF Blank, SessionType, Optional
<1>2. /\ [Blank EXCEPT !.engine = e] \in SessionType /\ [Blank EXCEPT !.engine = e].engine = e
      /\ [Blank EXCEPT !.engine = e].id = 0 /\ [Blank EXCEPT !.engine = e].idEngine = None
  BY DEF Blank, SessionType, Optional
<1> QED BY <1>1, <1>2 DEF WithEngine

\* The preparation of a turn drops what is of another engine, and only that.
LEMMA PreparedFields ==
  ASSUME Types, NEW s \in SessionType
  PROVE  /\ Prepared(s) \in SessionType
         /\ Prepared(s).engine = s.engine
         /\ ActiveEngine(Prepared(s)) = ActiveEngine(s)
         /\ Prepared(s).id # 0 => Prepared(s).id = s.id /\ Prepared(s).idEngine = s.idEngine
         /\ Prepared(s).id # 0 => Prepared(s).idEngine \in {None, ActiveEngine(s)}
         /\ s.idEngine \in {None, ActiveEngine(s)} => Prepared(s).id = s.id /\ Prepared(s).idEngine = s.idEngine
         /\ Prepared(s).model \in {None, ActiveEngine(s)}
<1> DEFINE t == DropForeignId(s)
<1>1. /\ t \in SessionType /\ t.engine = s.engine /\ t.model = s.model
      /\ t.id # 0 => t.id = s.id /\ t.idEngine = s.idEngine
      /\ t.id # 0 => t.idEngine \in {None, ActiveEngine(s)}
      /\ s.idEngine \in {None, ActiveEngine(s)} => t.id = s.id /\ t.idEngine = s.idEngine
  <2>1. CASE s.id # 0 /\ s.idEngine # None /\ s.idEngine # ActiveEngine(s)
    <3>1. t = ResetSession(s)
      BY <2>1 DEF DropForeignId
    <3> HIDE DEF t
    <3>2. /\ ResetSession(s) \in SessionType
          /\ ResetSession(s).id = 0 /\ ResetSession(s).idEngine = None
          /\ ResetSession(s).engine = s.engine /\ ResetSession(s).model = s.model
      BY ResetFields
    <3> QED BY <2>1, <3>1, <3>2
  <2>2. CASE ~(s.id # 0 /\ s.idEngine # None /\ s.idEngine # ActiveEngine(s))
    BY <2>2 DEF DropForeignId
  <2> QED BY <2>1, <2>2
<1> HIDE DEF t
<1>2. None \in Optional
  BY DEF Optional
<1>3. ActiveEngine(t) = ActiveEngine(s)
  BY <1>1 DEF ActiveEngine
<1>4. Prepared(s) = IF t.model # None /\ t.model # ActiveEngine(t) THEN WithModel(t, None) ELSE t
  BY DEF Prepared, t
<1>5. /\ WithModel(t, None) \in SessionType
      /\ WithModel(t, None).id = t.id /\ WithModel(t, None).idEngine = t.idEngine
      /\ WithModel(t, None).engine = t.engine /\ WithModel(t, None).model = None
  BY <1>1, <1>2, ModelFields
<1>6. Prepared(s).engine = s.engine
  BY <1>1, <1>4, <1>5
<1>7. ActiveEngine(Prepared(s)) = ActiveEngine(s)
  BY <1>6 DEF ActiveEngine
<1> QED BY <1>1, <1>3, <1>4, <1>5, <1>6, <1>7

\* Every setter ends in saveToDisk.
LEMMA SetFacts ==
  ASSUME Nothing, Types, NEW c \in Chats, NEW s \in SessionType, Set(c, s)
  PROVE  /\ sessions' \in [Chats -> SessionType \cup {None}]
         /\ file' \in [Chats -> SessionType \cup {None}]
         /\ sessions'[c] = s /\ s # None
         /\ file'[c] = IF Kept(s) THEN s ELSE None
         /\ \A d \in Chats : d # c => /\ sessions'[d] = sessions[d]
                                      /\ file'[d] = IF Kept(sessions[d]) THEN sessions[d] ELSE None
<1>1. s # None
  BY DEF Nothing
<1>2. sessions' = [sessions EXCEPT ![c] = s] /\ sessions' \in [Chats -> SessionType \cup {None}]
  BY DEF Set, Types
<1>3. file' = [d \in Chats |-> IF Kept(sessions'[d]) THEN sessions'[d] ELSE None]
  BY <1>2 DEF Set, SaveToDisk
<1> QED BY <1>1, <1>2, <1>3 DEF Types

\* Conversations are never taken back, nor change their engine.
Grows ==
  /\ made' \in Seq(Conversation) /\ Len(made) <= Len(made')
  /\ \A v \in 1..Len(made) : made'[v].engine = made[v].engine

\* How turn u starts that was t and is of session s: on the pooled executor, on
\* the conversation it resumes, not at all, or on a new one.
StartsAs(u, t, s, fresh) ==
  /\ u.engine = t.engine /\ u.mine = t.mine /\ u.model = s.model
  /\ u.forgot = t.forgot /\ u.back = t.back /\ u.expect = t.expect
  /\ u.conv <= Len(made') /\ u.conv # 0
  /\ \/ u.phase = "running" /\ made'[u.conv].engine = u.engine /\ u.pooled /\ Pools(u)
     \/ u.phase = "running" /\ made'[u.conv].engine = u.engine /\ ~fresh /\ u.conv = s.id
     \/ u.phase = "running" /\ made'[u.conv].engine = u.engine /\ (fresh \/ s.id = 0)
          /\ u.conv = Len(made) + 1
     \/ u.phase = "refused" /\ ~fresh /\ u.conv = s.id /\ (s.idEngine = None => u.bare)

PoolKept(c) ==
  /\ pool' \in [Chats -> Nat] /\ \A d \in Chats : d # c => pool'[d] = pool[d]
  /\ pool'[c] # 0 => pool'[c] <= Len(made') /\ made'[pool'[c]].engine = "claude"

LEMMA RunFacts ==
  ASSUME Nothing, Types, NEW c \in Chats, NEW t \in TurnType, NEW s \in SessionType,
         NEW fresh \in BOOLEAN, RunOneTurn(c, t, s, fresh), s.id <= Len(made), PoolIsClaudes(c)
  PROVE  /\ Grows /\ PoolKept(c)
         /\ \E u \in TurnType : turn' = [turn EXCEPT ![c] = u] /\ StartsAs(u, t, s, fresh)
<1> DEFINE pooled == Pools(t) /\ ~fresh /\ pool[c] # 0
           resume == IF fresh THEN 0 ELSE s.id
           new == [engine |-> t.engine, kept |-> TRUE]
<1>1. /\ t.engine \in Engines /\ t.conv \in Nat /\ s.id \in Nat /\ s.model \in Optional
      /\ pool \in [Chats -> Nat] /\ made \in Seq(Conversation) /\ Len(made) \in Nat
      /\ persistent \in BOOLEAN
  BY DEF Types, TurnType, SessionType
<1>2. ASSUME NEW v \in Nat
      PROVE  /\ Started(t, s, v) \in TurnType
             /\ Started(t, s, v).engine = t.engine /\ Started(t, s, v).mine = t.mine
             /\ Started(t, s, v).model = s.model /\ Started(t, s, v).forgot = t.forgot /\ Started(t, s, v).back = t.back
             /\ Started(t, s, v).expect = t.expect /\ Started(t, s, v).conv = v
             /\ Started(t, s, v).phase = "running"
             /\ s.id # 0 /\ s.idEngine = None => Started(t, s, v).bare
  <2>1. Started(t, s, v) \in TurnType
    BY <1>1 DEF Started, TurnType, Phases
  <2> QED BY <1>1, <2>1 DEF Started, TurnType
<1>3. CASE pooled /\ turn' = [turn EXCEPT ![c] = [Started(t, s, pool[c]) EXCEPT !.pooled = TRUE]]
           /\ UNCHANGED <<made, pool>>
  <2> DEFINE r == Started(t, s, pool[c])
             u == [r EXCEPT !.pooled = TRUE]
  <2>1. /\ r \in TurnType /\ r.engine = t.engine /\ r.mine = t.mine /\ r.model = s.model
        /\ r.forgot = t.forgot /\ r.back = t.back /\ r.expect = t.expect /\ r.conv = pool[c] /\ r.phase = "running"
    BY <1>1, <1>2
  <2>2. turn' = [turn EXCEPT ![c] = u]
    BY <1>3
  <2> HIDE DEF r
  <2>3. u \in TurnType /\ u.pooled
    BY <2>1 DEF TurnType
  <2>4. /\ u.engine = t.engine /\ u.model = s.model /\ u.mine = r.mine
        /\ u.forgot = t.forgot /\ u.back = t.back /\ u.expect = t.expect /\ u.conv = pool[c] /\ u.phase = "running"
    BY <2>1 DEF TurnType
  <2> HIDE DEF u
  <2>5. u.engine = "claude" /\ persistent
    BY <1>3, <2>4 DEF Pools
  <2>6. u.conv # 0 /\ u.conv <= Len(made) /\ made[u.conv].engine = u.engine
    BY <1>3, <2>4, <2>5 DEF PoolIsClaudes
  <2>7. StartsAs(u, t, s, fresh)
    BY <1>3, <2>1, <2>3, <2>4, <2>5, <2>6 DEF StartsAs, Pools
  <2>8. Grows /\ PoolKept(c)
    BY <1>1, <1>3 DEF Grows, PoolKept, PoolIsClaudes
  <2> QED BY <2>2, <2>3, <2>7, <2>8
<1>4. CASE /\ ~pooled /\ resume # 0 /\ UNCHANGED made
           /\ turn' = [turn EXCEPT ![c] =
                IF CanResume(resume, t.engine) THEN Started(t, s, resume)
                  ELSE [Started(t, s, resume) EXCEPT !.phase = "refused"]]
           /\ pool' = IF Pools(t) /\ CanResume(resume, t.engine) THEN [pool EXCEPT ![c] = resume] ELSE pool
  <2>1. ~fresh /\ resume = s.id /\ s.id # 0 /\ s.id \in 1..Len(made)
    BY <1>1, <1>4
  <2>2. Grows
    BY <1>1, <1>4 DEF Grows
  <2> DEFINE r == Started(t, s, s.id)
  <2>3. /\ r \in TurnType /\ r.engine = t.engine /\ r.mine = t.mine /\ r.model = s.model
        /\ r.forgot = t.forgot /\ r.back = t.back /\ r.expect = t.expect /\ r.conv = s.id /\ r.phase = "running"
        /\ s.idEngine = None => r.bare
    BY <1>1, <1>2, <2>1
  <2>4. CASE CanResume(s.id, t.engine)
    <3>1. made[s.id].engine = t.engine /\ turn' = [turn EXCEPT ![c] = r]
      BY <1>4, <2>1, <2>4 DEF CanResume
    <3>2. pool' = IF Pools(t) THEN [pool EXCEPT ![c] = s.id] ELSE pool
      BY <1>4, <2>1, <2>4
    <3> HIDE DEF r
    <3>3. StartsAs(r, t, s, fresh)
      BY <1>4, <2>1, <2>3, <3>1 DEF StartsAs
    <3>4. PoolKept(c)
      <4>1. CASE Pools(t)
        <5>1. t.engine = "claude" /\ pool' = [pool EXCEPT ![c] = s.id]
          BY <3>2, <4>1 DEF Pools
        <5> QED BY <1>1, <1>4, <2>1, <3>1, <5>1 DEF PoolKept
      <4>2. CASE ~Pools(t)
        BY <1>1, <1>4, <3>2, <4>2 DEF PoolKept, PoolIsClaudes
      <4> QED BY <4>1, <4>2
    <3> QED BY <2>2, <2>3, <3>1, <3>3, <3>4
  <2>5. CASE ~CanResume(s.id, t.engine)
    <3> DEFINE u == [r EXCEPT !.phase = "refused"]
    <3>1. turn' = [turn EXCEPT ![c] = u] /\ pool' = pool
      BY <1>4, <2>1, <2>5
    <3> HIDE DEF r
    <3>2. u \in TurnType /\ u.bare = r.bare /\ u.mine = r.mine
      BY <2>3 DEF TurnType, Phases
    <3>3. /\ u.engine = t.engine /\ u.model = s.model
          /\ u.forgot = t.forgot /\ u.back = t.back /\ u.expect = t.expect /\ u.conv = s.id /\ u.phase = "refused"
      BY <2>3 DEF TurnType
    <3> HIDE DEF u
    <3>4. StartsAs(u, t, s, fresh)
      BY <1>4, <2>1, <2>3, <3>2, <3>3 DEF StartsAs
    <3>5. PoolKept(c)
      BY <1>1, <1>4, <3>1 DEF PoolKept, PoolIsClaudes
    <3> QED BY <2>2, <3>1, <3>2, <3>4, <3>5
  <2> QED BY <2>4, <2>5
<1>5. CASE /\ ~pooled /\ resume = 0 /\ made' = Append(made, new)
           /\ turn' = [turn EXCEPT ![c] = Started(t, s, Len(made'))]
           /\ pool' = IF Pools(t) THEN [pool EXCEPT ![c] = Len(made')] ELSE pool
  <2>1. new \in Conversation /\ new.engine = t.engine
    BY <1>1 DEF Conversation
  <2> HIDE DEF new
  <2>2. /\ made' \in Seq(Conversation) /\ Len(made') = Len(made) + 1 /\ made'[Len(made) + 1] = new
        /\ \A v \in 1..Len(made) : made'[v] = made[v]
    BY <1>1, <1>5, <2>1
  <2>3. Grows
    BY <1>1, <2>2 DEF Grows
  <2>4. PoolKept(c)
    <3>1. CASE Pools(t)
      <4>1. t.engine = "claude" /\ pool' = [pool EXCEPT ![c] = Len(made) + 1]
        BY <1>5, <2>2, <3>1 DEF Pools
      <4> QED BY <1>1, <2>1, <2>2, <4>1 DEF PoolKept
    <3>2. CASE ~Pools(t)
      <4>1. pool' = pool
        BY <1>5, <3>2
      <4>2. pool[c] # 0 => pool[c] \in 1..Len(made)
        BY <1>1 DEF PoolIsClaudes
      <4> QED BY <1>1, <2>2, <4>1, <4>2 DEF PoolKept, PoolIsClaudes
    <3> QED BY <3>1, <3>2
  <2> DEFINE r == Started(t, s, Len(made) + 1)
  <2>5. /\ r \in TurnType /\ r.engine = t.engine /\ r.mine = t.mine /\ r.model = s.model
        /\ r.forgot = t.forgot /\ r.back = t.back /\ r.expect = t.expect /\ r.conv = Len(made) + 1 /\ r.phase = "running"
    BY <1>1, <1>2
  <2>6. turn' = [turn EXCEPT ![c] = r]
    BY <1>5, <2>2
  <2> HIDE DEF r
  <2>7. fresh \/ s.id = 0
    BY <1>5
  <2>8. StartsAs(r, t, s, fresh)
    BY <1>1, <2>1, <2>2, <2>5, <2>7 DEF StartsAs
  <2> QED BY <2>3, <2>4, <2>5, <2>6, <2>8
<1> QED BY <1>3, <1>4, <1>5 DEF RunOneTurn

-----------------------------------------------------------------------------
(* What a step of one chat does: its own part of the invariant holds, and  *)
(* of the other chats it may only write the file.                          *)

Aside(d) ==
  /\ sessions'[d] = sessions[d] /\ pool'[d] = pool[d] /\ turn'[d] = turn[d]
  /\ forgotten'[d] = forgotten[d] /\ back'[d] = back[d] /\ expected'[d] = expected[d]
  /\ file'[d] \in {file[d], IF Kept(sessions[d]) THEN sessions[d] ELSE None}

ChatStep(c) ==
  /\ Types' /\ Grows /\ RowsKnown' /\ ChatIsSound(c)' /\ UNCHANGED config
  /\ \A d \in Chats : d # c => Aside(d)

\* A session that is sound stays so as conversations are added.
LEMMA SoundGrows ==
  ASSUME Types, Grows, NEW d \in Chats, NEW s \in SessionType, Sound(d, s),
         forgotten'[d] = forgotten[d], back'[d] = back[d]
  PROVE  /\ s.id <= Len(made')
         /\ s.id # 0 => /\ Fresh(d, s.id)'
                        /\ s.idEngine # None => made'[s.id].engine = s.idEngine
<1>1. s.id \in Nat /\ made \in Seq(Conversation) /\ Len(made) \in Nat /\ Len(made') \in Nat
  BY DEF Types, SessionType, Grows
<1> QED BY <1>1 DEF Sound, Grows, Fresh

LEMMA TurnGrows ==
  ASSUME Nothing, Types, Grows, UNCHANGED config, NEW d \in Chats, TurnIsSound(d),
         UNCHANGED <<sessions[d], turn[d]>>
  PROVE  TurnIsSound(d)'
<1> DEFINE t == turn[d]
<1>1. t # None => t \in TurnType /\ t.conv \in Nat
  BY DEF Types, TurnType
<1>2. /\ made \in Seq(Conversation) /\ Len(made) \in Nat /\ Len(made') \in Nat
      /\ Len(made) <= Len(made')
      /\ \A v \in 1..Len(made) : made'[v].engine = made[v].engine
  BY DEF Types, Grows
<1>3. GetSession(d)' = GetSession(d) /\ t' = t
  BY DEF GetSession
<1>4. ActiveEngine(GetSession(d))' = ActiveEngine(GetSession(d))
  BY <1>3 DEF ActiveEngine, config
<1>5. Pools(t)' <=> Pools(t)
  BY <1>3 DEF Pools, config
<1>6. CASE t = None
  BY <1>3, <1>6 DEF TurnIsSound
<1>7. CASE t # None
  <2>1. t.conv <= Len(made) /\ (t.conv # 0 => made'[t.conv].engine = made[t.conv].engine)
    BY <1>1, <1>2, <1>7 DEF TurnIsSound
  <2> QED BY <1>1, <1>2, <1>3, <1>4, <1>5, <1>7, <2>1 DEF TurnIsSound
<1> QED BY <1>6, <1>7

LEMMA AsideKeeps ==
  ASSUME Nothing, Types, Grows, UNCHANGED config, NEW d \in Chats, ChatIsSound(d), Aside(d)
  PROVE  ChatIsSound(d)'
<1>1. /\ sessions[d] # None => sessions[d] \in SessionType
      /\ file[d] # None => file[d] \in SessionType
      /\ pool[d] \in Nat /\ Len(made) \in Nat /\ Len(made') \in Nat /\ forgotten[d] \in Nat
      /\ Len(made) <= Len(made') /\ \A v \in 1..Len(made) : made'[v].engine = made[v].engine
  BY Typed DEF Types, Grows
<1>2. /\ sessions'[d] = sessions[d] /\ pool'[d] = pool[d]
      /\ forgotten'[d] = forgotten[d] /\ back'[d] = back[d]
      /\ file'[d] \in {file[d], sessions[d], None}
  BY DEF Aside
<1>3. sessions'[d] # None => Sound(d, sessions[d])'
  BY <1>1, <1>2, SoundGrows DEF ChatIsSound, Sound
<1>4. file'[d] # None => Sound(d, file[d])'
  <2>1. file'[d] # None => file'[d] \in SessionType /\ Sound(d, file'[d])
    BY <1>1, <1>2 DEF ChatIsSound
  <2> QED BY <1>2, <2>1, SoundGrows DEF Sound
<1>5. forgotten'[d] <= Len(made')
  BY <1>1, <1>2 DEF ChatIsSound
<1>6. Saved(d)'
  BY <1>2 DEF ChatIsSound, Aside, Saved, Kept
<1>7. PoolIsClaudes(d)'
  BY <1>1, <1>2 DEF ChatIsSound, PoolIsClaudes
<1>8. HasExpected(d)'
  BY DEF ChatIsSound, Aside, HasExpected, ActiveEngine, config
<1>9. TurnIsSound(d)'
  BY TurnGrows DEF ChatIsSound, Aside
<1> QED BY <1>3, <1>4, <1>5, <1>6, <1>7, <1>8, <1>9 DEF ChatIsSound

\* What a setter leaves in the map and in the file.
LEMMA SetStores ==
  ASSUME Nothing, Types, NEW c \in Chats, NEW s \in SessionType, Set(c, s), s.id <= Len(made'),
         s.id # 0 => /\ Fresh(c, s.id)'
                     /\ s.idEngine # None => made'[s.id].engine = s.idEngine
  PROVE  /\ sessions' \in [Chats -> SessionType \cup {None}]
         /\ file' \in [Chats -> SessionType \cup {None}]
         /\ sessions'[c] = s /\ s # None
         /\ sessions'[c] # None => Sound(c, sessions[c])'
         /\ file'[c] # None => Sound(c, file[c])'
         /\ Saved(c)'
         /\ \A d \in Chats : d # c => /\ sessions'[d] = sessions[d]
                                      /\ file'[d] = IF Kept(sessions[d]) THEN sessions[d] ELSE None
<1>1. file'[c] \in {s, None} /\ sessions'[c] = s /\ (Kept(s) => file'[c] = s)
  BY SetFacts
<1> QED BY <1>1, SetFacts DEF Sound, Saved

LEMMA SoundNow ==
  ASSUME Nothing, Types, NEW c \in Chats, ChatIsSound(c)
  PROVE  /\ GetSession(c) \in SessionType /\ GetSession(c).id \in Nat
         /\ GetSession(c).id <= Len(made)
         /\ GetSession(c).id # 0 =>
              /\ Fresh(c, GetSession(c).id)
              /\ GetSession(c).idEngine # None => made[GetSession(c).id].engine = GetSession(c).idEngine
         /\ expected[c] # 0 => /\ GetSession(c).id = expected[c]
                               /\ GetSession(c).idEngine \in {None, ActiveEngine(GetSession(c))}
<1>1. made \in Seq(Conversation) /\ Len(made) \in Nat
  BY DEF Types
<1> QED BY <1>1, Typed DEF ChatIsSound, Sound, HasExpected, SessionType

LEMMA BeginKeeps ==
  ASSUME Nothing, ChatsInv, NEW c \in Chats, Begin(c) PROVE ChatStep(c)
<1> USE DEF ChatsInv
<1>1. ChatIsSound(c)
  OBVIOUS
<1>2. PICK s \in SessionType : s = Prepared(GetSession(c))
  BY Typed, PreparedFields
<1>3. /\ turn' = [turn EXCEPT ![c] =
             [phase |-> "begun", engine |-> ActiveEngine(s), conv |-> 0, heard |-> FALSE,
              pooled |-> FALSE, bare |-> FALSE, model |-> None, mine |-> TRUE,
              forgot |-> 0, back |-> {}, expect |-> 0]]
      /\ UNCHANGED <<config, registry, pool, made, history>>
      /\ \/ Set(c, s)
         \/ s = GetSession(c) /\ sessions' = [sessions EXCEPT ![c] = s] /\ UNCHANGED file
  BY <1>2 DEF Begin
<1>4. /\ ActiveEngine(s) = ActiveEngine(GetSession(c)) /\ ActiveEngine(s) \in Engines
      /\ s.model \in {None, ActiveEngine(s)}
      /\ s.id # 0 => /\ s.id = GetSession(c).id /\ s.idEngine = GetSession(c).idEngine
                     /\ s.idEngine \in {None, ActiveEngine(s)}
      /\ expected[c] # 0 => s.id = expected[c] /\ s.idEngine \in {None, ActiveEngine(s)}
  BY <1>1, <1>2, SoundNow, PreparedFields, ActiveType
<1>5. /\ s.id \in Nat /\ s.id <= Len(made') /\ Len(made) \in Nat
      /\ s.id # 0 => /\ Fresh(c, s.id)'
                     /\ s.idEngine # None => made'[s.id].engine = s.idEngine
  BY <1>1, <1>3, <1>4, SoundNow DEF history, SessionType, Types, Fresh
<1>6. /\ sessions' \in [Chats -> SessionType \cup {None}]
      /\ file' \in [Chats -> SessionType \cup {None}]
      /\ sessions'[c] = s /\ s # None
      /\ sessions'[c] # None => Sound(c, sessions[c])'
      /\ file'[c] # None => Sound(c, file[c])'
      /\ Saved(c)'
      /\ \A d \in Chats : d # c =>
           /\ sessions'[d] = sessions[d]
           /\ file'[d] \in {file[d], IF Kept(sessions[d]) THEN sessions[d] ELSE None}
  <2>1. CASE Set(c, s)
    BY <1>5, <2>1, SetStores
  <2>2. CASE s = GetSession(c) /\ sessions' = [sessions EXCEPT ![c] = s] /\ UNCHANGED file
    <3>1. sessions' \in [Chats -> SessionType \cup {None}] /\ sessions'[c] = s /\ s # None
      BY <2>2 DEF Types, Nothing
    <3>2. \A d \in Chats : d # c => sessions'[d] = sessions[d]
      BY <2>2 DEF Types
    <3>3. file' \in [Chats -> SessionType \cup {None}] /\ (file'[c] # None => Sound(c, file[c])')
      BY <1>1, <1>3, <2>2 DEF Types, ChatIsSound, Sound, history, Fresh
    <3>4. Sound(c, sessions[c])'
      BY <1>5, <3>1 DEF Sound
    <3>5. Saved(c)'
      <4>1. Kept(s) => sessions[c] = s
        BY <2>2 DEF GetSession, Kept, Blank
      <4> QED BY <1>1, <2>2, <3>1, <4>1 DEF ChatIsSound, Saved
    <3> QED BY <2>2, <3>1, <3>2, <3>3, <3>4, <3>5
  <2> QED BY <1>3, <2>1, <2>2
<1>7. turn' \in [Chats -> TurnType \cup {None}] /\ turn'[c] # None
  <2> DEFINE t ==
             [phase |-> "begun", engine |-> ActiveEngine(s), conv |-> 0, heard |-> FALSE,
              pooled |-> FALSE, bare |-> FALSE, model |-> None, mine |-> TRUE,
              forgot |-> 0, back |-> {}, expect |-> 0]
  <2>1. None \in Optional /\ ActiveEngine(s) \in Engines
    BY <1>4 DEF Optional
  <2>2. t \in TurnType
    BY <2>1 DEF TurnType, Phases
  <2>3. turn' = [turn EXCEPT ![c] = t]
    BY <1>3
  <2> HIDE DEF t
  <2> QED BY <2>2, <2>3 DEF Types, Nothing
<1>8. Types' /\ Grows /\ RowsKnown'
  BY <1>3, <1>6, <1>7 DEF Types, Grows, RowsKnown, config, registry, history
<1>9. HasExpected(c)'
  BY <1>3, <1>4, <1>6 DEF HasExpected, ActiveEngine, config, history
<1>10. TurnIsSound(c)'
  <2>1. GetSession(c)' = s /\ ActiveEngine(GetSession(c))' = ActiveEngine(s)
    BY <1>3, <1>6 DEF GetSession, ActiveEngine, config
  <2> QED BY <1>3, <1>4, <1>5, <2>1 DEF TurnIsSound, Types
<1>11. ChatIsSound(c)'
  <2>1. forgotten'[c] <= Len(made') /\ PoolIsClaudes(c)'
    BY <1>1, <1>3 DEF ChatIsSound, PoolIsClaudes, history
  <2> QED BY <1>6, <1>9, <1>10, <2>1 DEF ChatIsSound
<1>12. \A d \in Chats : d # c => Aside(d)
  BY <1>3, <1>6 DEF Aside, Types, history
<1> QED BY <1>3, <1>8, <1>11, <1>12 DEF ChatStep

\* What the start of a turn leaves of the invariant to show: that of its session.
LEMMA RunTypes ==
  ASSUME Nothing, ChatsInv, NEW c \in Chats, Grows, PoolKept(c), UNCHANGED <<config, row>>,
         NEW u \in TurnType, turn' = [turn EXCEPT ![c] = u],
         sessions' \in [Chats -> SessionType \cup {None}],
         file' \in [Chats -> SessionType \cup {None}],
         forgotten' \in [Chats -> Nat], back' \in [Chats -> SUBSET Nat], expected' \in [Chats -> Nat]
  PROVE  /\ Types' /\ RowsKnown' /\ PoolIsClaudes(c)'
         /\ turn'[c] = u /\ u # None
         /\ \A d \in Chats : d # c => turn'[d] = turn[d] /\ pool'[d] = pool[d]
<1> USE DEF ChatsInv
<1>1. row \in [Chats -> Nat \cup {None}] /\ Len(made) \in Nat /\ Len(made') \in Nat
  BY DEF Types, Grows
<1>2. Types' /\ PoolIsClaudes(c)'
  BY DEF Types, Grows, PoolKept, config, PoolIsClaudes
<1>3. RowsKnown'
  BY <1>1 DEF RowsKnown, Grows, Nothing
<1> QED BY <1>2, <1>3 DEF Types, PoolKept, Nothing

LEMMA RunKeeps ==
  ASSUME Nothing, ChatsInv, NEW c \in Chats, Run(c) PROVE ChatStep(c)
<1> USE DEF ChatsInv
<1>1. /\ ChatIsSound(c) /\ turn[c] \in TurnType /\ turn[c].phase = "begun"
      /\ UNCHANGED <<config, sessions, file, registry, history>>
  BY Typed DEF Run
<1>2. PICK s \in SessionType : s = GetSession(c)
  BY Typed
<1>3. PICK t \in TurnType : t = [turn[c] EXCEPT !.forgot = forgotten[c], !.back = back[c],
                                                !.expect = expected[c]]
  BY <1>1 DEF TurnType, Types
<1>4. /\ t.engine = turn[c].engine /\ t.mine = turn[c].mine
      /\ t.forgot = forgotten[c] /\ t.back = back[c] /\ t.expect = expected[c]
  BY <1>1, <1>3 DEF TurnType
<1>5. /\ s.id \in Nat /\ s.id <= Len(made)
      /\ s.id # 0 => /\ Fresh(c, s.id) /\ s.idEngine \in {None, t.engine}
                     /\ s.idEngine # None => made[s.id].engine = s.idEngine
      /\ expected[c] # 0 => s.id = expected[c]
      /\ t.mine => t.engine = ActiveEngine(s) /\ s.model \in {None, t.engine}
  <2>1. TurnIsSound(c) /\ turn[c] # None
    BY <1>1 DEF ChatIsSound, Run
  <2>2. /\ s.id # 0 => s.idEngine \in {None, t.engine}
        /\ t.mine => t.engine = ActiveEngine(s) /\ s.model \in {None, t.engine}
    BY <1>1, <1>2, <1>4, <2>1 DEF TurnIsSound
  <2> QED BY <1>1, <1>2, <2>2, SoundNow
<1>6. RunOneTurn(c, t, s, FALSE)
  BY <1>2, <1>3 DEF Run
<1>7. Grows /\ PoolKept(c) /\ \E u \in TurnType : turn' = [turn EXCEPT ![c] = u] /\ StartsAs(u, t, s, FALSE)
  BY <1>1, <1>5, <1>6, RunFacts DEF ChatIsSound
<1>8. PICK u \in TurnType : turn' = [turn EXCEPT ![c] = u] /\ StartsAs(u, t, s, FALSE)
  BY <1>7
<1>9. /\ Types' /\ RowsKnown' /\ PoolIsClaudes(c)' /\ turn'[c] = u /\ u # None
      /\ \A d \in Chats : d # c => turn'[d] = turn[d] /\ pool'[d] = pool[d]
  <2>1. /\ sessions' \in [Chats -> SessionType \cup {None}] /\ file' \in [Chats -> SessionType \cup {None}]
        /\ forgotten' \in [Chats -> Nat] /\ back' \in [Chats -> SUBSET Nat]
  /\ expected' \in [Chats -> Nat] /\ UNCHANGED <<config, row>>
    BY <1>1 DEF Types, history, registry
  <2> QED BY <1>7, <1>8, <2>1, RunTypes
<1>10. /\ Len(made) \in Nat /\ Len(made') \in Nat /\ Len(made) <= Len(made') /\ u.conv \in Nat
       /\ forgotten[c] \in Nat /\ forgotten[c] <= Len(made)
       /\ \A v \in 1..Len(made) : made'[v].engine = made[v].engine
  <2>1. u.conv \in Nat
    BY DEF TurnType
  <2>2. forgotten[c] \in Nat /\ forgotten[c] <= Len(made)
    BY <1>1 DEF Types, ChatIsSound
  <2>3. made \in Seq(Conversation) /\ made' \in Seq(Conversation)
    BY <1>7 DEF Types, Grows
  <2> QED BY <1>7, <2>1, <2>2, <2>3 DEF Grows
<1>11. TurnIsSound(c)'
  <2>1. GetSession(c)' = s /\ ActiveEngine(GetSession(c))' = ActiveEngine(s) /\ (Pools(u)' <=> Pools(u))
    BY <1>1, <1>2 DEF GetSession, ActiveEngine, config, Pools
  <2>2. u.phase \in {"running", "dying"} =>
          /\ u.conv # 0 /\ made'[u.conv].engine = u.engine
          /\ u.conv > u.forgot \/ u.conv \in u.back \/ (u.pooled /\ Pools(u))
          /\ u.expect # 0 => u.conv = u.expect \/ u.pooled
    BY <1>4, <1>5, <1>8, <1>10 DEF StartsAs, Fresh
  <2>3. u.phase = "refused" => u.conv # 0 /\ (u.bare \/ made'[u.conv].engine = u.engine)
    BY <1>4, <1>5, <1>8, <1>10 DEF StartsAs
  <2>4. u.phase # "begun" /\ u.conv <= Len(made')
    BY <1>8 DEF StartsAs
  <2>5. u.mine => /\ u.engine = ActiveEngine(s) /\ s.model \in {None, u.engine}
                  /\ u.model \in {None, u.engine}
    BY <1>5, <1>8 DEF StartsAs
  <2> QED BY <1>9, <2>1, <2>2, <2>3, <2>4, <2>5 DEF TurnIsSound
<1>12. ChatIsSound(c)'
  <2>1. /\ sessions[c] # None => Sound(c, sessions[c])'
        /\ file[c] # None => Sound(c, file[c])'
    BY <1>1, <1>7, SoundGrows, Typed DEF ChatIsSound, Sound, history
  <2>2. Saved(c)' /\ HasExpected(c)'
    BY <1>1 DEF ChatIsSound, Saved, HasExpected, ActiveEngine, history, config
  <2> QED BY <1>1, <1>9, <1>10, <1>11, <2>1, <2>2 DEF ChatIsSound, history
<1>13. \A d \in Chats : d # c => Aside(d)
  BY <1>1, <1>9 DEF Aside, history
<1> QED BY <1>1, <1>7, <1>9, <1>12, <1>13 DEF ChatStep

LEMMA SpeaksKeeps ==
  ASSUME Nothing, ChatsInv, NEW c \in Chats, Speaks(c) PROVE ChatStep(c)
<1> USE DEF ChatsInv
<1>1. /\ ChatIsSound(c) /\ turn[c] \in TurnType /\ turn[c].phase \in {"running", "dying"}
      /\ UNCHANGED <<config, registry, pool, made, forgotten>>
  BY Typed DEF Speaks, Running
<1>2. PICK t \in TurnType : t = turn[c]
  BY <1>1
<1>3. PICK s \in SessionType : s = GetSession(c)
  BY Typed
<1>4. /\ t # None /\ t.conv \in Nat /\ t.conv <= Len(made) /\ t.conv # 0 /\ t.engine \in Engines
      /\ made[t.conv].engine = t.engine
      /\ t.mine => t.engine = ActiveEngine(s) /\ s.model \in {None, t.engine}
      /\ Len(made) \in Nat /\ forgotten[c] \in Nat /\ forgotten[c] <= Len(made)
  <2>1. TurnIsSound(c) /\ turn[c] # None /\ forgotten[c] <= Len(made)
    BY <1>1 DEF ChatIsSound, Speaks, Running
  <2>2. t.conv \in Nat /\ t.engine \in Engines
    BY DEF TurnType
  <2> QED BY <1>1, <1>2, <1>3, <2>1, <2>2 DEF TurnIsSound, Types
<1>5. PICK w \in SessionType : w = WithId(s, t.conv, t.engine)
  BY <1>4, IdFields DEF Optional
<1>6. /\ w.id = t.conv /\ w.idEngine = t.engine /\ w.model = s.model
      /\ ActiveEngine(w) = ActiveEngine(s)
  BY <1>4, <1>5, IdFields DEF ActiveEngine, Optional
<1>7. /\ expected' = [expected EXCEPT ![c] = IF t.mine THEN t.conv ELSE 0]
      /\ back' = IF t.conv > forgotten[c] THEN back ELSE [back EXCEPT ![c] = @ \cup {t.conv}]
      /\ turn' = [turn EXCEPT ![c].heard = TRUE]
      /\ \/ Set(c, w)
         \/ s.id = t.conv /\ s.idEngine = t.engine /\ UNCHANGED <<sessions, file>>
  BY <1>2, <1>3, <1>5 DEF Speaks
<1>8. /\ forgotten' \in [Chats -> Nat] /\ back' \in [Chats -> SUBSET Nat]
      /\ expected' \in [Chats -> Nat]
      /\ forgotten'[c] = forgotten[c] /\ back[c] \subseteq back'[c] /\ Fresh(c, t.conv)'
      /\ expected'[c] = IF t.mine THEN t.conv ELSE 0
      /\ \A d \in Chats : d # c => /\ forgotten'[d] = forgotten[d] /\ back'[d] = back[d]
                                    /\ expected'[d] = expected[d]
  <2>1. /\ back' \in [Chats -> SUBSET Nat] /\ back[c] \subseteq back'[c]
        /\ t.conv > forgotten[c] \/ t.conv \in back'[c]
        /\ \A d \in Chats : d # c => back'[d] = back[d]
    <3>1. back \in [Chats -> SUBSET Nat]
      BY DEF Types
    <3>2. CASE t.conv > forgotten[c]
      BY <1>7, <3>1, <3>2
    <3>3. CASE ~(t.conv > forgotten[c])
      <4>1. back' = [back EXCEPT ![c] = back[c] \cup {t.conv}]
        BY <1>7, <3>3
      <4> QED BY <1>4, <3>1, <4>1
    <3> QED BY <3>2, <3>3
  <2>2. /\ expected' \in [Chats -> Nat] /\ expected'[c] = IF t.mine THEN t.conv ELSE 0
        /\ \A d \in Chats : d # c => expected'[d] = expected[d]
    BY <1>4, <1>7 DEF Types
  <2> QED BY <1>1, <2>1, <2>2 DEF Types, Fresh
<1>9. /\ sessions' \in [Chats -> SessionType \cup {None}]
      /\ file' \in [Chats -> SessionType \cup {None}]
      /\ sessions'[c] # None /\ sessions'[c].id = t.conv /\ sessions'[c].idEngine = t.engine
      /\ sessions'[c].model = s.model /\ ActiveEngine(sessions'[c]) = ActiveEngine(s)
      /\ sessions'[c] # None => Sound(c, sessions[c])'
      /\ file'[c] # None => Sound(c, file[c])'
      /\ Saved(c)'
      /\ \A d \in Chats : d # c =>
           /\ sessions'[d] = sessions[d]
           /\ file'[d] \in {file[d], IF Kept(sessions[d]) THEN sessions[d] ELSE None}
  <2>1. CASE Set(c, w)
    <3>1. /\ w.id <= Len(made')
          /\ Fresh(c, w.id)' /\ made'[w.id].engine = w.idEngine
      BY <1>1, <1>4, <1>6, <1>8
    <3>2. /\ sessions' \in [Chats -> SessionType \cup {None}]
          /\ file' \in [Chats -> SessionType \cup {None}]
          /\ sessions'[c] = w /\ w # None
          /\ sessions'[c] # None => Sound(c, sessions[c])'
          /\ file'[c] # None => Sound(c, file[c])'
          /\ Saved(c)'
          /\ \A d \in Chats : d # c => /\ sessions'[d] = sessions[d]
                                       /\ file'[d] = IF Kept(sessions[d]) THEN sessions[d] ELSE None
      BY <2>1, <3>1, SetStores
    <3> QED BY <1>6, <3>2
  <2>2. CASE s.id = t.conv /\ s.idEngine = t.engine /\ UNCHANGED <<sessions, file>>
    <3>1. sessions[c] # None /\ s = sessions[c]
      BY <1>3, <1>4, <2>2, Typed
    <3>2. Sound(c, sessions[c])' /\ Saved(c)'
      BY <1>1, <1>4, <1>8, <2>2, <3>1 DEF Sound, ChatIsSound, Saved
    <3>3. file'[c] # None => Sound(c, file[c])'
      <4>1. file[c] # None => file[c].id \in Nat
        BY Typed DEF SessionType
      <4> QED BY <1>1, <1>4, <1>8, <2>2, <4>1 DEF Sound, ChatIsSound, Fresh
    <3> QED BY <1>3, <2>2, <3>1, <3>2, <3>3 DEF Types
  <2> QED BY <1>7, <2>1, <2>2
<1>10. PICK u \in TurnType : u = [t EXCEPT !.heard = TRUE]
  BY DEF TurnType
<1>11. /\ turn' = [turn EXCEPT ![c] = u] /\ u # None
       /\ u.phase = t.phase /\ u.engine = t.engine /\ u.conv = t.conv /\ u.pooled = t.pooled
       /\ u.mine = t.mine /\ u.forgot = t.forgot /\ u.back = t.back /\ u.expect = t.expect /\ u.model = t.model
  BY <1>2, <1>7, <1>10 DEF TurnType, Nothing
<1>12. turn' \in [Chats -> TurnType \cup {None}] /\ turn'[c] = u
       /\ \A d \in Chats : d # c => turn'[d] = turn[d]
  BY <1>11 DEF Types
<1>13. Types' /\ Grows /\ RowsKnown'
  BY <1>1, <1>8, <1>9, <1>12 DEF Types, Grows, RowsKnown, config, registry
<1>14. HasExpected(c)'
  BY <1>1, <1>4, <1>8, <1>9 DEF HasExpected, ActiveEngine, config
<1>15. TurnIsSound(c)'
  <2>1. /\ GetSession(c)' = sessions'[c] /\ ActiveEngine(GetSession(c))' = ActiveEngine(s)
        /\ Pools(u)' <=> Pools(t)
    BY <1>1, <1>9, <1>11 DEF GetSession, ActiveEngine, config, Pools
  <2>2. TurnIsSound(c) /\ t.phase \in {"running", "dying"} /\ made' = made
    BY <1>1, <1>2 DEF ChatIsSound
  <2> QED BY <1>2, <1>3, <1>4, <1>9, <1>11, <1>12, <2>1, <2>2 DEF TurnIsSound
<1>16. ChatIsSound(c)'
  <2>1. forgotten'[c] <= Len(made') /\ PoolIsClaudes(c)'
    BY <1>1, <1>4, <1>8 DEF ChatIsSound, PoolIsClaudes
  <2> QED BY <1>9, <1>14, <1>15, <2>1 DEF ChatIsSound
<1>17. \A d \in Chats : d # c => Aside(d)
  BY <1>1, <1>8, <1>9, <1>12 DEF Aside
<1> QED BY <1>1, <1>13, <1>16, <1>17 DEF ChatStep

LEMMA RetryKeeps ==
  ASSUME Nothing, ChatsInv, NEW c \in Chats, Retry(c) PROVE ChatStep(c)
<1> USE DEF ChatsInv
<1>1. /\ ChatIsSound(c) /\ turn[c] # None /\ turn[c] \in TurnType /\ turn[c].phase = "refused"
      /\ UNCHANGED <<config, registry>> /\ Len(made) \in Nat
      /\ forgotten' = [forgotten EXCEPT ![c] = Len(made)]
      /\ back' = [back EXCEPT ![c] = {}]
      /\ expected' = [expected EXCEPT ![c] = 0]
  BY Typed DEF Retry, Leaves, Types
<1>2. PICK s \in SessionType : s = ResetSession(GetSession(c))
  BY Typed, ResetFields
<1>3. PICK t \in TurnType : t = [turn[c] EXCEPT !.forgot = Len(made), !.back = {}, !.expect = 0]
  BY <1>1 DEF TurnType
<1>4. /\ t.engine = turn[c].engine /\ t.mine = turn[c].mine /\ t.forgot = Len(made) /\ t.back = {} /\ t.expect = 0
  BY <1>1, <1>3 DEF TurnType
<1>5. /\ s.id = 0 /\ s.model = GetSession(c).model /\ ActiveEngine(s) = ActiveEngine(GetSession(c))
  BY <1>2, Typed, ResetFields DEF ActiveEngine
<1>6. t.mine => t.engine = ActiveEngine(s) /\ s.model \in {None, t.engine}
  BY <1>1, <1>4, <1>5 DEF ChatIsSound, TurnIsSound
<1>7. RunOneTurn(c, t, s, TRUE) /\ Set(c, s)
  BY <1>2, <1>3 DEF Retry
<1>8. Grows /\ PoolKept(c) /\ \E u \in TurnType : turn' = [turn EXCEPT ![c] = u] /\ StartsAs(u, t, s, TRUE)
  <2>1. s.id <= Len(made)
    BY <1>1, <1>5
  <2>2. PoolIsClaudes(c)
    BY <1>1 DEF ChatIsSound
  <2>3. RunOneTurn(c, t, s, TRUE)
    BY <1>7
  <2> QED BY <2>1, <2>2, <2>3, RunFacts
<1>9. PICK u \in TurnType : turn' = [turn EXCEPT ![c] = u] /\ StartsAs(u, t, s, TRUE)
  BY <1>8
<1>10. Len(made') \in Nat /\ Len(made) <= Len(made')
  BY <1>8 DEF Grows
<1>11. /\ sessions' \in [Chats -> SessionType \cup {None}]
       /\ file' \in [Chats -> SessionType \cup {None}]
       /\ sessions'[c] = s /\ s # None
       /\ sessions'[c] # None => Sound(c, sessions[c])'
       /\ file'[c] # None => Sound(c, file[c])'
       /\ Saved(c)'
       /\ \A d \in Chats : d # c => /\ sessions'[d] = sessions[d]
                                    /\ file'[d] = IF Kept(sessions[d]) THEN sessions[d] ELSE None
  BY <1>5, <1>7, <1>10, SetStores
<1>12. /\ forgotten' \in [Chats -> Nat] /\ back' \in [Chats -> SUBSET Nat]
  /\ expected' \in [Chats -> Nat]
       /\ forgotten'[c] = Len(made) /\ expected'[c] = 0
       /\ \A d \in Chats : d # c => /\ forgotten'[d] = forgotten[d] /\ back'[d] = back[d]
                                    /\ expected'[d] = expected[d]
  BY <1>1 DEF Types
<1>13. /\ Types' /\ RowsKnown' /\ PoolIsClaudes(c)' /\ turn'[c] = u /\ u # None
       /\ \A d \in Chats : d # c => turn'[d] = turn[d] /\ pool'[d] = pool[d]
  <2>1. UNCHANGED <<config, row>>
    BY <1>1 DEF registry
  <2> QED BY <1>8, <1>9, <1>11, <1>12, <2>1, RunTypes
<1>14. TurnIsSound(c)'
  <2>1. GetSession(c)' = s /\ ActiveEngine(GetSession(c))' = ActiveEngine(s) /\ (Pools(u)' <=> Pools(u))
    BY <1>1, <1>11 DEF GetSession, ActiveEngine, config, Pools
  <2>2. /\ u.phase = "running" /\ u.conv # 0 /\ u.conv <= Len(made') /\ made'[u.conv].engine = u.engine
        /\ u.conv > u.forgot \/ u.conv \in u.back \/ (u.pooled /\ Pools(u))
        /\ u.expect = 0
    BY <1>1, <1>4, <1>9 DEF StartsAs
  <2>3. u.mine => /\ u.engine = ActiveEngine(s) /\ s.model \in {None, u.engine}
                  /\ u.model \in {None, u.engine}
    BY <1>6, <1>9 DEF StartsAs
  <2> QED BY <1>13, <2>1, <2>2, <2>3 DEF TurnIsSound
<1>15. ChatIsSound(c)'
  BY <1>10, <1>11, <1>12, <1>13, <1>14 DEF ChatIsSound, HasExpected
<1>16. \A d \in Chats : d # c => Aside(d)
  BY <1>11, <1>12, <1>13 DEF Aside
<1> QED BY <1>1, <1>8, <1>13, <1>15, <1>16 DEF ChatStep

\* A command leaves the chat's turn on its way, or on its way out, but the
\* session may no longer be the one it was prepared with.
TurnKept(c) ==
  /\ turn' \in [Chats -> TurnType \cup {None}] /\ \A d \in Chats : d # c => turn'[d] = turn[d]
  /\ LET t == turn[c]  u == turn'[c]
     IN u # None =>
          /\ t # None /\ u.engine = t.engine /\ u.conv = t.conv /\ u.pooled = t.pooled
          /\ u.bare = t.bare /\ u.model = t.model /\ u.forgot = t.forgot /\ u.back = t.back /\ u.expect = t.expect
          /\ u.mine => t.mine
          /\ u.phase = t.phase \/ (t.phase = "running" /\ u.phase = "dying")

HistoryKept(c) ==
  /\ forgotten' \in [Chats -> Nat] /\ back' \in [Chats -> SUBSET Nat]
  /\ expected' \in [Chats -> Nat]
  /\ \A d \in Chats : d # c => /\ forgotten'[d] = forgotten[d] /\ back'[d] = back[d]
                                    /\ expected'[d] = expected[d]

LEMMA TurnKeeps ==
  ASSUME Nothing, ChatsInv, NEW c \in Chats, TurnKept(c), UNCHANGED <<config, made>>,
         NEW w \in SessionType, GetSession(c)' = w,
         turn[c] # None /\ turn[c].phase = "begun" => w.id = 0 \/ w.idEngine \in {None, turn[c].engine},
         turn'[c] # None /\ turn'[c].mine =>
           /\ ActiveEngine(w) = ActiveEngine(GetSession(c))
           /\ w.model \in {None, GetSession(c).model}
  PROVE  TurnIsSound(c)'
<1> USE DEF ChatsInv
<1>1. CASE turn'[c] = None
  BY <1>1 DEF TurnIsSound
<1>2. CASE turn'[c] # None
  <2>1. PICK t \in TurnType : t = turn[c]
    BY <1>2 DEF Types, TurnKept
  <2>2. PICK u \in TurnType : u = turn'[c]
    BY <1>2 DEF Types, TurnKept
  <2>3. PICK s \in SessionType : s = GetSession(c)
    BY Typed
  <2>4. /\ t # None /\ u # None /\ u.engine = t.engine /\ u.conv = t.conv /\ u.pooled = t.pooled
        /\ u.bare = t.bare /\ u.model = t.model /\ u.forgot = t.forgot /\ u.back = t.back /\ u.expect = t.expect
        /\ u.mine => t.mine
        /\ u.phase = t.phase \/ (t.phase = "running" /\ u.phase = "dying")
        /\ Pools(u)' <=> Pools(t)
    BY <1>2, <2>1, <2>2 DEF TurnKept, Pools, config
  <2>5. TurnIsSound(c)
    BY DEF ChatIsSound
  <2>6. /\ t.conv <= Len(made)
        /\ t.phase = "begun" => t.conv = 0
        /\ t.phase \in {"running", "dying"} =>
             /\ t.conv # 0 /\ made[t.conv].engine = t.engine
             /\ t.conv > t.forgot \/ t.conv \in t.back \/ (t.pooled /\ Pools(t))
             /\ t.expect # 0 => t.conv = t.expect \/ t.pooled
        /\ t.phase = "refused" => t.conv # 0 /\ (t.bare \/ made[t.conv].engine = t.engine)
        /\ t.mine => /\ t.engine = ActiveEngine(s)
                     /\ s.model \in {None, t.engine} /\ t.model \in {None, t.engine}
    BY <2>1, <2>3, <2>4, <2>5 DEF TurnIsSound
  <2>7. ActiveEngine(GetSession(c))' = ActiveEngine(w)
    BY DEF ActiveEngine, config
  <2>8. u.mine => u.engine = ActiveEngine(w) /\ w.model \in {None, u.engine} /\ u.model \in {None, u.engine}
    BY <1>2, <2>2, <2>3, <2>4, <2>6
  <2>9. u.phase = "begun" => u.conv = 0 /\ (w.id # 0 => w.idEngine \in {None, u.engine})
    BY <2>1, <2>4, <2>6
  <2>10. /\ u.conv <= Len(made')
         /\ u.phase \in {"running", "dying"} =>
              /\ u.conv # 0 /\ made'[u.conv].engine = u.engine
              /\ u.conv > u.forgot \/ u.conv \in u.back \/ (u.pooled /\ Pools(u)')
              /\ u.expect # 0 => u.conv = u.expect \/ u.pooled
         /\ u.phase = "refused" => u.conv # 0 /\ (u.bare \/ made'[u.conv].engine = u.engine)
    BY <2>4, <2>6
  <2> QED BY <2>2, <2>7, <2>8, <2>9, <2>10 DEF TurnIsSound
<1> QED BY <1>1, <1>2

\* What is left to show of a command that sets the session: that the new one is
\* sound, is what the chat expects, and suits a turn that waits for its start.
LEMMA CommandKeeps ==
  ASSUME Nothing, ChatsInv, NEW c \in Chats, NEW w \in SessionType, Set(c, w),
         UNCHANGED <<config, made, row>>, TurnKept(c), HistoryKept(c),
         pool' \in [Chats -> Nat], pool'[c] \in {0, pool[c]},
         \A d \in Chats : d # c => pool'[d] = pool[d],
         forgotten'[c] <= Len(made),
         w.id # 0 => /\ w.id <= Len(made) /\ Fresh(c, w.id)'
                     /\ w.idEngine # None => made[w.id].engine = w.idEngine,
         expected'[c] # 0 => w.id = expected'[c] /\ w.idEngine \in {None, ActiveEngine(w)},
         turn[c] # None /\ turn[c].phase = "begun" => w.id = 0 \/ w.idEngine \in {None, turn[c].engine},
         turn'[c] # None /\ turn'[c].mine =>
           /\ ActiveEngine(w) = ActiveEngine(GetSession(c))
           /\ w.model \in {None, GetSession(c).model}
  PROVE  ChatStep(c)
<1> USE DEF ChatsInv
<1>1. w.id <= Len(made') /\ made' = made /\ Len(made) \in Nat
  BY DEF Types, SessionType
<1>2. w.id # 0 => /\ Fresh(c, w.id)'
                  /\ w.idEngine # None => made'[w.id].engine = w.idEngine
  BY <1>1
<1>3. /\ sessions' \in [Chats -> SessionType \cup {None}]
      /\ file' \in [Chats -> SessionType \cup {None}]
      /\ sessions'[c] = w /\ w # None
      /\ sessions'[c] # None => Sound(c, sessions[c])'
      /\ file'[c] # None => Sound(c, file[c])'
      /\ Saved(c)'
      /\ \A d \in Chats : d # c => /\ sessions'[d] = sessions[d]
                                   /\ file'[d] = IF Kept(sessions[d]) THEN sessions[d] ELSE None
  BY <1>1, <1>2, SetStores
<1>4. GetSession(c)' = w
  BY <1>3 DEF GetSession
<1>5. TurnIsSound(c)'
  BY <1>4, TurnKeeps
<1>6. HasExpected(c)'
  BY <1>3 DEF HasExpected, ActiveEngine, config
<1>7. PoolIsClaudes(c)'
  BY <1>1 DEF ChatIsSound, PoolIsClaudes
<1>8. Types' /\ Grows /\ RowsKnown'
  BY <1>1, <1>3 DEF Types, Grows, RowsKnown, config, TurnKept, HistoryKept
<1>9. ChatIsSound(c)'
  BY <1>1, <1>3, <1>5, <1>6, <1>7 DEF ChatIsSound
<1>10. \A d \in Chats : d # c => Aside(d)
  BY <1>3 DEF Aside, TurnKept, HistoryKept
<1> QED BY <1>8, <1>9, <1>10 DEF ChatStep

LEMMA DisturbFields ==
  ASSUME Nothing, Types, NEW c \in Chats, turn' = Disturb(c)
  PROVE  TurnKept(c) /\ (turn'[c] # None => turn'[c].mine = FALSE)
<1>1. CASE turn[c] = None
  BY <1>1 DEF Disturb, TurnKept, Types
<1>2. CASE turn[c] # None
  <2>1. PICK t \in TurnType : t = turn[c]
    BY <1>2 DEF Types
  <2>2. PICK u \in TurnType : u = [t EXCEPT !.mine = FALSE]
    BY DEF TurnType
  <2>3. turn' = [turn EXCEPT ![c] = u]
    BY <1>2, <2>1, <2>2 DEF Disturb
  <2>4. /\ u.engine = t.engine /\ u.conv = t.conv /\ u.pooled = t.pooled
        /\ u.bare = t.bare /\ u.model = t.model /\ u.forgot = t.forgot /\ u.back = t.back /\ u.expect = t.expect
        /\ u.mine = FALSE /\ u.phase = t.phase
    BY <2>2 DEF TurnType
  <2>5. turn'[c] = u /\ turn' \in [Chats -> TurnType \cup {None}] /\ \A d \in Chats : d # c => turn'[d] = turn[d]
    BY <2>3 DEF Types
  <2> QED BY <1>2, <2>1, <2>4, <2>5 DEF TurnKept
<1> QED BY <1>1, <1>2

LEMMA LeavesKeeps ==
  ASSUME Types, NEW c \in Chats, Leaves(c)
  PROVE  HistoryKept(c) /\ forgotten'[c] = Len(made) /\ expected'[c] = 0 /\ Len(made) \in Nat
BY DEF Types, Leaves, HistoryKept

LEMMA SameTurn ==
  ASSUME Types, NEW c \in Chats PROVE turn' = turn => TurnKept(c)
BY DEF Types, TurnKept

LEMMA SwitchKeeps ==
  ASSUME Nothing, ChatsInv, NEW c \in Chats, NEW e \in Engines, SwitchEngine(c, e) PROVE ChatStep(c)
<1> USE DEF ChatsInv
<1>1. PICK s \in SessionType : s = GetSession(c)
  BY Typed
<1>2. PICK w \in SessionType : w = WithEngine(s, e)
  BY EngineFields DEF Optional
<1>3. w.id = 0
  <2>1. ActiveEngine(s) # e /\ e # None
    BY <1>1 DEF SwitchEngine, Nothing
  <2> QED BY <1>2, <2>1, EngineFields DEF Optional, ActiveEngine
<1>4. /\ Set(c, w) /\ Leaves(c) /\ turn' = Disturb(c) /\ UNCHANGED <<config, registry, pool, made>>
  BY <1>1, <1>2 DEF SwitchEngine
<1>5. /\ HistoryKept(c) /\ forgotten'[c] = Len(made) /\ expected'[c] = 0 /\ Len(made) \in Nat
      /\ TurnKept(c) /\ (turn'[c] # None => turn'[c].mine = FALSE)
  BY <1>4, LeavesKeeps, DisturbFields
<1>6. pool' \in [Chats -> Nat] /\ pool' = pool /\ UNCHANGED row
  BY <1>4 DEF Types, registry
<1> QED BY <1>3, <1>4, <1>5, <1>6, CommandKeeps

LEMMA ClearKeeps ==
  ASSUME Nothing, ChatsInv, NEW c \in Chats, ClearOverrides(c) PROVE ChatStep(c)
<1> USE DEF ChatsInv
<1>1. PICK s \in SessionType : s = GetSession(c)
  BY Typed
<1>2. None \in Optional /\ made \in Seq(Conversation) /\ Len(made) \in Nat
  BY DEF Optional, Types
<1>3. PICK m \in SessionType : m = WithModel(s, None)
  BY <1>2, ModelFields
<1>4. m.id = s.id /\ m.idEngine = s.idEngine /\ m.engine = s.engine /\ m.model = None
  BY <1>2, <1>3, ModelFields
<1>5. PICK w \in SessionType : w = WithEngine(m, None)
  BY <1>2, EngineFields
<1>6. IF m.engine = None THEN w = m ELSE w.id = 0 /\ w.idEngine = None
  BY <1>2, <1>5, EngineFields
<1>7. /\ Set(c, w) /\ UNCHANGED <<config, registry, pool, made>>
      /\ IF s.engine # None THEN Leaves(c) /\ turn' = Disturb(c) ELSE UNCHANGED <<history, turn>>
  BY <1>1, <1>3, <1>4, <1>5 DEF ClearOverrides
<1>8. pool' \in [Chats -> Nat] /\ pool' = pool /\ UNCHANGED row
  BY <1>7 DEF Types, registry
<1>9. CASE s.engine # None
  <2>1. /\ HistoryKept(c) /\ forgotten'[c] = Len(made) /\ expected'[c] = 0
        /\ TurnKept(c) /\ (turn'[c] # None => turn'[c].mine = FALSE)
    BY <1>7, <1>9, LeavesKeeps, DisturbFields
  <2>2. w.id = 0
    BY <1>4, <1>6, <1>9
  <2> QED BY <1>2, <1>7, <1>8, <2>1, <2>2, CommandKeeps
<1>10. CASE s.engine = None
  <2>1. /\ HistoryKept(c) /\ TurnKept(c) /\ turn' = turn
        /\ forgotten' = forgotten /\ back' = back /\ expected' = expected
    BY <1>7, <1>10, SameTurn DEF Types, HistoryKept, history
  <2>2. /\ w.id = s.id /\ w.idEngine = s.idEngine /\ w.model = None
        /\ ActiveEngine(w) = ActiveEngine(s)
    BY <1>4, <1>6, <1>10 DEF ActiveEngine
  <2>3. ChatIsSound(c)
    OBVIOUS
  <2>4. /\ forgotten'[c] <= Len(made)
        /\ w.id # 0 => /\ w.id <= Len(made) /\ Fresh(c, w.id)'
                       /\ w.idEngine # None => made[w.id].engine = w.idEngine
        /\ expected'[c] # 0 => w.id = expected'[c] /\ w.idEngine \in {None, ActiveEngine(w)}
    BY <1>1, <2>1, <2>2, <2>3, SoundNow DEF ChatIsSound, Fresh
  <2>5. turn[c] # None /\ turn[c].phase = "begun" => w.id = 0 \/ w.idEngine \in {None, turn[c].engine}
    BY <1>1, <2>2, <2>3 DEF ChatIsSound, TurnIsSound
  <2>6. ActiveEngine(w) = ActiveEngine(GetSession(c)) /\ w.model \in {None, GetSession(c).model}
    BY <1>1, <2>2
  <2> QED BY <1>7, <1>8, <2>1, <2>4, <2>5, <2>6, CommandKeeps
<1> QED BY <1>9, <1>10

LEMMA SetModelKeeps ==
  ASSUME Nothing, ChatsInv, NEW c \in Chats, SetModel(c) PROVE ChatStep(c)
<1> USE DEF ChatsInv
<1>1. PICK s \in SessionType : s = GetSession(c)
  BY Typed
<1>2. ActiveEngine(s) \in Optional
  BY ActiveType DEF Optional
<1>3. PICK w \in SessionType : w = WithModel(s, ActiveEngine(s))
  BY <1>2, ModelFields
<1>4. w.id = s.id /\ w.idEngine = s.idEngine /\ ActiveEngine(w) = ActiveEngine(s)
  BY <1>2, <1>3, ModelFields DEF ActiveEngine
<1>5. Set(c, w) /\ turn' = Disturb(c) /\ UNCHANGED <<config, registry, pool, made, history>>
  BY <1>1, <1>3 DEF SetModel
<1>6. /\ HistoryKept(c) /\ TurnKept(c)
      /\ forgotten' = forgotten /\ back' = back /\ expected' = expected
      /\ turn'[c] # None => turn'[c].mine = FALSE
  BY <1>5, DisturbFields DEF Types, HistoryKept, history
<1>7. pool' \in [Chats -> Nat] /\ pool' = pool /\ UNCHANGED row
  BY <1>5 DEF Types, registry
<1>8. ChatIsSound(c)
  OBVIOUS
<1>9. /\ forgotten'[c] <= Len(made)
      /\ w.id # 0 => /\ w.id <= Len(made) /\ Fresh(c, w.id)'
                     /\ w.idEngine # None => made[w.id].engine = w.idEngine
      /\ expected'[c] # 0 => w.id = expected'[c] /\ w.idEngine \in {None, ActiveEngine(w)}
  BY <1>1, <1>4, <1>6, <1>8, SoundNow DEF ChatIsSound, Fresh
<1>10. turn[c] # None /\ turn[c].phase = "begun" => w.id = 0 \/ w.idEngine \in {None, turn[c].engine}
  BY <1>1, <1>4, <1>8 DEF ChatIsSound, TurnIsSound
<1> QED BY <1>5, <1>6, <1>7, <1>9, <1>10, CommandKeeps

\* A step that leaves what a chat continues alone.
Untouched == UNCHANGED <<config, sessions, file, pool, turn, made, history>>

LEMMA UntouchedKeeps ==
  ASSUME Nothing, ChatsInv, NEW c \in Chats, Untouched,
         row' \in [Chats -> Nat \cup {None}],
         \A d \in Chats : row'[d] \in {row[d], None} \/ row'[d] <= Len(made)
  PROVE  ChatStep(c)
<1> USE DEF ChatsInv
<1>1. Types' /\ Grows
  BY DEF Types, Grows, Untouched, config, history
<1>2. RowsKnown'
  BY DEF RowsKnown, Untouched
<1>3. UNCHANGED config /\ \A d \in Chats : Aside(d)
  BY DEF Untouched, Aside, history
<1> QED BY <1>1, <1>2, <1>3, AsideKeeps DEF ChatStep

LEMMA AdoptKeeps ==
  ASSUME Nothing, ChatsInv, NEW c \in Chats, NEW r \in Chats, Adopt(c, r) PROVE ChatStep(c)
<1> USE DEF ChatsInv
<1>1. /\ row[r] # None /\ row[r] \in Nat /\ row[r] <= Len(made) /\ Len(made) \in Nat
      /\ UNCHANGED <<config, pool, made, row>>
  BY DEF Adopt, LinkChatId, RowsKnown, Types
<1>2. CASE row[r] = 0
  <2>1. Untouched
    BY <1>1, <1>2 DEF Adopt, Untouched, history, config
  <2> QED BY <1>1, <2>1, UntouchedKeeps DEF Types
<1>3. CASE row[r] # 0
  <2>1. None \in Optional
    BY DEF Optional
  <2>2. PICK v \in Nat : v = row[r]
    BY <1>1
  <2>3. PICK w \in SessionType : w = WithId(GetSession(c), v, None)
    BY <2>1, Typed, IdFields
  <2>4. w.id = v /\ w.idEngine = None
    BY <2>1, <2>3, Typed, IdFields
  <2>5. /\ Set(c, w) /\ turn' = Disturb(c)
        /\ expected' = [expected EXCEPT ![c] = IF Running(c) THEN 0 ELSE v]
        /\ forgotten' = [forgotten EXCEPT ![c] = 0] /\ back' = [back EXCEPT ![c] = {}]
    BY <1>3, <2>2, <2>3 DEF Adopt
  <2>6. /\ HistoryKept(c) /\ TurnKept(c) /\ forgotten'[c] = 0 /\ expected'[c] \in {0, v}
        /\ turn'[c] # None => turn'[c].mine = FALSE
    BY <2>5, DisturbFields DEF Types, HistoryKept
  <2>7. pool' \in [Chats -> Nat] /\ pool' = pool
    BY <1>1 DEF Types
  <2> QED BY <1>1, <1>3, <2>2, <2>4, <2>5, <2>6, <2>7, CommandKeeps DEF Fresh
<1> QED BY <1>2, <1>3

LEMMA ResetKeeps ==
  ASSUME Nothing, ChatsInv, NEW c \in Chats, Reset(c) PROVE ChatStep(c)
<1> USE DEF ChatsInv
<1>1. /\ UNCHANGED <<config, registry, made>> /\ pool' = [pool EXCEPT ![c] = 0]
      /\ ChatIsSound(c) /\ Len(made) \in Nat /\ forgotten[c] \in Nat
  BY DEF Reset, Types
<1>2. /\ pool' \in [Chats -> Nat] /\ pool'[c] = 0 /\ UNCHANGED row
      /\ \A d \in Chats : d # c => pool'[d] = pool[d]
  BY <1>1 DEF Types, registry
<1>3. TurnKept(c) /\ (turn'[c] # None => turn'[c].mine = FALSE)
  <2>1. CASE turn' = Disturb(c)
    BY <2>1, DisturbFields
  <2>2. CASE Running(c) /\ turn' = [Disturb(c) EXCEPT ![c].phase = "dying"]
    <3>1. PICK t \in TurnType : t = turn[c] /\ t # None /\ t.phase \in {"running", "dying"}
      BY <2>2 DEF Types, Running
    <3>2. PICK u \in TurnType : u = [t EXCEPT !.mine = FALSE, !.phase = "dying"]
      BY DEF TurnType, Phases
    <3>3. turn' = [turn EXCEPT ![c] = u]
      <4>1. Disturb(c) = [turn EXCEPT ![c] = [t EXCEPT !.mine = FALSE]]
        BY <3>1 DEF Disturb
      <4>2. [t EXCEPT !.mine = FALSE, !.phase = "dying"] = [[t EXCEPT !.mine = FALSE] EXCEPT !.phase = "dying"]
        BY DEF TurnType
      <4> QED BY <2>2, <3>2, <4>1, <4>2 DEF Types
    <3>4. /\ u.engine = t.engine /\ u.conv = t.conv /\ u.pooled = t.pooled
          /\ u.bare = t.bare /\ u.model = t.model /\ u.forgot = t.forgot /\ u.back = t.back /\ u.expect = t.expect
          /\ u.mine = FALSE /\ u.phase = "dying"
      BY <3>2 DEF TurnType
    <3>5. turn'[c] = u /\ turn' \in [Chats -> TurnType \cup {None}] /\ \A d \in Chats : d # c => turn'[d] = turn[d]
      BY <3>3 DEF Types
    <3> QED BY <3>1, <3>4, <3>5 DEF TurnKept
  <2> QED BY <2>1, <2>2 DEF Reset
<1>4. CASE sessions[c] # None
  <2>1. PICK w \in SessionType : w = ResetSession(sessions[c])
    BY <1>4, Typed, ResetFields
  <2>2. w.id = 0
    BY <1>4, <2>1, Typed, ResetFields
  <2>3. Set(c, w) /\ Leaves(c)
    BY <1>4, <2>1 DEF Reset
  <2>4. HistoryKept(c) /\ forgotten'[c] = Len(made) /\ expected'[c] = 0
    BY <2>3, LeavesKeeps
  <2> QED BY <1>1, <1>2, <1>3, <2>2, <2>3, <2>4, CommandKeeps
<1>5. CASE sessions[c] = None
  <2>1. /\ UNCHANGED <<sessions, file>>
        /\ forgotten' = [forgotten EXCEPT ![c] = Len(made)]
        /\ back' = [back EXCEPT ![c] = IF file[c] = None THEN {} ELSE {file[c].id}]
        /\ expected' = [expected EXCEPT ![c] = 0]
    BY <1>5 DEF Reset
  <2>9. file[c] # None => file[c].id \in Nat
    BY Typed DEF SessionType
  <2>2. /\ HistoryKept(c) /\ forgotten'[c] = Len(made) /\ expected'[c] = 0
        /\ file[c] # None => file[c].id \in back'[c]
    BY <1>1, <2>1, <2>9 DEF Types, HistoryKept
  <2>3. Types' /\ Grows /\ RowsKnown'
    BY <1>1, <1>2, <1>3, <2>1, <2>2 DEF Types, Grows, RowsKnown, config, TurnKept, HistoryKept
  <2>4. PICK s \in SessionType : s = GetSession(c) /\ s.id = 0
    BY <1>5, Typed
  <2>5. TurnIsSound(c)'
    <3>1. GetSession(c)' = s
      BY <2>1, <2>4 DEF GetSession
    <3> QED BY <1>1, <1>3, <2>4, <3>1, TurnKeeps
  <2>6. file'[c] # None => Sound(c, file[c])'
    <3>1. file[c] # None => file[c].id \in Nat
      BY Typed DEF SessionType
    <3> QED BY <1>1, <2>1, <2>2, <3>1 DEF ChatIsSound, Sound, Fresh
  <2>7. ChatIsSound(c)'
    BY <1>1, <1>2, <1>5, <2>1, <2>2, <2>5, <2>6 DEF ChatIsSound, Saved, Kept, PoolIsClaudes, HasExpected
  <2>8. \A d \in Chats : d # c => Aside(d)
    BY <1>2, <1>3, <2>1, <2>2 DEF Aside, TurnKept, HistoryKept
  <2> QED BY <1>1, <2>3, <2>7, <2>8 DEF ChatStep
<1> QED BY <1>4, <1>5

\* A step that at most ends the chat's turn, closes its executor or evicts its
\* session: less to be sound of.
LEMMA LessKeeps ==
  ASSUME Nothing, ChatsInv, NEW c \in Chats, UNCHANGED <<config, file, made, forgotten, back>>,
         row' \in [Chats -> Nat \cup {None}],
         \A d \in Chats : row'[d] \in {row[d], None} \/ row'[d] <= Len(made),
         sessions' \in {sessions, [sessions EXCEPT ![c] = None]},
         turn' \in {turn, [turn EXCEPT ![c] = None]}, pool' \in {pool, [pool EXCEPT ![c] = 0]},
         expected' \in {expected, [expected EXCEPT ![c] = 0]},
         sessions' # sessions => turn'[c] = None /\ expected'[c] = 0
  PROVE  ChatStep(c)
<1> USE DEF ChatsInv
<1>1. /\ sessions' \in [Chats -> SessionType \cup {None}] /\ turn' \in [Chats -> TurnType \cup {None}]
      /\ pool' \in [Chats -> Nat] /\ expected' \in [Chats -> Nat]
      /\ \A d \in Chats : d # c => /\ sessions'[d] = sessions[d] /\ turn'[d] = turn[d]
                                   /\ pool'[d] = pool[d] /\ expected'[d] = expected[d]
      /\ sessions'[c] \in {sessions[c], None} /\ turn'[c] \in {turn[c], None}
      /\ pool'[c] \in {pool[c], 0} /\ expected'[c] \in {expected[c], 0}
  <2>1. /\ sessions' \in [Chats -> SessionType \cup {None}] /\ sessions'[c] \in {sessions[c], None}
        /\ \A d \in Chats : d # c => sessions'[d] = sessions[d]
    BY DEF Types
  <2>2. /\ turn' \in [Chats -> TurnType \cup {None}] /\ turn'[c] \in {turn[c], None}
        /\ \A d \in Chats : d # c => turn'[d] = turn[d]
    BY DEF Types
  <2>3. /\ pool' \in [Chats -> Nat] /\ pool'[c] \in {pool[c], 0}
        /\ \A d \in Chats : d # c => pool'[d] = pool[d]
    <3>1. pool \in [Chats -> Nat]
      BY DEF Types
    <3>2. CASE pool' = pool
      BY <3>1, <3>2
    <3>3. CASE pool' = [pool EXCEPT ![c] = 0]
      BY <3>1, <3>3
    <3> QED BY <3>2, <3>3
  <2>4. /\ expected' \in [Chats -> Nat] /\ expected'[c] \in {expected[c], 0}
        /\ \A d \in Chats : d # c => expected'[d] = expected[d]
    <3>1. expected \in [Chats -> Nat]
      BY DEF Types
    <3>2. CASE expected' = expected
      BY <3>1, <3>2
    <3>3. CASE expected' = [expected EXCEPT ![c] = 0]
      BY <3>1, <3>3
    <3> QED BY <3>2, <3>3
  <2> QED BY <2>1, <2>2, <2>3, <2>4
<1>2. Types' /\ Grows /\ RowsKnown'
  BY <1>1 DEF Types, Grows, RowsKnown, config
<1>3. ChatIsSound(c)
  OBVIOUS
<1>4. /\ sessions'[c] # None => Sound(c, sessions[c])'
      /\ file'[c] # None => Sound(c, file[c])'
  BY <1>1, <1>3 DEF ChatIsSound, Sound, Fresh
<1>5. Saved(c)' /\ PoolIsClaudes(c)'
  BY <1>1, <1>3 DEF ChatIsSound, Saved, Kept, PoolIsClaudes
<1>6. HasExpected(c)'
  BY <1>1, <1>3 DEF ChatIsSound, HasExpected, ActiveEngine, config
<1>7. TurnIsSound(c)'
  <2>1. CASE turn'[c] = None
    BY <2>1 DEF TurnIsSound
  <2>2. CASE turn'[c] # None
    <3>1. UNCHANGED <<sessions[c], turn[c]>>
      BY <1>1, <2>2
    <3> QED BY <1>2, <1>3, <3>1, TurnGrows DEF ChatIsSound
  <2> QED BY <2>1, <2>2
<1>8. ChatIsSound(c)'
  BY <1>3, <1>4, <1>5, <1>6, <1>7 DEF ChatIsSound
<1>9. \A d \in Chats : d # c => Aside(d)
  BY <1>1 DEF Aside
<1> QED BY <1>2, <1>8, <1>9 DEF ChatStep

LEMMA EndKeeps ==
  ASSUME Nothing, ChatsInv, NEW c \in Chats,
         End(c) \/ DeleteSession(c) \/ EvictOldest(c) \/ ExecutorCloses(c)
  PROVE  ChatStep(c)
<1> USE DEF ChatsInv
<1>1. row \in [Chats -> Nat \cup {None}]
  BY DEF Types
<1>2. CASE End(c)
  <2>1. PICK v \in Nat : CreateOrUpdate(c, v) /\ v <= Len(made)
    <3>1. turn[c] \in TurnType /\ turn[c].conv \in Nat /\ Len(made) \in Nat
      BY <1>2, Typed DEF End, TurnType, Types
    <3>2. turn[c].conv <= Len(made)
      BY <1>2 DEF End, ChatIsSound, TurnIsSound
    <3> QED BY <1>2, <3>1, <3>2 DEF End
  <2>2. /\ row' \in [Chats -> Nat \cup {None}]
        /\ \A d \in Chats : row'[d] \in {row[d], None} \/ row'[d] <= Len(made)
    BY <1>1, <2>1 DEF CreateOrUpdate
  <2> QED BY <1>2, <2>2, LessKeeps DEF End, history
<1>3. CASE DeleteSession(c)
  <2>1. /\ row' \in [Chats -> Nat \cup {None}]
        /\ \A d \in Chats : row'[d] \in {row[d], None}
        /\ Untouched
    BY <1>1, <1>3 DEF DeleteSession, Untouched
  <2> QED BY <2>1, UntouchedKeeps
<1>4. CASE EvictOldest(c)
  BY <1>1, <1>4, LessKeeps DEF EvictOldest, registry, Types
<1>5. CASE ExecutorCloses(c)
  BY <1>1, <1>5, LessKeeps DEF ExecutorCloses, registry, history
<1> QED BY <1>2, <1>3, <1>4, <1>5

(* What happens to all chats at once. **************************************)

LEMMA ForgetsKeeps ==
  ASSUME Nothing, ChatsInv, NEW v \in 1..Len(made), EngineForgets(v) PROVE ChatsInv'
<1> USE DEF ChatsInv
<1>1. /\ UNCHANGED <<config, sessions, file, registry, pool, forgotten, back>>
      /\ made' = [made EXCEPT ![v].kept = FALSE]
      /\ expected' = [c \in Chats |-> IF expected[c] = v THEN 0 ELSE expected[c]]
      /\ turn' = [c \in Chats |->
           IF turn[c] # None /\ turn[c].expect = v THEN [turn[c] EXCEPT !.expect = 0] ELSE turn[c]]
  BY DEF EngineForgets
<1>2. /\ made' \in Seq(Conversation) /\ Len(made') = Len(made) /\ Len(made) \in Nat
      /\ \A i \in 1..Len(made) : made'[i].engine = made[i].engine
  <2>1. made \in Seq(Conversation) /\ made[v] \in Conversation
    BY DEF Types
  <2>2. [made[v] EXCEPT !.kept = FALSE] \in Conversation /\ [made[v] EXCEPT !.kept = FALSE].engine = made[v].engine
    BY <2>1 DEF Conversation
  <2>3. made' = [made EXCEPT ![v] = [made[v] EXCEPT !.kept = FALSE]]
    BY <1>1
  <2> QED BY <2>1, <2>2, <2>3, ExceptSeq
<1>3. Grows
  BY <1>2 DEF Grows
<1>4. ASSUME NEW c \in Chats
      PROVE  /\ turn'[c] \in TurnType \cup {None} /\ expected'[c] \in {0, expected[c]}
             /\ turn'[c] # None =>
                  LET t == turn[c]  u == turn'[c]
                  IN /\ t # None /\ u.engine = t.engine /\ u.conv = t.conv /\ u.pooled = t.pooled
                     /\ u.bare = t.bare /\ u.model = t.model /\ u.forgot = t.forgot /\ u.back = t.back
                     /\ u.expect \in {0, t.expect} /\ u.mine = t.mine /\ u.phase = t.phase
  <2>1. expected'[c] \in {0, expected[c]}
    BY <1>1
  <2>2. CASE turn[c] # None /\ turn[c].expect = v
    <3>1. PICK t \in TurnType : t = turn[c]
      BY <2>2 DEF Types
    <3>2. PICK u \in TurnType : u = [t EXCEPT !.expect = 0]
      BY DEF TurnType
    <3>3. /\ u.engine = t.engine /\ u.conv = t.conv /\ u.pooled = t.pooled
          /\ u.bare = t.bare /\ u.model = t.model /\ u.forgot = t.forgot /\ u.back = t.back
          /\ u.expect = 0 /\ u.mine = t.mine /\ u.phase = t.phase
      BY <3>2 DEF TurnType
    <3>4. turn'[c] = u
      BY <1>1, <2>2, <3>1, <3>2
    <3> QED BY <2>1, <2>2, <3>1, <3>3, <3>4
  <2>3. CASE ~(turn[c] # None /\ turn[c].expect = v)
    <3>1. turn'[c] = turn[c] /\ turn[c] \in TurnType \cup {None}
      BY <1>1, <2>3 DEF Types
    <3> QED BY <2>1, <3>1
  <2> QED BY <2>2, <2>3
<1>5. Types'
  <2>1. turn' \in [Chats -> TurnType \cup {None}]
    BY <1>1, <1>4
  <2>2. expected' \in [Chats -> Nat]
    BY <1>1 DEF Types
  <2> QED BY <1>1, <1>2, <2>1, <2>2 DEF Types, config, registry
<1>6. RowsKnown'
  BY <1>1, <1>2 DEF RowsKnown, registry
<1>7. ASSUME NEW c \in Chats PROVE ChatIsSound(c)'
  <2>1. /\ ChatIsSound(c) /\ pool[c] \in Nat
        /\ sessions[c] # None => sessions[c] \in SessionType /\ sessions[c].id \in Nat
        /\ file[c] # None => file[c] \in SessionType /\ file[c].id \in Nat
    BY Typed DEF Types, SessionType
  <2>2. sessions'[c] # None => Sound(c, sessions[c])'
    BY <1>1, <1>3, <2>1, SoundGrows DEF ChatIsSound, Sound
  <2>3. file'[c] # None => Sound(c, file[c])'
    BY <1>1, <1>3, <2>1, SoundGrows DEF ChatIsSound, Sound
  <2>4. Saved(c)' /\ PoolIsClaudes(c)' /\ forgotten'[c] <= Len(made')
    BY <1>1, <1>2, <2>1 DEF ChatIsSound, Saved, PoolIsClaudes
  <2>5. HasExpected(c)'
    BY <1>1, <1>4, <2>1 DEF ChatIsSound, HasExpected, ActiveEngine, config
  <2>6. TurnIsSound(c)'
    <3>1. CASE turn'[c] = None
      BY <3>1 DEF TurnIsSound
    <3>2. CASE turn'[c] # None
      <4>1. turn[c] # None /\ turn[c] \in TurnType /\ turn[c].conv \in Nat /\ TurnIsSound(c)
        BY <1>4, <2>1, <3>2 DEF Types, TurnType, ChatIsSound
      <4>2. /\ GetSession(c)' = GetSession(c)
            /\ ActiveEngine(GetSession(c))' = ActiveEngine(GetSession(c))
            /\ Pools(turn[c])' <=> Pools(turn[c])
        BY <1>1, <1>4, <3>2 DEF GetSession, ActiveEngine, Pools, config
      <4>3. turn[c].conv # 0 => made'[turn[c].conv].engine = made[turn[c].conv].engine
        BY <1>2, <4>1 DEF TurnIsSound
      <4> QED BY <1>2, <1>4, <3>2, <4>1, <4>2, <4>3 DEF TurnIsSound
    <3> QED BY <3>1, <3>2
  <2> QED BY <2>2, <2>3, <2>4, <2>5, <2>6 DEF ChatIsSound
<1> QED BY <1>5, <1>6, <1>7

LEMMA RestartKeeps ==
  ASSUME Nothing, ChatsInv, Crash \/ CrashInSave \/ Destroy PROVE ChatsInv'
<1> USE DEF ChatsInv
<1>1. /\ pool' = [c \in Chats |-> 0] /\ turn' = [c \in Chats |-> None]
      /\ UNCHANGED <<persistent, registry, made, forgotten, back>>
      /\ botEngine' \in Engines
  BY DEF Crash, CrashInSave, Destroy, Restarted, history, Types
<1>2. ASSUME NEW c \in Chats
      PROVE  /\ sessions'[c] \in {sessions[c], file[c], None}
             /\ file'[c] \in {sessions[c], file[c], None}
             /\ sessions'[c] # None => file'[c] = sessions'[c]
             /\ expected'[c] \in {0, expected[c]}
             /\ expected'[c] # 0 => botEngine' = botEngine /\ sessions'[c] = sessions[c]
  <2>1. ChatIsSound(c)
    OBVIOUS
  <2>2. expected[c] # 0 => Kept(sessions[c])
    BY <2>1 DEF ChatIsSound, HasExpected, Kept
  <2>3. CASE Crash
    BY <2>1, <2>2, <2>3 DEF Crash, Restarted, LoadFromDisk, history, ChatIsSound, Saved
  <2>4. CASE CrashInSave
    BY <2>4 DEF CrashInSave, Restarted
  <2>5. CASE Destroy
    BY <2>2, <2>5 DEF Destroy, Restarted, SaveToDisk
  <2> QED BY <2>3, <2>4, <2>5
<1>3. /\ sessions' \in [Chats -> SessionType \cup {None}] /\ file' \in [Chats -> SessionType \cup {None}]
      /\ expected' \in [Chats -> Nat]
  <2>1. CASE Crash
    BY <2>1 DEF Crash, Restarted, LoadFromDisk, history, Types
  <2>2. CASE CrashInSave
    BY <2>2 DEF CrashInSave, Restarted, Types
  <2>3. CASE Destroy
    BY <2>3 DEF Destroy, Restarted, SaveToDisk, Types
  <2> QED BY <2>1, <2>2, <2>3
<1>4. Types'
  BY <1>1, <1>3 DEF Types, registry
<1>5. RowsKnown'
  BY <1>1 DEF RowsKnown, registry
<1>6. ASSUME NEW c \in Chats PROVE ChatIsSound(c)'
  <2>1. ChatIsSound(c)
    OBVIOUS
  <2>2. sessions'[c] # None => Sound(c, sessions[c])'
    BY <1>1, <1>2, <2>1 DEF ChatIsSound, Sound, Fresh
  <2>3. file'[c] # None => Sound(c, file[c])'
    BY <1>1, <1>2, <2>1 DEF ChatIsSound, Sound, Fresh
  <2>4. Saved(c)'
    BY <1>2 DEF Saved, Kept
  <2>5. HasExpected(c)'
    BY <1>2, <2>1 DEF ChatIsSound, HasExpected, ActiveEngine
  <2>6. PoolIsClaudes(c)' /\ TurnIsSound(c)' /\ forgotten'[c] <= Len(made')
    BY <1>1, <2>1 DEF ChatIsSound, PoolIsClaudes, TurnIsSound
  <2> QED BY <2>2, <2>3, <2>4, <2>5, <2>6 DEF ChatIsSound
<1> QED BY <1>4, <1>5, <1>6

-----------------------------------------------------------------------------
LEMMA ChatStepKeeps ==
  ASSUME Nothing, ChatsInv, NEW c \in Chats, ChatStep(c) PROVE ChatsInv'
<1>1. ASSUME NEW d \in Chats PROVE ChatIsSound(d)'
  <2>1. CASE d = c
    BY <2>1 DEF ChatStep
  <2>2. CASE d # c
    BY <2>2, AsideKeeps DEF ChatsInv, ChatStep
  <2> QED BY <2>1, <2>2
<1> QED BY <1>1 DEF ChatsInv, ChatStep

LEMMA ChatsInit == ASSUME Nothing PROVE SessionsInit => ChatsInv
<1> SUFFICES ASSUME SessionsInit PROVE ChatsInv
  OBVIOUS
<1>1. Types
  BY DEF SessionsInit, Types
<1>2. RowsKnown
  BY DEF SessionsInit, RowsKnown
<1>3. made = <<>> /\ Len(made) = 0
  BY DEF SessionsInit
<1>4. ASSUME NEW c \in Chats PROVE ChatIsSound(c)
  BY <1>3 DEF SessionsInit, ChatIsSound, Saved, Kept, PoolIsClaudes, HasExpected, TurnIsSound
<1> QED BY <1>1, <1>2, <1>4 DEF ChatsInv

LEMMA ChatsStep == ASSUME Nothing, ChatsInv, [SessionsNext]_sessionsVars PROVE ChatsInv'
<1>1. ASSUME NEW c \in Chats, Begin(c) \/ Run(c) \/ Speaks(c) \/ Retry(c) \/ End(c) PROVE ChatsInv'
  BY <1>1, BeginKeeps, RunKeeps, SpeaksKeeps, RetryKeeps, EndKeeps, ChatStepKeeps
<1>2. ASSUME NEW c \in Chats,
             \/ Reset(c) \/ ClearOverrides(c) \/ SetModel(c) \/ DeleteSession(c)
             \/ \E e \in Engines : SwitchEngine(c, e)
             \/ \E r \in Chats : Adopt(c, r)
      PROVE  ChatsInv'
  BY <1>2, ResetKeeps, ClearKeeps, SetModelKeeps, EndKeeps, SwitchKeeps, AdoptKeeps, ChatStepKeeps
<1>3. ASSUME NEW c \in Chats, EvictOldest(c) \/ ExecutorCloses(c) PROVE ChatsInv'
  BY <1>3, EndKeeps, ChatStepKeeps
<1>4. ASSUME NEW v \in 1..Len(made), EngineForgets(v) PROVE ChatsInv'
  BY <1>4, ForgetsKeeps
<1>5. CASE Crash \/ CrashInSave \/ Destroy
  BY <1>5, RestartKeeps
<1>6. CASE UNCHANGED sessionsVars
  <2>1. /\ Types' /\ RowsKnown' /\ Grows /\ UNCHANGED config
        /\ \A c \in Chats : Aside(c)
    BY <1>6 DEF sessionsVars, ChatsInv, Types, RowsKnown, Grows, config, Aside
  <2> QED BY <2>1, AsideKeeps DEF ChatsInv
<1> QED BY <1>1, <1>2, <1>3, <1>4, <1>5, <1>6 DEF SessionsNext, Turns, Commands, Environment

LEMMA SoundTurns == ASSUME Nothing, ChatsInv PROVE TurnsContinueTheirOwnUnlessTakenUp
<1>1. ASSUME NEW c \in Chats, turn[c] # None
      PROVE  LET t == turn[c]
             IN /\ t.phase \in Phases
                /\ t.phase = "begun" => t.conv = 0
                /\ t.phase \in {"running", "dying"} =>
                     /\ t.conv # 0 /\ made[t.conv].engine = t.engine
                     /\ t.conv > t.forgot \/ t.conv \in t.back \/ (t.pooled /\ Pools(t))
                     /\ t.expect # 0 => t.conv = t.expect \/ t.pooled
                /\ t.phase = "refused" => t.bare \/ made[t.conv].engine = t.engine
                /\ t.mine => t.model \in {None, t.engine}
  <2>1. turn[c] \in TurnType /\ TurnIsSound(c)
    BY <1>1, Typed DEF ChatsInv, ChatIsSound
  <2> QED BY <1>1, <2>1 DEF TurnIsSound, TurnType
<1>2. ResumesOwnEngineUnlessAdopted
  BY <1>1 DEF ResumesOwnEngineUnlessAdopted, Phases
<1>3. LeftBehindUnlessWrittenBack /\ GoesOnUnlessPooled /\ ModelIsOfItsEngine
  BY <1>1 DEF LeftBehindUnlessWrittenBack, GoesOnUnlessPooled, ModelIsOfItsEngine, Running
<1> QED BY <1>2, <1>3 DEF TurnsContinueTheirOwnUnlessTakenUp

\* Through turns, /reset, /model, adoptions, evictions, closed executors, engines
\* that forget, crashes and restarts: a turn is of a conversation of its own engine
\* (or the id was adopted and the engine refused it), none the chat left, the one it
\* has every reason to go on with, and asks for a model of its engine, unless a
\* pooled executor is taken as it is, or the id that was left came back: written by
\* a turn that ran meanwhile, or kept in the file for an evicted chat
\* (prepareSessionForExecution, SessionManager, executeQuery's setSessionId).
THEOREM TurnsContinueTheirOwn ==
  ASSUME Nothing
  PROVE  SessionsSpec => []TurnsContinueTheirOwnUnlessTakenUp
<1>1. SessionsInit => ChatsInv
  BY ChatsInit
<1>2. ChatsInv /\ [SessionsNext]_sessionsVars => ChatsInv'
  BY ChatsStep
<1>3. ChatsInv => TurnsContinueTheirOwnUnlessTakenUp
  BY SoundTurns
<1> QED BY <1>1, <1>2, <1>3, PTL DEF SessionsSpec


(* The outputs of a task. ***************************************************)

Stages == {"none", "queued", "download", "card", "running", "final", "scan", "sending", "over"}
Begun == {"running", "final", "scan", "sending", "over"}

OutputTypes ==
  /\ KindOf \in [Tasks -> Kinds]
  /\ stage \in [Tasks -> Stages]
  /\ main \in Tasks \cup {NoTask}
  /\ messageQueue \in Seq(Tasks)
  /\ dir \in BOOLEAN /\ cleaning \in BOOLEAN
  /\ files \in [Files -> {"absent", "new", "old"}]
  /\ writer \in [Files -> Tasks \cup {NoTask}]
  /\ delivered \subseteq Files /\ refused \subseteq Files
  /\ outbox \in [Tasks -> SUBSET Files]
  /\ disturbed \subseteq Tasks /\ threw \subseteq Tasks

\* The bridge's queue holds the tasks that wait, each once.
Waits ==
  /\ \A i \in DOMAIN messageQueue : stage[messageQueue[i]] = "queued"
  /\ \A i, j \in DOMAIN messageQueue : messageQueue[i] = messageQueue[j] => i = j

\* A task alone has its directory, and no timer of it runs.
AloneHasDirectory == \A t \in UsingDir \ disturbed : dir /\ ~cleaning

\* Tasks side by side are disturbed.
SideBySide == \A t, u \in UsingDir : t # u => t \in disturbed

\* What an undisturbed task wrote is still there until it is in the outbox, and
\* from then on there or sent.
FileIsKept(f) ==
  LET t == writer[f]
  IN t # NoTask =>
       /\ stage[t] \in Begun
       /\ t \notin disturbed =>
            /\ stage[t] \in {"running", "final", "scan"} => files[f] # "absent"
            /\ stage[t] = "sending" /\ t \notin threw => f \in outbox[t] \cup delivered \cup refused
            /\ stage[t] = "over" /\ t \notin threw => f \in delivered \cup refused
WrittenIsKept == \A f \in Files : FileIsKept(f)

\* Before the loop the card is not there; after it nothing waits and, unless one
\* was slow, no update is on its way, so that none lands on the final card.
CardIsOrderly ==
  /\ watched \in Tasks
  /\ due \in BOOLEAN /\ waiting \in BOOLEAN /\ flying \in BOOLEAN /\ slow \in BOOLEAN
  /\ due /\ ~slow => ~flying
  /\ waiting => ~due
  /\ stage[watched] \in Stages \ Begun => card = "none" /\ ~flying /\ ~waiting
  /\ stage[watched] \in Begun \ {"running"} => ~waiting
  /\ stage[watched] \in {"scan", "sending", "over"} =>
       slow \/ (~flying /\ card \in {"none", "final", "text"})

OutputsInv ==
  OutputTypes /\ Waits /\ AloneHasDirectory /\ SideBySide /\ WrittenIsKept /\ CardIsOrderly

LEMMA OutputsStart == ASSUME OutputsAssumption, OutputsInit PROVE OutputsInv
<1>1. OutputTypes
  BY EmptySeq DEF OutputsAssumption, OutputsInit, OutputTypes, Stages
<1>2. Waits
  BY DEF OutputsInit, Waits
<1>3. AloneHasDirectory /\ SideBySide /\ WrittenIsKept
  BY DEF OutputsInit, AloneHasDirectory, SideBySide, WrittenIsKept, FileIsKept, UsingDir, Under
<1>4. CardIsOrderly
  BY DEF OutputsInit, CardIsOrderly, Begun, Stages
<1> QED BY <1>1, <1>2, <1>3, <1>4 DEF OutputsInv

\* A task whose directory is made ready.
LEMMA Preparing ==
  ASSUME OutputsInv, NEW t \in Tasks, stage[t] \in {"none", "download"},
         stage' = [stage EXCEPT ![t] = "card"], PrepareDir(t),
         disturbed' = IF UsingDir = {} THEN disturbed ELSE disturbed \cup UsingDir \cup {t},
         UNCHANGED <<main, messageQueue, outbox, cardVars>>
  PROVE  OutputsInv'
<1>1. OutputTypes'
  BY DEF OutputsInv, OutputTypes, PrepareDir, UsingDir, Under, Stages, cardVars
<1>2. UsingDir' = UsingDir \cup {t}
  BY DEF OutputsInv, OutputTypes, UsingDir, Under
<1>3. Waits'
  BY DEF OutputsInv, OutputTypes, Waits
<1>4. AloneHasDirectory' /\ SideBySide'
  BY <1>2 DEF OutputsInv, AloneHasDirectory, SideBySide, PrepareDir
<1>5. WrittenIsKept'
  <2> SUFFICES ASSUME NEW f \in Files PROVE FileIsKept(f)'
    BY DEF WrittenIsKept
  <2> QED BY DEF OutputsInv, OutputTypes, WrittenIsKept, FileIsKept, PrepareDir, UsingDir, Under, Begun, cardVars
<1>6. CardIsOrderly'
  BY DEF OutputsInv, OutputTypes, CardIsOrderly, cardVars, Begun, Stages
<1> QED BY <1>1, <1>3, <1>4, <1>5, <1>6 DEF OutputsInv

\* A task that goes on, or its card, while the directory and the queue stay as they
\* are.
Goes == {<<"card", "running">>, <<"card", "over">>, <<"running", "final">>,
         <<"final", "scan">>, <<"final", "sending">>}

LEMMA GoingOn ==
  ASSUME OutputsInv,
         stage' = stage \/ \E t \in Tasks, to \in Stages :
                             /\ stage' = [stage EXCEPT ![t] = to] /\ <<stage[t], to>> \in Goes
                             /\ to = "sending" => t \in threw,
         threw \subseteq threw', threw' \subseteq Tasks,
         UNCHANGED <<messageQueue, dirVars, outbox, disturbed>>,
         main' \in Tasks \cup {NoTask}, CardIsOrderly'
  PROVE  OutputsInv'
<1>1. OutputTypes'
  BY DEF OutputsInv, OutputTypes, dirVars
<1>2. UsingDir' \subseteq UsingDir
  BY DEF OutputsInv, OutputTypes, UsingDir, Under, Goes
<1>3. Waits'
  BY DEF OutputsInv, OutputTypes, Waits, Goes
<1>4. AloneHasDirectory' /\ SideBySide'
  BY <1>2 DEF OutputsInv, AloneHasDirectory, SideBySide, dirVars
<1>5. WrittenIsKept'
  <2> SUFFICES ASSUME NEW f \in Files PROVE FileIsKept(f)'
    BY DEF WrittenIsKept
  <2> QED BY DEF OutputsInv, OutputTypes, WrittenIsKept, FileIsKept, dirVars, Begun, Goes
<1> QED BY <1>1, <1>3, <1>4, <1>5 DEF OutputsInv

LEMMA ArrivingKeeps == ASSUME OutputsInv, NEW t \in Tasks, Arrives(t) PROVE OutputsInv'
<1>1. CASE main = NoTask /\ KindOf[t] # "media"
  BY <1>1, Preparing DEF Arrives, Begins
<1>2. CASE main = NoTask /\ KindOf[t] = "media"
  <2>1. /\ stage[t] = "none" /\ stage' = [stage EXCEPT ![t] = "download"]
        /\ UNCHANGED <<main, messageQueue, dirVars, outbox, disturbed, cardVars>>
    BY <1>2 DEF Arrives, Begins
  <2>2. UsingDir' = UsingDir
    BY <2>1 DEF OutputsInv, OutputTypes, UsingDir, Under
  <2>3. WrittenIsKept'
    <3> SUFFICES ASSUME NEW f \in Files PROVE FileIsKept(f)'
      BY DEF WrittenIsKept
    <3> QED BY <2>1 DEF OutputsInv, OutputTypes, WrittenIsKept, FileIsKept, dirVars, Begun, cardVars
  <2>4. OutputTypes' /\ Waits'
    BY <2>1 DEF OutputsInv, OutputTypes, Waits, dirVars, Stages, cardVars
  <2>5. AloneHasDirectory' /\ SideBySide'
    BY <2>1, <2>2 DEF OutputsInv, AloneHasDirectory, SideBySide, dirVars
  <2>6. CardIsOrderly'
    BY <2>1 DEF OutputsInv, OutputTypes, CardIsOrderly, cardVars, Begun, Stages
  <2> QED BY <2>3, <2>4, <2>5, <2>6 DEF OutputsInv
<1>3. CASE main # NoTask
  <2>1. /\ stage[t] = "none" /\ stage' = [stage EXCEPT ![t] = "queued"]
        /\ messageQueue' = Append(messageQueue, t)
        /\ UNCHANGED <<main, dirVars, outbox, disturbed, cardVars>>
    BY <1>3 DEF Arrives
  <2>2. UsingDir' = UsingDir
    BY <2>1 DEF OutputsInv, OutputTypes, UsingDir, Under
  <2>3. /\ messageQueue' \in Seq(Tasks) /\ Len(messageQueue') = Len(messageQueue) + 1
        /\ \A i \in 1..Len(messageQueue) : messageQueue'[i] = messageQueue[i]
        /\ messageQueue'[Len(messageQueue) + 1] = t
    BY <2>1, AppendProperties DEF OutputsInv, OutputTypes
  <2>4. Waits'
    <3>1. /\ DOMAIN messageQueue = 1..Len(messageQueue) /\ Len(messageQueue) \in Nat
          /\ DOMAIN messageQueue' = 1..(Len(messageQueue) + 1)
      BY <2>3, LenProperties DEF OutputsInv, OutputTypes
    <3>2. \A i \in DOMAIN messageQueue : messageQueue[i] \in Tasks /\ messageQueue[i] # t
      BY <2>1, <3>1, ElementOfSeq DEF OutputsInv, OutputTypes, Waits
    <3> QED BY <2>1, <2>3, <3>1, <3>2 DEF OutputsInv, OutputTypes, Waits
  <2>5. OutputTypes'
    BY <2>1, <2>3 DEF OutputsInv, OutputTypes, dirVars, Stages, cardVars
  <2>6. AloneHasDirectory' /\ SideBySide'
    BY <2>1, <2>2 DEF OutputsInv, AloneHasDirectory, SideBySide, dirVars
  <2>7. WrittenIsKept'
    <3> SUFFICES ASSUME NEW f \in Files PROVE FileIsKept(f)'
      BY DEF WrittenIsKept
    <3> QED BY <2>1 DEF OutputsInv, OutputTypes, WrittenIsKept, FileIsKept, dirVars, Begun, cardVars
  <2>8. CardIsOrderly'
    BY <2>1 DEF OutputsInv, OutputTypes, CardIsOrderly, cardVars, Begun, Stages
  <2> QED BY <2>4, <2>5, <2>6, <2>7, <2>8 DEF OutputsInv
<1> QED BY <1>1, <1>2, <1>3

\* The card of the task that is watched.
LEMMA CardGoesOn ==
  ASSUME OutputsInv,
         IntervalPasses \/ UpdateLands \/ \E t \in Tasks : StreamMessage(t) \/ LoopEnds(t) \/ FinalCard(t)
  PROVE  CardIsOrderly'
<1>1. CASE IntervalPasses
  BY <1>1 DEF OutputsInv, OutputTypes, CardIsOrderly, IntervalPasses, cardOnly
<1>2. CASE UpdateLands
  BY <1>2 DEF OutputsInv, OutputTypes, CardIsOrderly, UpdateLands, cardOnly, Begun, Stages
<1>3. ASSUME NEW t \in Tasks, StreamMessage(t) PROVE CardIsOrderly'
  BY <1>3 DEF OutputsInv, OutputTypes, CardIsOrderly, StreamMessage, cardOnly, Begun, Stages
<1>4. ASSUME NEW t \in Tasks, LoopEnds(t) PROVE CardIsOrderly'
  BY <1>4 DEF OutputsInv, OutputTypes, CardIsOrderly, LoopEnds, Cancel, cardOnly, Begun, Stages
<1>5. ASSUME NEW t \in Tasks, FinalCard(t) PROVE CardIsOrderly'
  BY <1>5 DEF OutputsInv, OutputTypes, CardIsOrderly, FinalCard, AfterCard, cardOnly, Begun, Stages
<1> QED BY <1>1, <1>2, <1>3, <1>4, <1>5

\* The directory changes under the tasks.
LEMMA DirectoryKeeps ==
  ASSUME OutputsInv, CleanupFires \/ \E f \in Files : Ages(f) \/ \E t \in Tasks : AgentWrites(t, f)
  PROVE  OutputsInv'
<1>1. UNCHANGED <<stage, main, messageQueue, outbox, disturbed, cardVars>> /\ UsingDir' = UsingDir
  BY DEF CleanupFires, Ages, AgentWrites, UsingDir, Under
<1>2. Waits' /\ SideBySide' /\ CardIsOrderly'
  BY <1>1 DEF OutputsInv, Waits, SideBySide, CardIsOrderly, cardVars
<1>3. CASE CleanupFires
  <2>1. UsingDir \subseteq disturbed
    BY <1>3 DEF CleanupFires, OutputsInv, AloneHasDirectory
  <2>2. OutputTypes' /\ AloneHasDirectory'
    BY <1>1, <1>3, <2>1 DEF CleanupFires, OutputsInv, OutputTypes, AloneHasDirectory, cardVars
  <2>3. ASSUME NEW f \in Files PROVE FileIsKept(f)'
    BY <1>3, <2>1 DEF CleanupFires, OutputsInv, OutputTypes, WrittenIsKept, FileIsKept, UsingDir, Under, cardVars
  <2> QED BY <1>2, <2>2, <2>3 DEF OutputsInv, WrittenIsKept
<1>4. ASSUME NEW g \in Files, Ages(g) PROVE OutputsInv'
  <2>1. OutputTypes' /\ AloneHasDirectory'
    BY <1>1, <1>4 DEF Ages, OutputsInv, OutputTypes, AloneHasDirectory, cardVars
  <2>2. ASSUME NEW f \in Files PROVE FileIsKept(f)'
    BY <1>4 DEF Ages, OutputsInv, OutputTypes, WrittenIsKept, FileIsKept, cardVars
  <2> QED BY <1>2, <2>1, <2>2 DEF OutputsInv, WrittenIsKept
<1>5. ASSUME NEW g \in Files, NEW t \in Tasks, AgentWrites(t, g) PROVE OutputsInv'
  <2>1. OutputTypes' /\ AloneHasDirectory'
    BY <1>1, <1>5 DEF AgentWrites, OutputsInv, OutputTypes, AloneHasDirectory, cardVars
  <2>2. ASSUME NEW f \in Files PROVE FileIsKept(f)'
    BY <1>5 DEF AgentWrites, OutputsInv, OutputTypes, WrittenIsKept, FileIsKept, Begun, cardVars
  <2> QED BY <1>2, <2>1, <2>2 DEF OutputsInv, WrittenIsKept
<1> QED BY <1>3, <1>4, <1>5

\* Files are found, and sent or skipped.
LEMMA SendingKeeps ==
  ASSUME OutputsInv, NEW t \in Tasks, ScanOutputs(t) \/ \E f \in Files : SendOutput(t, f)
  PROVE  OutputsInv'
<1>1. CASE ScanOutputs(t)
  <2>1. UsingDir' = UsingDir
    BY <1>1 DEF ScanOutputs, OutputsInv, OutputTypes, UsingDir, Under
  <2>2. OutputTypes' /\ Waits'
    BY <1>1 DEF ScanOutputs, OutputsInv, OutputTypes, Waits, dirVars, Stages, cardVars
  <2>3. AloneHasDirectory' /\ SideBySide'
    BY <1>1, <2>1 DEF ScanOutputs, OutputsInv, AloneHasDirectory, SideBySide, dirVars
  <2>4. ASSUME NEW f \in Files PROVE FileIsKept(f)'
    BY <1>1 DEF ScanOutputs, OutputsInv, OutputTypes, WrittenIsKept, FileIsKept, dirVars, Begun, cardVars
  <2>5. CardIsOrderly'
    BY <1>1 DEF ScanOutputs, OutputsInv, OutputTypes, CardIsOrderly, cardVars, Begun, Stages
  <2> QED BY <2>2, <2>3, <2>4, <2>5 DEF OutputsInv, WrittenIsKept
<1>2. ASSUME NEW g \in Files, SendOutput(t, g) PROVE OutputsInv'
  <2>1. OutputTypes' /\ Waits'
    BY <1>2 DEF SendOutput, OutputsInv, OutputTypes, Waits, cardVars
  <2>2. AloneHasDirectory' /\ SideBySide'
    BY <1>2 DEF SendOutput, OutputsInv, AloneHasDirectory, SideBySide, UsingDir, Under
  <2>3. ASSUME NEW f \in Files PROVE FileIsKept(f)'
    BY <1>2 DEF SendOutput, OutputsInv, OutputTypes, WrittenIsKept, FileIsKept, cardVars
  <2>4. CardIsOrderly'
    BY <1>2 DEF SendOutput, OutputsInv, CardIsOrderly, cardVars
  <2> QED BY <2>1, <2>2, <2>3, <2>4 DEF OutputsInv, WrittenIsKept
<1> QED BY <1>1, <1>2

\* The first of the queue leaves it.
LEMMA FirstLeaves ==
  ASSUME OutputsInv, messageQueue # <<>>
  PROVE  /\ Head(messageQueue) \in Tasks /\ stage[Head(messageQueue)] = "queued"
         /\ Tail(messageQueue) \in Seq(Tasks)
         /\ \A i \in DOMAIN Tail(messageQueue) :
              /\ i + 1 \in DOMAIN messageQueue
              /\ Tail(messageQueue)[i] = messageQueue[i + 1]
              /\ Tail(messageQueue)[i] # Head(messageQueue)
<1> DEFINE q == messageQueue
<1>1. q \in Seq(Tasks) /\ Waits
  BY DEF OutputsInv, OutputTypes
<1>2. /\ Len(q) \in Nat /\ DOMAIN q = 1..Len(q) /\ q # <<>> /\ Len(q) # 0
  BY <1>1, LenProperties, EmptySeq
<1>3. Head(q) = q[1]
  BY <1>1
<1>4. /\ Head(q) \in Tasks /\ Tail(q) \in Seq(Tasks) /\ Len(Tail(q)) = Len(q) - 1
      /\ \A i \in 1..Len(Tail(q)) : Tail(q)[i] = q[i + 1]
  BY <1>1, <1>2, HeadTailProperties
<1>5. DOMAIN Tail(q) = 1..(Len(q) - 1)
  BY <1>4, LenProperties
<1>6. 1 \in DOMAIN q /\ \A i \in 1..(Len(q) - 1) : i + 1 \in DOMAIN q /\ i + 1 # 1
  BY <1>2
<1> HIDE DEF q
<1>7. stage[Head(q)] = "queued" /\ \A i \in DOMAIN Tail(q) : q[i + 1] # Head(q)
  BY <1>1, <1>3, <1>5, <1>6 DEF Waits, q
<1> QED BY <1>4, <1>5, <1>6, <1>7 DEF q

LEMMA EndingKeeps == ASSUME OutputsAssumption, OutputsInv, NEW t \in Tasks, TaskEnds(t) PROVE OutputsInv'
<1> DEFINE n == Head(messageQueue)
<1> DEFINE frees == main = t \/ KindOf[t] = "api"
<1> DEFINE next == frees /\ messageQueue # <<>>
<1>1. next => n \in Tasks /\ stage[n] = "queued" /\ n # t
  BY FirstLeaves DEF TaskEnds
<1> HIDE DEF n
<1>2. /\ \A u \in Tasks :
              \/ (u = t /\ stage'[u] = "over")
              \/ (u # t /\ stage'[u] = stage[u] /\ (next => u # n))
              \/ (next /\ u = n /\ stage'[u] = "card")
              \/ (next /\ u = n /\ stage'[u] = "download")
      /\ stage' \in [Tasks -> Stages]
      /\ disturbed' = disturbed \cup UsingDir' /\ disturbed' \subseteq Tasks
      /\ UNCHANGED <<KindOf, writer, delivered, refused, outbox, cardVars>>
      /\ outbox[t] = {} /\ stage[t] = "sending"
  <2>4. /\ disturbed' = disturbed \cup UsingDir' /\ disturbed' \subseteq Tasks
        /\ UNCHANGED <<KindOf, writer, delivered, refused, outbox, cardVars>>
        /\ outbox[t] = {} /\ stage[t] = "sending" /\ stage \in [Tasks -> Stages]
    BY DEF TaskEnds, OutputsInv, OutputTypes, UsingDir, Under
  <2>1. CASE ~frees
    BY <2>1, <2>4 DEF TaskEnds, Stages
  <2>2. CASE frees /\ messageQueue = <<>>
    BY <2>2, <2>4 DEF TaskEnds, ProcessQueue, Stages
  <2>3. CASE next
    <3>1. stage' = [stage EXCEPT ![t] = "over", ![n] = IF KindOf[n] # "media" THEN "card" ELSE "download"]
      BY <2>3 DEF TaskEnds, ProcessQueue, n
    <3> QED BY <1>1, <2>3, <2>4, <3>1 DEF Stages
  <2> QED BY <2>1, <2>2, <2>3
<1>3. UsingDir' \subseteq disturbed'
  BY <1>2
<1>4. AloneHasDirectory' /\ SideBySide'
  BY <1>3 DEF AloneHasDirectory, SideBySide
<1>5. ASSUME NEW f \in Files PROVE FileIsKept(f)'
  BY <1>1, <1>2, <1>3 DEF OutputsInv, OutputTypes, WrittenIsKept, FileIsKept, UsingDir, Under, Begun, cardVars
<1>6. CardIsOrderly'
  BY <1>1, <1>2 DEF OutputsInv, OutputTypes, CardIsOrderly, cardVars, Begun, Stages
<1>7. Waits' /\ messageQueue' \in Seq(Tasks)
  <2>1. CASE next
    <3>1. messageQueue' = Tail(messageQueue)
      BY <2>1 DEF TaskEnds, ProcessQueue
    <3>2. messageQueue' \in Seq(Tasks)
      BY <2>1, <3>1, FirstLeaves
    <3>3. ASSUME NEW i \in DOMAIN messageQueue'
          PROVE  /\ i + 1 \in DOMAIN messageQueue /\ messageQueue'[i] = messageQueue[i + 1]
                 /\ messageQueue'[i] # n /\ messageQueue'[i] \in Tasks /\ i \in Nat
      BY <2>1, <3>1, <3>2, FirstLeaves, ElementOfSeq, LenProperties DEF n
    <3>4. Waits'
      BY <1>2, <2>1, <3>3 DEF OutputsInv, Waits
    <3> QED BY <3>2, <3>4
  <2>2. CASE ~next
    <3>1. messageQueue' = messageQueue
      BY <2>2 DEF TaskEnds, ProcessQueue
    <3>2. \A i \in DOMAIN messageQueue : messageQueue[i] \in Tasks
      BY ElementOfSeq, LenProperties DEF OutputsInv, OutputTypes
    <3> QED BY <1>2, <2>2, <3>1, <3>2 DEF OutputsInv, OutputTypes, Waits
  <2> QED BY <2>1, <2>2
<1>8. dir' \in BOOLEAN /\ cleaning' \in BOOLEAN /\ files' \in [Files -> {"absent", "new", "old"}]
      /\ main' \in Tasks \cup {NoTask}
  BY DEF TaskEnds, ProcessQueue, Cleanup, OutputsInv, OutputTypes
<1> QED BY <1>2, <1>4, <1>5, <1>6, <1>7, <1>8 DEF OutputsInv, OutputTypes, WrittenIsKept, cardVars

LEMMA OutputsStep == ASSUME OutputsAssumption, OutputsInv, [OutputsNext]_outputsVars PROVE OutputsInv'
<1>1. ASSUME NEW t \in Tasks, Arrives(t) PROVE OutputsInv'
  BY <1>1, ArrivingKeeps
<1>2. ASSUME NEW t \in Tasks, StartsApi(t) PROVE OutputsInv'
  <2>1. stage[t] = "none" /\ KindOf[t] # "media"
    BY <1>2 DEF StartsApi
  <2> QED BY <1>2, <2>1, Preparing DEF StartsApi, Begins
<1>3. ASSUME NEW t \in Tasks, Downloaded(t) PROVE OutputsInv'
  BY <1>3, Preparing DEF Downloaded
<1>4. ASSUME NEW t \in Tasks, CardSent(t) PROVE OutputsInv'
  <2>1. CardIsOrderly'
    BY <1>4 DEF CardSent, OutputsInv, OutputTypes, CardIsOrderly, Begun, Stages
  <2>2. main' \in Tasks \cup {NoTask} /\ "running" \in Stages
    BY <1>4 DEF CardSent, OutputsInv, OutputTypes, Stages
  <2>3. threw \subseteq threw' /\ threw' \subseteq Tasks
    BY <1>4 DEF CardSent, OutputsInv, OutputTypes
  <2> QED BY <1>4, <2>1, <2>2, <2>3, GoingOn DEF CardSent, Goes
<1>5. ASSUME NEW t \in Tasks, CardFails(t) PROVE OutputsInv'
  <2>1. CardIsOrderly'
    BY <1>5 DEF CardFails, OutputsInv, OutputTypes, CardIsOrderly, cardVars, Begun, Stages
  <2>2. main' \in Tasks \cup {NoTask} /\ "over" \in Stages
    BY <1>5 DEF CardFails, OutputsInv, OutputTypes, Stages
  <2>3. threw \subseteq threw' /\ threw' \subseteq Tasks
    BY <1>5 DEF CardFails, OutputsInv, OutputTypes, cardVars
  <2> QED BY <1>5, <2>1, <2>2, <2>3, GoingOn DEF CardFails, Goes
<1>6. CASE IntervalPasses \/ UpdateLands \/ \E t \in Tasks : StreamMessage(t) \/ LoopEnds(t) \/ FinalCard(t)
  <2>1. CardIsOrderly'
    BY <1>6, CardGoesOn
  <2>2. /\ UNCHANGED <<main, messageQueue, dirVars, outbox, disturbed>>
        /\ stage' = stage \/ \E t \in Tasks, to \in Stages :
                               /\ stage' = [stage EXCEPT ![t] = to] /\ <<stage[t], to>> \in Goes
                               /\ to = "sending" => t \in threw
        /\ threw \subseteq threw' /\ threw' \subseteq Tasks
    BY <1>6 DEF IntervalPasses, UpdateLands, StreamMessage, LoopEnds, FinalCard, AfterCard,
                cardOnly, Goes, Stages, OutputsInv, OutputTypes
  <2>3. main' \in Tasks \cup {NoTask}
    BY <2>2 DEF OutputsInv, OutputTypes
  <2> QED BY <2>1, <2>2, <2>3, GoingOn
<1>7. CASE CleanupFires \/ \E f \in Files : Ages(f) \/ \E t \in Tasks : AgentWrites(t, f)
  BY <1>7, DirectoryKeeps
<1>8. ASSUME NEW t \in Tasks, ScanOutputs(t) \/ \E f \in Files : SendOutput(t, f) PROVE OutputsInv'
  BY <1>8, SendingKeeps
<1>9. ASSUME NEW t \in Tasks, TaskEnds(t) PROVE OutputsInv'
  BY <1>9, EndingKeeps
<1>10. CASE UNCHANGED outputsVars
  <2>1. UsingDir' = UsingDir
    BY <1>10 DEF outputsVars, UsingDir, Under
  <2>2. OutputTypes' /\ Waits' /\ AloneHasDirectory' /\ SideBySide'
    BY <1>10, <2>1 DEF outputsVars, dirVars, OutputsInv, OutputTypes, Waits, AloneHasDirectory, SideBySide, cardVars
  <2>3. WrittenIsKept' /\ CardIsOrderly'
    BY <1>10 DEF outputsVars, dirVars, cardVars, OutputsInv, WrittenIsKept, FileIsKept, CardIsOrderly
  <2> QED BY <2>2, <2>3 DEF OutputsInv
<1> QED BY <1>1, <1>2, <1>3, <1>4, <1>5, <1>6, <1>7, <1>8, <1>9, <1>10 DEF OutputsNext

LEMMA OutputsAreLeft == ASSUME OutputsAssumption, OutputsInv PROVE TaskLeavesItsResultUnlessSharedOrThrown
<1>1. WorkingHasDirectoryUnlessShared
  BY DEF OutputsInv, AloneHasDirectory, WorkingHasDirectoryUnlessShared, AtWork, UsingDir, Under
<1>2. OutputsAreSentUnlessSharedOrThrown
  BY DEF OutputsInv, WrittenIsKept, FileIsKept, OutputsAreSentUnlessSharedOrThrown
<1>3. FinalCardStandsUnlessSlow
  BY DEF OutputsInv, CardIsOrderly, FinalCardStandsUnlessSlow
<1> QED BY <1>1, <1>2, <1>3 DEF TaskLeavesItsResultUnlessSharedOrThrown

\* For every number of tasks, files, retries and updates: a task at work has its
\* directory, the files it wrote are sent before it is over, and no late update
\* lands on its final card, unless tasks share the directory, the finally block of
\* the one before armed the clean-up behind it, its stream threw (then its files are
\* not sent), or an update outlasts the interval
\* (OutputsManager, OutputHandler, RateLimiter.cancelAndWait, executeQuery).
THEOREM TasksLeaveTheirResults == OutputsSpec => []TaskLeavesItsResultUnlessSharedOrThrown
<1>1. OutputsAssumption
  BY OutputsAssumption
<1>2. OutputsInit => OutputsInv
  BY <1>1, OutputsStart
<1>3. OutputsInv /\ [OutputsNext]_outputsVars => OutputsInv'
  BY <1>1, OutputsStep
<1>4. OutputsInv => TaskLeavesItsResultUnlessSharedOrThrown
  BY <1>1, OutputsAreLeft
<1> QED BY <1>2, <1>3, <1>4, PTL DEF OutputsSpec
=============================================================================
