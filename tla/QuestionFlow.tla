---------------------------- MODULE QuestionFlow ----------------------------
(***************************************************************************)
(* How an AskUserQuestion call of the agent reaches the user of one chat   *)
(* and how the answer gets back (bridge/message-bridge.ts, with the        *)
(* question hook of engines/claude/persistent-executor.ts and the question *)
(* queue of engines/claude/stream-processor.ts).                           *)
(*                                                                         *)
(* A call holds one or more sub-questions and blocks a hook of the SDK     *)
(* until the bridge resolves it or six minutes have passed.  During a turn *)
(* the call is also a message of the turn's stream, and what the bridge    *)
(* does with it depends on the loop that reads the stream: executeQuery    *)
(* ("chat"), executeApiTask ("api") or handleContinuationTurn ("cont").    *)
(* Between turns the executor's event shows it.  Every await of a card     *)
(* call is a point where other handlers run.                               *)
(***************************************************************************)
EXTENDS Naturals, Sequences, FiniteSets

CONSTANTS
  Questions,     \* AskUserQuestion calls
  Subs,          \* how many sub-questions each has
  Kinds,         \* the loops a turn may be read by
  MaxNoise,      \* bound: other messages of the turn's stream
  MaxTexts,      \* bound: texts of the user that answer something
  NoQuestion

\* The tool's schema asks for at least one sub-question.
ASSUME QuestionAssumption ==
  /\ Subs \in [Questions -> Nat \ {0}] /\ NoQuestion \notin Questions
  /\ MaxNoise \in Nat /\ MaxTexts \in Nat

VARIABLES
  \* the executor and its SDK
  alive,       \* the chat's executor is in the pool
  turn,        \* activeTurn: not begun, in flight, over
  inTurn,      \* calls made during the turn
  hook,        \* state of each call's hook; its resolver is set while it waits
  got,         \* sub-questions whose answers the hook received
  stray,       \* calls answered by sendAnswer: no hook was waiting
  wire,        \* the turn's stream
  \* the loop that reads the stream
  kind, loop, showing, aborted,
  procQ,       \* StreamProcessor._pendingQuestions
  \* the RunningTask
  pending, index, collected, timer, leaked, card,
  answering,   \* handleAnswer calls awaiting the card update
  cardSends,   \* handleAnswer calls awaiting the next question's card
  surfaced,    \* surfacedQuestionIds of a continuation
  \* between turns
  slot,        \* pendingBetweenTurnQuestions
  sending,     \* handleBetweenTurnQuestion calls awaiting their card
  \* time and bounds
  onTime,      \* calls whose bridge timer started with their hook's
  noise, texts

sdkVars  == <<alive, turn, inTurn, wire, noise>>
hookVars == <<hook, got, stray>>
loopVars == <<kind, loop, showing, aborted>>
taskVars == <<procQ, pending, index, collected, timer, leaked, card, answering,
              cardSends, onTime>>
slotVars == <<slot, sending, surfaced>>
vars == <<sdkVars, hookVars, loopVars, taskVars, slotVars, texts>>

Maybe == Questions \cup {NoQuestion}

Init ==
  /\ alive = TRUE /\ turn = "none" /\ inTurn = {} /\ wire = <<>> /\ noise = 0
  /\ hook = [q \in Questions |-> "unasked"]
  /\ got = [q \in Questions |-> {}] /\ stray = {}
  /\ kind \in Kinds /\ loop = "none" /\ showing = NoQuestion /\ aborted = FALSE
  /\ procQ = <<>> /\ pending = NoQuestion /\ index = 1 /\ collected = {}
  /\ timer = "none" /\ leaked = 0 /\ card = FALSE
  /\ answering = {} /\ cardSends = 0 /\ onTime = {}
  /\ slot = NoQuestion /\ sending = {} /\ surfaced = {}
  /\ texts = 0

-----------------------------------------------------------------------------
(* The agent *)

TurnBegins ==
  /\ alive /\ turn = "none"
  /\ turn' = "active" /\ loop' = "reading"
  /\ UNCHANGED <<alive, inTurn, wire, noise, hookVars, kind, showing, aborted, taskVars,
                 slotVars, texts>>

\* handleBetweenTurnQuestion up to its await: a question that holds the slot
\* is superseded.
ShowBetweenTurns(q) ==
  /\ sending' = sending \cup {q}
  /\ slot' = NoQuestion

\* One assistant message with one call or two.  Their hooks start at once.
AskInTurn(qs) ==
  /\ alive /\ turn = "active" /\ ~aborted
  /\ \A i \in DOMAIN qs : hook[qs[i]] = "unasked"
  /\ hook' = [q \in Questions |-> IF \E i \in DOMAIN qs : qs[i] = q THEN "waiting" ELSE hook[q]]
  /\ inTurn' = inTurn \cup {qs[i] : i \in DOMAIN qs}
  /\ wire' = Append(wire, qs)
  /\ UNCHANGED <<alive, turn, noise, got, stray, loopVars, taskVars, slotVars, texts>>

AskBetweenTurns(q) ==
  /\ alive /\ turn # "active" /\ hook[q] = "unasked"
  /\ hook' = [hook EXCEPT ![q] = "waiting"]
  /\ ShowBetweenTurns(q)
  /\ UNCHANGED <<sdkVars, got, stray, loopVars, taskVars, surfaced, texts>>

\* Subagents, background tasks and tool results keep the stream busy.
OtherMessage ==
  /\ alive /\ turn = "active" /\ ~aborted /\ noise < MaxNoise
  /\ noise' = noise + 1 /\ wire' = Append(wire, <<>>)
  /\ UNCHANGED <<alive, turn, inTurn, hookVars, loopVars, taskVars, slotVars, texts>>

\* The SDK cannot finish a turn while one of its hooks blocks.
Result ==
  /\ alive /\ turn = "active" /\ ~aborted
  /\ \A q \in inTurn : hook[q] # "waiting"
  /\ turn' = "done" /\ wire' = Append(wire, <<NoQuestion>>)
  /\ UNCHANGED <<alive, inTurn, noise, hookVars, loopVars, taskVars, slotVars, texts>>

OnWire(q) == \E i \in DOMAIN wire : \E j \in DOMAIN wire[i] : wire[i][j] = q

\* Six minutes.  The bridge's five minute timer comes first if it started with
\* the hook and was never started again.
HookTimesOut(q) ==
  /\ hook[q] = "waiting" /\ q \notin onTime /\ ~OnWire(q)
  /\ hook' = [hook EXCEPT ![q] = "empty"]
  /\ UNCHANGED <<sdkVars, got, stray, loopVars, taskVars, slotVars, texts>>

\* The SDK was interrupted, or is gone: the hook's signal fires.
HookAborted(q) ==
  /\ hook[q] = "waiting"
  /\ (q \in inTurn /\ aborted) \/ ~alive
  /\ hook' = [hook EXCEPT ![q] = "empty"]
  /\ UNCHANGED <<sdkVars, got, stray, loopVars, taskVars, slotVars, texts>>

\* resolveQuestion: without a resolver the answer becomes a user message.
Resolve(q, subs) ==
  IF hook[q] = "waiting"
    THEN /\ hook' = [hook EXCEPT ![q] = "answered"] /\ got' = [got EXCEPT ![q] = subs]
         /\ UNCHANGED stray
    ELSE /\ stray' = stray \cup {q} /\ UNCHANGED <<hook, got>>

-----------------------------------------------------------------------------
(* The loop reads a message *)

AllSubs(q) == 1..Subs[q]

\* A new call takes the task over; one already tracked only has its card and
\* its timer renewed.
Surface(q, fresh) ==
  /\ loop' = "showing" /\ showing' = q
  /\ IF pending = q
       THEN onTime' = onTime \ {q} /\ UNCHANGED <<pending, index, collected, card, timer>>
       ELSE /\ pending' = q /\ index' = 1 /\ collected' = {} /\ card' = FALSE
            /\ timer' = IF timer = "none" THEN "none" ELSE "stale"
            /\ onTime' = IF fresh THEN onTime \cup {q} ELSE onTime

Read(k) ==
  /\ loop = "reading" /\ kind = k /\ ~aborted
  /\ wire # <<>> /\ Head(wire) # <<NoQuestion>>
  /\ wire' = Tail(wire) /\ procQ' = procQ \o Head(wire)

ReadPlain ==
  /\ \E k \in Kinds : Read(k)
  /\ procQ' = <<>>
  /\ UNCHANGED <<alive, turn, inTurn, noise, hookVars, loopVars, pending, index, collected,
                 timer, leaked, card, answering, cardSends, onTime, slotVars, texts>>

ReadInChat ==
  /\ Read("chat") /\ procQ' # <<>>
  /\ Surface(Head(procQ'), procQ = <<>>)
  /\ UNCHANGED <<alive, turn, inTurn, noise, hookVars, kind, aborted, leaked, answering,
                 cardSends, slotVars, texts>>

\* Slip: the cards are shown but the timer is not started.
CardsShownWithoutTimer ==
  /\ loop = "showing" /\ kind = "chat"
  /\ showing' = NoQuestion
  /\ \/ loop' = "reading" /\ card' \in {card, TRUE}
     \/ loop' = "ending" /\ UNCHANGED card
  /\ UNCHANGED <<sdkVars, hookVars, kind, aborted, procQ, pending, index, collected, leaked,
                 timer, answering, cardSends, onTime, slotVars, texts>>

\* The cards are sent, then the timer starts over; a failing call of the
\* platform ends the loop instead.
CardsShown ==
  /\ loop = "showing" /\ kind = "chat"
  /\ showing' = NoQuestion
  /\ \/ /\ loop' = "reading" /\ timer' = "fresh"
        /\ card' \in {card, TRUE}
     \/ /\ loop' = "ending" /\ UNCHANGED <<timer, card>>
  /\ UNCHANGED <<sdkVars, hookVars, kind, aborted, procQ, pending, index, collected, leaked,
                 answering, cardSends, onTime, slotVars, texts>>

\* An API task asks its caller, or decides by itself at once.
ReadInApi ==
  /\ Read("api") /\ procQ' # <<>>
  /\ loop' = "showing" /\ showing' = Head(procQ')
  /\ UNCHANGED <<alive, turn, inTurn, noise, hookVars, kind, aborted, pending, index,
                 collected, timer, leaked, card, answering, cardSends, onTime, slotVars, texts>>

\* Neither answer is keyed by the text of a sub-question ("_web", "_answer",
\* "_auto"): the hook is free, and no sub-question has its answer.
CallerAnswers ==
  /\ loop = "showing" /\ kind = "api"
  /\ procQ' = Tail(procQ) /\ Resolve(showing, {})
  /\ loop' = "reading" /\ showing' = NoQuestion
  /\ UNCHANGED <<sdkVars, kind, aborted, pending, index, collected, timer, leaked, card,
                 answering, cardSends, onTime, slotVars, texts>>

\* A continuation surfaces the head of its queue, once, and never shifts it.
ReadInContinuation ==
  /\ Read("cont") /\ procQ' # <<>>
  /\ IF Head(procQ') \in surfaced
       THEN UNCHANGED <<loop, showing, slotVars>>
       ELSE /\ surfaced' = surfaced \cup {Head(procQ')}
            /\ loop' = "showing" /\ showing' = Head(procQ')
            /\ ShowBetweenTurns(Head(procQ'))
  /\ UNCHANGED <<alive, turn, inTurn, noise, hookVars, kind, aborted, pending, index,
                 collected, timer, leaked, card, answering, cardSends, onTime, texts>>

LoopEnds ==
  /\ loop = "reading"
  /\ \/ aborted /\ (kind = "cont" => wire # <<>>)
     \/ wire # <<>> /\ Head(wire) = <<NoQuestion>>
  /\ loop' = "ending"
  /\ UNCHANGED <<sdkVars, hookVars, kind, showing, aborted, taskVars, slotVars, texts>>

\* The finally block: the turn's handle is finished, which aborts a turn that
\* is still in flight.
Finally ==
  /\ loop = "ending"
  /\ loop' = "over" /\ timer' = "none"
  /\ aborted' = (aborted \/ turn = "active")
  /\ turn' = "done"
  /\ UNCHANGED <<alive, inTurn, wire, noise, hookVars, kind, showing, procQ, pending, index,
                 collected, leaked, card, answering, cardSends, onTime, slotVars, texts>>

-----------------------------------------------------------------------------
(* The user *)

Registered == kind \in {"chat", "api"} /\ loop \in {"reading", "showing", "ending"}

\* Any text answers the question of the slot first: its first sub-question, the
\* only one the card shows.  The others are answered with nothing.
AnswerBetweenTurns ==
  /\ slot # NoQuestion /\ texts < MaxTexts
  /\ texts' = texts + 1 /\ slot' = NoQuestion
  /\ IF alive THEN Resolve(slot, {1}) ELSE UNCHANGED hookVars
  /\ UNCHANGED <<sdkVars, loopVars, taskVars, sending, surfaced>>

Answering ==
  /\ slot = NoQuestion /\ Registered /\ pending # NoQuestion /\ texts < MaxTexts
  /\ texts' = texts + 1

\* Slip: the next sub-question's timer is started beside the old one.
AnswerSubLeakingTimer ==
  /\ Answering /\ index + 1 <= Subs[pending]
  /\ collected' = collected \cup {index} /\ index' = index + 1
  /\ timer' = "fresh" /\ leaked' = leaked + (IF timer = "none" THEN 0 ELSE 1)
  /\ onTime' = onTime \ {pending}
  /\ UNCHANGED <<sdkVars, hookVars, loopVars, procQ, pending, card, answering, cardSends,
                 slotVars>>

\* The next sub-question, with a timer of its own.
AnswerSub ==
  /\ Answering /\ index + 1 <= Subs[pending]
  /\ collected' = collected \cup {index} /\ index' = index + 1
  /\ timer' = "fresh" /\ onTime' = onTime \ {pending}
  /\ UNCHANGED <<sdkVars, hookVars, loopVars, procQ, pending, leaked, card, answering,
                 cardSends, slotVars>>

\* The tail of handleAnswer, run with this queue, pending question, index,
\* answers and timer in the task: resolve the hook, then take up the next call.
Deliver(a, queue, p, i, c, t) ==
  /\ Resolve(a.q, a.subs)
  /\ procQ' = queue /\ card' = FALSE
  /\ IF queue = <<>>
       THEN /\ pending' = p /\ index' = i /\ collected' = c /\ timer' = t
            /\ UNCHANGED <<leaked, cardSends>>
       ELSE /\ pending' = Head(queue) /\ index' = 1 /\ collected' = {} /\ timer' = "fresh"
            /\ leaked' = leaked + (IF t = "none" THEN 0 ELSE 1)
            /\ cardSends' = cardSends + 1

\* The last sub-question.  If the task knows the question's card, its update
\* is awaited before the hook is resolved.
AnswerLast ==
  /\ Answering /\ index + 1 > Subs[pending]
  /\ LET a == [q |-> pending, subs |-> collected \cup {index}] IN
       IF card
         THEN /\ answering' = answering \cup {a} /\ procQ' = Tail(procQ)
              /\ pending' = NoQuestion /\ index' = 1 /\ collected' = {} /\ timer' = "none"
              /\ UNCHANGED <<hookVars, leaked, card, cardSends>>
         ELSE /\ Deliver(a, Tail(procQ), NoQuestion, 1, {}, "none")
              /\ UNCHANGED answering
  /\ UNCHANGED <<sdkVars, loopVars, onTime, slotVars>>

AnswerResumes(a) ==
  /\ a \in answering /\ answering' = answering \ {a}
  /\ Deliver(a, procQ, pending, index, collected, timer)
  /\ UNCHANGED <<sdkVars, loopVars, onTime, slotVars, texts>>

NextCardSent ==
  /\ cardSends > 0 /\ cardSends' = cardSends - 1
  /\ card' \in {card, TRUE}
  /\ UNCHANGED <<sdkVars, hookVars, loopVars, procQ, pending, index, collected, timer, leaked,
                 answering, onTime, slotVars, texts>>

\* A question between turns has its card, unless the platform refused it.
QuestionCardSent(q) ==
  /\ q \in sending /\ sending' = sending \ {q}
  /\ slot' \in {slot, q}
  /\ IF kind = "cont" /\ showing = q
       THEN loop' = "reading" /\ showing' = NoQuestion
       ELSE UNCHANGED <<loop, showing>>
  /\ UNCHANGED <<sdkVars, hookVars, kind, aborted, taskVars, surfaced, texts>>

-----------------------------------------------------------------------------
(* Timers and ends *)

\* Slip: the timeout fills in from the next sub-question on.
AutoAnswerSkippingCurrent ==
  IF pending = NoQuestion
    THEN UNCHANGED <<hookVars, procQ, pending, index, collected, card>>
    ELSE /\ Resolve(pending, collected \cup (index + 1)..Subs[pending])
         /\ procQ' = Tail(procQ) /\ pending' = NoQuestion
         /\ index' = 1 /\ collected' = {} /\ card' = FALSE

\* What is not answered yet gets a stand-in; the next call of the queue is
\* left to the next message.
AutoAnswer ==
  IF pending = NoQuestion
    THEN UNCHANGED <<hookVars, procQ, pending, index, collected, card>>
    ELSE /\ Resolve(pending, collected \cup index..Subs[pending])
         /\ procQ' = Tail(procQ) /\ pending' = NoQuestion
         /\ index' = 1 /\ collected' = {} /\ card' = FALSE

QuestionTimerFires ==
  /\ timer # "none" /\ timer' = "none"
  /\ AutoAnswer
  /\ UNCHANGED <<sdkVars, loopVars, leaked, answering, cardSends, onTime, slotVars, texts>>

LeakedTimerFires ==
  /\ leaked > 0 /\ leaked' = leaked - 1
  /\ AutoAnswer
  /\ UNCHANGED <<sdkVars, loopVars, timer, answering, cardSends, onTime, slotVars, texts>>

\* /stop clears the timer and the card; the task's own timers do not.
TaskAborted ==
  /\ Registered /\ aborted' = TRUE /\ turn' = "done"
  /\ \/ timer' = "none" /\ card' = FALSE
     \/ UNCHANGED <<timer, card>>
  /\ UNCHANGED <<alive, inTurn, wire, noise, hookVars, kind, loop, showing, procQ, pending,
                 index, collected, leaked, answering, cardSends, onTime, slotVars, texts>>

\* 'executor-removed': the slot is emptied, a continuation is told to stop.
ExecutorRemoved ==
  /\ alive /\ alive' = FALSE
  /\ slot' = NoQuestion
  /\ aborted' = (aborted \/ (kind = "cont" /\ loop \in {"reading", "showing"}))
  /\ UNCHANGED <<turn, inTurn, wire, noise, hookVars, kind, loop, showing, taskVars, sending,
                 surfaced, texts>>

Pairs == {qs \in Questions \X Questions : qs[1] # qs[2]}

Next ==
  \/ TurnBegins \/ OtherMessage \/ Result
  \/ \E q \in Questions : AskInTurn(<<q>>) \/ AskBetweenTurns(q)
  \/ \E qs \in Pairs : AskInTurn(qs)
  \/ \E q \in Questions : HookTimesOut(q) \/ HookAborted(q) \/ QuestionCardSent(q)
  \/ ReadPlain \/ ReadInChat \/ CardsShown \/ ReadInApi \/ CallerAnswers
  \/ ReadInContinuation \/ LoopEnds \/ Finally
  \/ AnswerBetweenTurns \/ AnswerSub \/ AnswerLast
  \/ \E a \in answering : AnswerResumes(a)
  \/ NextCardSent \/ QuestionTimerFires \/ LeakedTimerFires
  \/ TaskAborted \/ ExecutorRemoved

\* Promises of the platform settle and timers fire; nobody has to write, and
\* the agent owes no further message.
Fairness ==
  /\ WF_vars(ReadPlain \/ ReadInChat \/ CardsShown \/ ReadInApi \/ CallerAnswers
             \/ ReadInContinuation \/ LoopEnds \/ Finally)
  /\ WF_vars(\E a \in answering : AnswerResumes(a))
  /\ WF_vars(NextCardSent)
  /\ \A q \in Questions : WF_vars(QuestionCardSent(q))
  /\ WF_vars(QuestionTimerFires) /\ WF_vars(LeakedTimerFires)

Spec == Init /\ [][Next]_vars /\ Fairness

-----------------------------------------------------------------------------
(* Properties *)

\* Every variable keeps its type, and the task never points behind the last
\* sub-question of the call it tracks.
TypeOK ==
  /\ alive \in BOOLEAN /\ turn \in {"none", "active", "done"} /\ inTurn \subseteq Questions
  /\ wire \in Seq({<<>>, <<NoQuestion>>} \cup {<<q>> : q \in Questions} \cup Pairs)
  /\ noise \in 0..MaxNoise /\ texts \in 0..MaxTexts
  /\ hook \in [Questions -> {"unasked", "waiting", "answered", "empty"}]
  /\ got \in [Questions -> SUBSET Nat] /\ stray \subseteq Questions
  /\ kind \in Kinds /\ showing \in Maybe /\ aborted \in BOOLEAN
  /\ loop \in {"none", "reading", "showing", "ending", "over"}
  /\ procQ \in Seq(Questions)
  /\ pending \in Maybe /\ index \in Nat \ {0} /\ collected \subseteq Nat
  /\ pending # NoQuestion => index <= Subs[pending]
  /\ timer \in {"none", "fresh", "stale"} /\ leaked \in Nat /\ card \in BOOLEAN
  /\ answering \subseteq [q : Questions, subs : SUBSET Nat] /\ cardSends \in Nat
  /\ slot \in Maybe /\ sending \subseteq Questions /\ surfaced \subseteq Questions
  /\ onTime \subseteq Questions

\* The call the task tracks is the head of the stream processor's queue, so
\* that clearPendingQuestion, which only shifts, removes the right one.
PendingIsHead ==
  pending # NoQuestion => procQ # <<>> /\ Head(procQ) = pending

\* A user who stays silent is waited for five minutes, not forever: while the
\* task is alive and no card is under way, a tracked call has its timer.
PendingHasTimer ==
  pending # NoQuestion /\ loop = "reading" /\ ~aborted => timer # "none"

\* A call the chat's own loop reads and whose hook gets an answer gets one for
\* every sub-question, however loop, user and timer interleaved; every other
\* call at least the first one's, the one the user was shown.  Only an API
\* task's answers say nothing of the sub-questions.
AnswersComplete ==
  \A q \in Questions : hook[q] = "answered" =>
    /\ q \in inTurn /\ kind = "chat" => got[q] = AllSubs(q)
    /\ (q \in inTurn /\ kind = "api") \/ 1 \in got[q]

\* No hook is answered twice: an answer only goes astray, as a message of its
\* own to the agent, if the hook gave up before.
StrayOnlyIfExpired ==
  \A q \in stray : hook[q] = "empty"

\* A call that has its answer never holds the slot of the questions between
\* turns, where it would swallow the user's next message.
AnsweredLeavesSlot ==
  slot # NoQuestion => hook[slot] # "answered"

\* What the bridge promises about questions and their answers, part by part.
AnswersAreSound ==
  /\ TypeOK /\ PendingIsHead /\ PendingHasTimer
  /\ AnswersComplete /\ StrayOnlyIfExpired /\ AnsweredLeavesSlot

\* "Queue instead of overwrite - supports multiple AskUserQuestion calls": when
\* the bridge has nothing to read, send or finish and every call it surfaced is
\* settled, no other call of the turn waits unseen.
NoneWaitsUnseen ==
  loop = "reading" /\ wire = <<>> /\ pending = NoQuestion /\ slot = NoQuestion
    /\ answering = {} /\ sending = {} /\ (\A q \in surfaced : hook[q] # "waiting")
  => \A q \in inTurn : hook[q] # "waiting"

=============================================================================
