---------------------------- MODULE EngineStream ----------------------------
(***************************************************************************)
(* One turn of one of the three engines that run a process per turn: the   *)
(* legacy Claude executor (engines/claude/executor.ts), Kimi               *)
(* (engines/kimi/executor.ts) and Codex (engines/codex/executor.ts with    *)
(* jsonl-translator.ts), read through the StreamProcessor by the loop of   *)
(* the bridge (executeQuery, executeApiTask).                              *)
(*                                                                         *)
(* The CLI of the engine says things; each says them in its own way:       *)
(*  - claude: messages of the SDK, and a hook the SDK calls for a question *)
(*    after the message that shows it;                                     *)
(*  - kimi: events of the SDK, those of a subagent wrapped in an event of  *)
(*    the parent, and a result once the iterator has ended;                *)
(*  - codex: JSON lines on a pipe, which arrive in chunks cut anywhere.    *)
(* The executor turns them into messages of one form.  A text is the       *)
(* number of the event that said it; Torn is one with a mangled character, *)
(* ApiError one that begins as an API error does ("API Error: 500 ...").   *)
(***************************************************************************)
EXTENDS Naturals, Sequences, FiniteSets, SequencesExt

CONSTANTS
  Engines,        \* the engines a turn may run on
  MaxEvents,      \* bound: what the CLI says in the turn
  MaxQuestions    \* bound: question calls among it

Torn == 0
ApiError == MaxEvents + 1
Texts == 0..MaxEvents + 1
Calls == 1..MaxQuestions

VARIABLES
  engine,
  \* the CLI
  cli,          \* "running"; how it ended; "ended" once the executor knows
  verdict,      \* ghost: its last word: none, success, failed, silent
  told,         \* it was told to end: interrupted, killed, or its input finished
  said,         \* ghost: texts of the agent itself, in order
  spoke,        \* events so far
  subSpoke,     \* ghost: a subagent said something
  asked,        \* question calls shown so far
  hook,         \* state of each question's PreToolUse hook
  stray,        \* questions whose answer found no hook (the sendAnswer path)
  wire,         \* what the CLI has said and the executor has not read
  \* the executor
  buf,          \* stdoutBuffer: the start of a line
  torn,         \* ghost: a text was cut inside a character
  acc,          \* accumulatedText, lastAgentText
  sawResult,
  queue,        \* messages the bridge has not read
  finished,     \* no more will come
  aborted,      \* the abort signal
  \* the StreamProcessor and the bridge's loop
  text, tools, pending,
  status,
  loop          \* reading, over

cliVars == <<cli, verdict, told, said, spoke, subSpoke, asked, hook, stray>>
execVars == <<buf, torn, acc, sawResult, finished>>
procVars == <<text, tools, pending, status>>
vars == <<engine, cliVars, wire, execVars, queue, aborted, procVars, loop>>

Event(t, n, sub) == [t |-> t, n |-> n, sub |-> sub]
Say(t) == Event(t, 0, FALSE)
Message(t, texts, sub) == [t |-> t, texts |-> texts, sub |-> sub]
Plain(t) == Message(t, <<>>, FALSE)

Init ==
  /\ engine \in Engines
  /\ cli = "running" /\ verdict = "none" /\ told = FALSE /\ said = <<>> /\ spoke = 0
  /\ subSpoke = FALSE /\ asked = 0
  /\ hook = [q \in Calls |-> "none"] /\ stray = {} /\ wire = <<>>
  /\ buf = <<>> /\ torn = FALSE /\ acc = <<>> /\ sawResult = FALSE
  /\ queue = IF engine = "kimi" THEN <<Plain("init")>> ELSE <<>>
  /\ finished = FALSE /\ aborted = FALSE
  /\ text = <<>> /\ tools = <<>> /\ pending = <<>> /\ status = "thinking"
  /\ loop = "reading"

-----------------------------------------------------------------------------
(* The CLI *)

\* A JSON line is a body and what ends it; the pipe may be cut between them.
Written(e) ==
  IF engine = "codex"
  THEN <<[e |-> e, end |-> FALSE, whole |-> TRUE], [e |-> e, end |-> TRUE, whole |-> TRUE]>>
  ELSE <<e>>

Emit(e) ==
  /\ cli = "running" /\ spoke < MaxEvents
  /\ wire' = wire \o Written(e) /\ spoke' = spoke + 1
  /\ UNCHANGED <<engine, cli, verdict, told, stray, execVars, queue, aborted,
                 procVars, loop>>

AgentSpeaks ==
  /\ \E n \in {spoke + 1, ApiError} : Emit(Event("text", n, FALSE)) /\ said' = Append(said, n)
  /\ UNCHANGED <<subSpoke, asked, hook>>

SubagentSpeaks ==
  /\ engine # "codex" /\ \E n \in {spoke + 1, ApiError} : Emit(Event("text", n, TRUE))
  /\ subSpoke' = TRUE
  /\ UNCHANGED <<said, asked, hook>>

\* Kimi's SubagentEvent wraps the TurnEnd of the subagent too.
SubagentEnds ==
  /\ engine = "kimi" /\ subSpoke /\ Emit(Event("turnEnd", 0, TRUE))
  /\ UNCHANGED <<said, subSpoke, asked, hook>>

ToolRuns ==
  /\ Emit(Say("tool")) /\ UNCHANGED <<said, subSpoke, asked, hook>>

ToolAnswers ==
  /\ Emit(Say("toolResult")) /\ UNCHANGED <<said, subSpoke, asked, hook>>

\* The assistant message with the call comes before the hook is called.
AgentAsks ==
  /\ engine = "claude" /\ asked < MaxQuestions
  /\ Emit(Event("question", asked + 1, FALSE)) /\ asked' = asked + 1
  /\ hook' = [hook EXCEPT ![asked + 1] = "coming"]
  /\ UNCHANGED <<said, subSpoke>>

HookCalled(q) ==
  /\ hook[q] = "coming" /\ cli = "running"
  /\ hook' = [hook EXCEPT ![q] = "waiting"]
  /\ UNCHANGED <<engine, cli, verdict, told, said, spoke, subSpoke, asked, stray,
                 wire, execVars, queue, aborted, procVars, loop>>

\* The six minutes are over, or the SDK aborts the hook: empty answers.
HookLapses(q) ==
  /\ hook[q] = "waiting" /\ hook' = [hook EXCEPT ![q] = "lapsed"]
  /\ UNCHANGED <<engine, cli, verdict, told, said, spoke, subSpoke, asked, stray,
                 wire, execVars, queue, aborted, procVars, loop>>

Unblocked == \A q \in 1..asked : hook[q] \in {"answered", "lapsed"}

\* How a turn ends.  A result is the last word; the exit of Codex says nothing
\* more after it, and without one its code decides.  The SDK of Claude reports
\* an API error as a success whose text is the error.
Ends(how, last, word) ==
  /\ cli = "running" /\ (Unblocked \/ told)
  /\ cli' = how /\ wire' = wire \o last /\ verdict' = word
  /\ UNCHANGED <<engine, told, said, spoke, subSpoke, asked, hook, stray,
                 execVars, queue, aborted, procVars, loop>>

ClaudeEnds ==
  /\ engine = "claude"
  /\ \/ Ends("done", <<Say("success")>>, "success")
     \/ Ends("done", <<Say("error")>>, "failed")
     \/ Ends("done", <<Event("success", ApiError, FALSE)>>, "failed")
     \/ Ends("threw", <<>>, "failed")
     \/ Ends("done", <<>>, "silent")

KimiEnds ==
  /\ engine = "kimi"
  /\ \/ Ends("finished", <<Say("turnEnd")>>, "success")
     \/ \E how \in {"maxSteps", "threw"} : Ends(how, <<>>, "failed")
     \/ told /\ Ends("cancelled", <<>>, "failed")

\* The last line of Codex may lack its newline; killed, it may leave half a line.
CodexEnds ==
  /\ engine = "codex"
  /\ \/ \E how \in {"exit0", "exit1"}, k \in 1..2 :
          \/ Ends(how, SubSeq(Written(Say("success")), 1, k), "success")
          \/ Ends(how, SubSeq(Written(Say("error")), 1, k), "failed")
     \/ Ends("exit0", <<>>, "silent")
     \/ Ends("exit1", <<>>, "failed")
     \/ told /\ Ends("exit1", <<[e |-> Say("success"), end |-> FALSE, whole |-> FALSE]>>,
                     "failed")

-----------------------------------------------------------------------------
(* The executors *)

Send(ms) == queue' = IF finished THEN queue ELSE queue \o ms

\* Codex: translateCodexJsonEvent.
CodexMessages(e, a) ==
  CASE e.t = "text" -> <<Message("text", <<e.n>>, FALSE)>>
    [] e.t = "tool" -> <<Plain("tool")>>
    [] e.t = "toolResult" -> <<Plain("user")>>
    [] e.t \in {"success", "error"} -> <<Message(e.t, a, FALSE)>>

CodexText(e, a) == IF e.t = "text" THEN <<e.n>> ELSE a

IsResult(e) == e.t \in {"success", "error"}

EmitAll(es) ==
  LET after(k) == FoldLeft(LAMBDA a, e : CodexText(e, a), acc, SubSeq(es, 1, k))
  IN /\ acc' = after(Len(es))
     /\ sawResult' = (sawResult \/ \E k \in 1..Len(es) : IsResult(es[k]))
     /\ Send(FlattenSeq([k \in 1..Len(es) |-> CodexMessages(es[k], after(k))]))

\* processStdout: the lines of a chunk; the rest waits for the next one.  A
\* chunk is decoded by itself, so a character cut by it is lost.
ProcessStdout(k) ==
  /\ engine = "codex" /\ k <= Len(wire)
  /\ LET units == buf \o SubSeq(wire, 1, k)
         ended == SelectSeq(units, LAMBDA u : u.end)
         lines == [i \in 1..Len(ended) |-> ended[i].e]
     IN \E cut \in IF buf # <<>> /\ lines # <<>> /\ lines[1].t = "text"
                   THEN BOOLEAN ELSE {FALSE} :
          /\ EmitAll(IF cut THEN [lines EXCEPT ![1].n = IF @ = ApiError THEN @ ELSE Torn] ELSE lines)
          /\ torn' = (torn \/ cut)
          /\ buf' = IF Last(units).end THEN <<>> ELSE <<Last(units)>>
  /\ wire' = SubSeq(wire, k + 1, Len(wire))
  /\ UNCHANGED <<engine, cliVars, finished, aborted, procVars, loop>>

\* Slip: the exit code is not looked at.
CodexCloseTrustingExit(clean) ==
  LET es == IF buf # <<>> /\ buf[1].whole THEN <<buf[1].e>> ELSE <<>>
      a == FoldLeft(LAMBDA b, e : CodexText(e, b), acc, es)
  IN /\ acc' = a
     /\ sawResult' = (sawResult \/ \E k \in 1..Len(es) : IsResult(es[k]))
     /\ Send(FlattenSeq([k \in 1..Len(es) |-> CodexMessages(es[k], a)]))

\* The rest of the buffer is a line if it parses; the exit code speaks if
\* nothing else did.
CodexClose(clean) ==
  LET es == IF buf # <<>> /\ buf[1].whole THEN <<buf[1].e>> ELSE <<>>
      saw == sawResult \/ \E k \in 1..Len(es) : IsResult(es[k])
      a == FoldLeft(LAMBDA b, e : CodexText(e, b), acc, es)
      failed == ~clean /\ ~saw
  IN /\ acc' = a
     /\ sawResult' = (saw \/ failed)
     /\ Send(FlattenSeq([k \in 1..Len(es) |-> CodexMessages(es[k], a)])
             \o IF failed THEN <<Message("error", a, FALSE)>> ELSE <<>>)

\* child.on('close'): the pipe is drained before it.
OnClose ==
  /\ engine = "codex" /\ cli \in {"exit0", "exit1"} /\ wire = <<>>
  /\ CodexClose(cli = "exit0")
  /\ buf' = <<>> /\ finished' = TRUE /\ cli' = "ended"
  /\ UNCHANGED <<engine, verdict, told, said, spoke, subSpoke, asked, hook, stray, wire,
                 torn, aborted, procVars, loop>>

\* child.on('error'): the process could not be spawned (or be killed).
OnError ==
  /\ engine = "codex" /\ cli = "running" /\ spoke = 0 /\ ~finished
  /\ sawResult' = TRUE /\ Send(<<Message("error", acc, FALSE)>>)
  /\ finished' = TRUE /\ cli' = "ended"
  /\ UNCHANGED <<engine, verdict, told, said, spoke, subSpoke, asked, hook, stray, wire,
                 buf, torn, acc, aborted, procVars, loop>>

\* Kimi: translateEvent.  The events of a subagent go through the same state.
KimiMessages(e, a) ==
  CASE e.t = "text" -> <<Message("delta", <<e.n>>, e.sub)>>
    [] e.t = "tool" -> <<Plain("tool")>>
    [] e.t = "toolResult" -> <<Plain("user")>>
    [] e.t = "turnEnd" ->
         IF a = <<>> THEN <<>> ELSE <<Message("text", a, e.sub)>>

KimiText(e, a) == IF e.t = "text" THEN Append(a, e.n) ELSE a

\* The generators are pulled: nothing is read before the bridge asks.
Asking == loop = "reading" /\ queue = <<>> /\ ~finished

KimiReads ==
  /\ engine = "kimi" /\ Asking /\ wire # <<>>
  /\ acc' = KimiText(Head(wire), acc)
  /\ queue' = KimiMessages(Head(wire), acc') /\ wire' = Tail(wire)
  /\ UNCHANGED <<engine, cliVars, buf, torn, sawResult, finished, aborted,
                 procVars, loop>>

\* The iterator has ended: turn.result, or the exception, as the result.
KimiResult ==
  /\ engine = "kimi" /\ Asking /\ wire = <<>> /\ cli # "running"
  /\ queue' = <<IF cli = "finished" THEN Message("success", acc, FALSE)
                ELSE IF cli = "threw" THEN Plain("error")
                ELSE Message("error", acc, FALSE)>>
  /\ finished' = TRUE /\ sawResult' = TRUE /\ cli' = "ended"
  /\ UNCHANGED <<engine, verdict, told, said, spoke, subSpoke, asked, hook, stray, wire,
                 buf, torn, acc, aborted, procVars, loop>>

\* Claude: the messages pass through as they are; a top-level text comes as
\* deltas and then whole, here as the whole.
ClaudeMessage(e) ==
  IF IsResult(e) THEN Message(e.t, IF e.n = 0 THEN acc' ELSE <<e.n>>, FALSE)
  ELSE IF e.t = "toolResult" THEN Plain("user")
  ELSE Message(e.t, IF e.n = 0 THEN <<>> ELSE <<e.n>>, e.sub)

ClaudeReads ==
  /\ engine = "claude" /\ Asking /\ ~aborted /\ wire # <<>>
  /\ acc' = IF Head(wire).t = "text" /\ ~Head(wire).sub THEN <<Head(wire).n>> ELSE acc
  /\ queue' = <<ClaudeMessage(Head(wire))>> /\ wire' = Tail(wire)
  /\ sawResult' = (sawResult \/ IsResult(Head(wire)))
  /\ UNCHANGED <<engine, cliVars, buf, torn, finished, aborted, procVars, loop>>

\* wrapStream: the iterator is done, or the abort wins the race; an exception
\* of the SDK goes on to the bridge.
ClaudeStreamEnds ==
  /\ engine = "claude" /\ Asking
  /\ \/ aborted /\ UNCHANGED <<cli, told, status, loop>>
     \/ ~aborted /\ wire = <<>> /\ cli = "done"
        /\ cli' = "ended" /\ UNCHANGED <<told, status, loop>>
     \/ ~aborted /\ wire = <<>> /\ cli = "threw"
        /\ cli' = "ended" /\ told' = TRUE /\ status' = "error" /\ loop' = "over"
  /\ finished' = TRUE
  /\ UNCHANGED <<engine, verdict, said, spoke, subSpoke, asked, hook, stray, wire,
                 buf, torn, acc, sawResult, queue, aborted, text, tools, pending>>

-----------------------------------------------------------------------------
(* The bridge *)

\* finish(): Codex is killed, Claude's input ends; Kimi's does nothing, but
\* leaving its generator closes the session.
Finish ==
  /\ told' = TRUE
  /\ finished' = TRUE

\* stopTask and the two timers: finish(), which closes the queue of Codex, and
\* then the signal, which interrupts Kimi and wins Claude's race.
Abort ==
  /\ loop = "reading" /\ ~aborted
  /\ aborted' = TRUE /\ told' = TRUE
  /\ finished' = (finished \/ engine = "codex")
  /\ UNCHANGED <<engine, cli, verdict, said, spoke, subSpoke, asked, hook, stray, wire,
                 buf, torn, acc, sawResult, queue, procVars, loop>>

Complete1(ts) ==
  LET running == {k \in 1..Len(ts) : ts[k] = "running"}
  IN IF running = {} THEN ts
     ELSE [ts EXCEPT ![CHOOSE k \in running : \A j \in running : k <= j] = "done"]

StatusOf(p, ts, tx) ==
  IF p # <<>> THEN "waiting"
  ELSE IF (\E k \in 1..Len(ts) : ts[k] = "running") \/ tx # <<>> THEN "running"
  ELSE "thinking"

ReadsAsApiError(texts) == texts # <<>> /\ Head(texts) = ApiError

\* processResultMessage: the result's own text, or what was streamed; a success
\* that reads as an API error is an error, and its text no answer.
ProcessResult(m) ==
  LET result == IF m.texts # <<>> THEN m.texts ELSE text
      failed == m.t = "success" /\ ReadsAsApiError(result)
  IN /\ text' = IF failed THEN <<>> ELSE result
     /\ tools' = [k \in DOMAIN tools |-> "done"]
     /\ status' = IF m.t = "success" /\ ~failed THEN "complete" ELSE "error"
     /\ UNCHANGED pending

\* processMessage: a text of a subagent is not shown; "user" is not looked at.
ProcessMessage(m) ==
  /\ text' = IF m.sub THEN text
             ELSE IF m.t = "text" THEN m.texts
             ELSE IF m.t = "delta" THEN text \o m.texts ELSE text
  /\ tools' = IF m.t \in {"tool", "question"} THEN Append(Complete1(tools), "running")
              ELSE tools
  /\ pending' = IF m.t = "question" THEN pending \o m.texts ELSE pending
  /\ status' = StatusOf(pending', tools', text')

\* One message of the loop.  Once aborted the loop breaks on the next message.
ReadMessage ==
  /\ loop = "reading" /\ queue # <<>>
  /\ queue' = Tail(queue)
  /\ IF aborted
     THEN /\ Finish /\ loop' = "over" /\ status' = "error"
          /\ UNCHANGED <<text, tools, pending>>
     ELSE IF Head(queue).t \in {"success", "error"}
     THEN ProcessResult(Head(queue)) /\ Finish /\ loop' = "over"
     ELSE ProcessMessage(Head(queue)) /\ UNCHANGED <<told, finished, loop>>
  /\ UNCHANGED <<engine, cli, verdict, said, spoke, subSpoke, asked, hook, stray, wire,
                 buf, torn, acc, sawResult, aborted>>

\* The stream is over: without a result, what was said decides.
StreamEnds ==
  /\ loop = "reading" /\ queue = <<>> /\ finished
  /\ Finish /\ loop' = "over"
  /\ status' = IF ~aborted /\ text # <<>> THEN "complete" ELSE "error"
  /\ UNCHANGED <<engine, cli, verdict, said, spoke, subSpoke, asked, hook, stray, wire,
                 buf, torn, acc, sawResult, queue, aborted, text, tools, pending>>

\* The answer to the question on the card (or the automatic one of a task
\* nobody watches): the hook gets it if it is waiting.
ResolveQuestion ==
  /\ loop = "reading" /\ pending # <<>>
  /\ pending' = Tail(pending)
  /\ LET q == Head(pending)
     IN IF hook[q] = "waiting"
        THEN hook' = [hook EXCEPT ![q] = "answered"] /\ UNCHANGED stray
        ELSE stray' = stray \cup {q} /\ UNCHANGED hook
  /\ status' = StatusOf(pending', tools, text)
  /\ UNCHANGED <<engine, cli, verdict, told, said, spoke, subSpoke, asked, wire, execVars,
                 queue, aborted, text, tools, loop>>

CliSpeaks ==
  \/ AgentSpeaks \/ SubagentSpeaks \/ SubagentEnds \/ ToolRuns \/ ToolAnswers
  \/ AgentAsks

CliEnds == ClaudeEnds \/ KimiEnds \/ CodexEnds

ExecutorReads ==
  \/ \E k \in 1..2 * MaxEvents + 2 : ProcessStdout(k)
  \/ OnClose \/ KimiReads \/ KimiResult \/ ClaudeReads \/ ClaudeStreamEnds

Bridge == ReadMessage \/ StreamEnds

Next ==
  \/ CliSpeaks \/ CliEnds \/ OnError
  \/ \E q \in Calls : HookCalled(q) \/ HookLapses(q)
  \/ ExecutorReads \/ Bridge \/ Abort \/ ResolveQuestion

Spec == Init /\ [][Next]_vars

-----------------------------------------------------------------------------
(* Properties *)

LastOf(s) == IF s = <<>> THEN s ELSE <<Last(s)>>

\* A turn reported as complete shows what the agent said: everything for Kimi
\* (TurnEnd), the last message for the others (the result).  Excused: a
\* character cut by a chunk, and a subagent of Kimi, whose words
\* translateEvent adds to those of the agent.
AnswerIsWhatWasSaidUnlessMixed ==
  status = "complete" /\ ~torn /\ ~(engine = "kimi" /\ subSpoke) =>
    text = IF engine = "kimi" THEN said ELSE LastOf(said)

\* The agent's words, as the executor has them, read as an API error.
AnswersAsApiError == ReadsAsApiError(acc)

\* What the bridge reports is how the engine ended, whatever the engine and
\* however its output was cut up, an API error the SDK wraps in a success
\* included; a turn without a result is complete if it said something.
\* Excused: a stop, and an answer that reads as an API error, which is
\* taken for one.
VerdictStandsUnlessStopped ==
  loop = "over" /\ ~aborted /\ ~AnswersAsApiError =>
    (status = "complete" <=> verdict = "success" \/ (verdict = "silent" /\ text # <<>>))

\* What the user is told of a turn, part by part.
TurnIsToldRightUnlessMixed == AnswerIsWhatWasSaidUnlessMixed /\ VerdictStandsUnlessStopped
=============================================================================
