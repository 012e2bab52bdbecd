---- MODULE MCExecutors ----
(***************************************************************************)
(* What a task runs on and leaves, piece by piece and each on its own      *)
(* small instance: the persistent executor, with and without questions of  *)
(* its hooks, a turn of each of the engines that run a process per turn,   *)
(* the conversations the turns of chats continue, and the cards and files  *)
(* of tasks.  A behaviour is of one of them (part); the variables of the   *)
(* engines' turn are Off in those of the others, and the others', which    *)
(* this module extends, keep an initial value.                             *)
(***************************************************************************)
EXTENDS PersistentExecutor, Sessions, TaskOutputs, TLC

CONSTANTS c1, c2, f1, MaxAskingTurns   \* bound: turns of an executor that is asked something

VARIABLE part   \* which of them this behaviour is of
VARIABLES
  engine, cli, verdict, told, said, spoke, subSpoke, asked, engineHook, stray,
  engineWire, buf, torn, acc, sawResult, queue, finished, aborted, text,
  tools, pending, status, loop

\* Two tasks of one chat: with media, continuing the turn before, from the API.
TaskMixes == {<<"query", "media">>, <<"media", "cont">>, <<"api", "query">>}

Engine == INSTANCE EngineStream WITH
  Engines <- {"claude", "kimi", "codex"}, MaxEvents <- 3, MaxQuestions <- 1,
  hook <- engineHook, wire <- engineWire

engineVars ==
  <<engine, cli, verdict, told, said, spoke, subSpoke, asked, engineHook,
    stray, engineWire, buf, torn, acc, sawResult, queue, finished, aborted,
    text, tools, pending, status, loop>>
allVars == <<part, vars, engineVars, sessionsVars, outputsVars>>

Off == "off"
engineOff ==
  /\ engine = Off /\ cli = Off /\ verdict = Off /\ told = Off /\ said = Off
  /\ spoke = Off /\ subSpoke = Off /\ asked = Off /\ engineHook = Off /\ stray = Off
  /\ engineWire = Off /\ buf = Off /\ torn = Off /\ acc = Off /\ sawResult = Off
  /\ queue = Off /\ finished = Off /\ aborted = Off /\ text = Off /\ tools = Off
  /\ pending = Off /\ status = Off /\ loop = Off
sessionsOff == SessionsInit /\ ~persistent /\ botEngine = "claude"
outputsOff == OutputsInit /\ KindOf = <<"api", "query">> /\ watched = 1

MCInit ==
  /\ Init
  /\ \/ part \in {"executor", "hooks"} /\ engineOff /\ sessionsOff /\ outputsOff
     \/ part = "engine" /\ Engine!Init /\ sessionsOff /\ outputsOff
     \/ part = "sessions" /\ SessionsInit /\ engineOff /\ outputsOff
     \/ part = "outputs" /\ OutputsInit /\ engineOff /\ sessionsOff

MCNext ==
  /\ part' = part
  /\ \/ /\ \/ part = "executor" /\ Next /\ UNCHANGED hookVars
           \/ part = "hooks" /\ Next /\ turnCounter' <= MaxAskingTurns
        /\ UNCHANGED <<engineVars, sessionsVars, outputsVars>>
     \/ part = "engine" /\ Engine!Next /\ UNCHANGED <<vars, sessionsVars, outputsVars>>
     \/ part = "sessions" /\ SessionsNext /\ UNCHANGED <<vars, engineVars, outputsVars>>
     \/ part = "outputs" /\ OutputsNext /\ UNCHANGED <<vars, engineVars, sessionsVars>>

MCSpec == MCInit /\ [][MCNext]_allVars

\* The chats of the sessions are interchangeable.
Symmetry == Permutations({c1, c2})

-----------------------------------------------------------------------------
(* Properties; those of the executor are PersistentExecutor's, those of    *)
(* the sessions and of the outputs are Sessions' and TaskOutputs'.         *)

\* A turn's answer is what its engine said, and its status how it ended.
TurnIsToldRightUnlessMixed == part = "engine" => Engine!TurnIsToldRightUnlessMixed
=============================================================================
