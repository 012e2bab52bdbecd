------------------------------- MODULE TalkApi -------------------------------
(***************************************************************************)
(* POST /api/talk on MetaBot hosts that know each other: local tasks, sync *)
(* and async, behind a circuit breaker and a daily budget, and forwarding  *)
(* to peers (api/routes/task-routes.ts, circuit-breaker.ts,                *)
(* budget-manager.ts, async-task-store.ts, peer-manager.ts,                *)
(* bots-config-writer.ts).                                                 *)
(*                                                                         *)
(* A request is a slot of Reqs that is used again once its answer was      *)
(* read or its entry in the task store expired.  Costs are units.  The     *)
(* task itself, bridge.executeApiTask, is the bridge's; here it returns a  *)
(* result or throws.                                                       *)
(***************************************************************************)
EXTENDS Integers, FiniteSets, Sequences

CONSTANTS
  Hosts, Bots,
  OtherBots,     \* bots of a bots.json that no request names
  Reqs,          \* bound: requests at a time
  PeersOf,       \* the peers each host has configured
  FailureThreshold, ResetTimeout, HalfOpenMax,
  MaxHistory,    \* days of a budget's history that are kept
  Limits,        \* daily limits a client may set, 0 for none
  MaxCost,       \* bound: tasks that cost something
  MaxHostCrashes,
  MaxTalks,      \* bound: requests of clients, one after another
  MaxAdmin,      \* bound: calls that configure bots, budgets and circuits
  Absent

ASSUME TalkAssumption ==
  /\ FailureThreshold \in Nat \ {0} /\ HalfOpenMax \in Nat \ {0} /\ ResetTimeout \in Nat
  /\ MaxHistory \in Nat
  /\ PeersOf \in [Hosts -> SUBSET Hosts]
  /\ Absent \notin Hosts \cup Bots \cup Reqs

VARIABLES
  req,                       \* the requests under way, and the task store's entries
  circuits, budgets,         \* per host and bot
  saveTimer, budgetsFile,    \* budgets.json
  config, registry,          \* names in bots.json; names of bots that run
  cache,                     \* bots of a peer that was healthy when last polled
  hostUp, cost, hostCrashes, admin, talks

hostVars  == <<config, registry, cache, hostUp>>
clockVars == <<cost, hostCrashes>>
talkVars == <<req, circuits, budgets, saveTimer, budgetsFile, hostVars, clockVars, admin, talks>>

-----------------------------------------------------------------------------
(* Circuit breaker *)

NewCircuit == [state |-> "closed", failures |-> 0, age |-> 0, successes |-> 0]

\* isAvailable moves an open circuit whose time is up to half-open.
Probed(c) ==
  IF c.state = "open" /\ c.age >= ResetTimeout
    THEN [c EXCEPT !.state = "half-open", !.successes = 0] ELSE c
IsAvailable(c) == Probed(c).state # "open"

\* Failures beyond the threshold are not told apart.
CountFailure(n) == IF n < FailureThreshold THEN n + 1 ELSE n

\* Slip: the failures before it recovered are remembered.
RecordSuccessKeeping(c) ==
  CASE c.state = "half-open" /\ c.successes + 1 >= HalfOpenMax -> [c EXCEPT !.state = "closed", !.successes = @ + 1]
    [] c.state = "half-open" /\ c.successes + 1 < HalfOpenMax  -> [c EXCEPT !.successes = @ + 1]
    [] c.state = "closed" -> [c EXCEPT !.failures = 0]
    [] OTHER -> c

RecordSuccess(c) ==
  CASE c.state = "half-open" /\ c.successes + 1 >= HalfOpenMax ->
         [c EXCEPT !.state = "closed", !.failures = 0, !.successes = @ + 1]
    [] c.state = "half-open" /\ c.successes + 1 < HalfOpenMax -> [c EXCEPT !.successes = @ + 1]
    [] c.state = "closed" -> [c EXCEPT !.failures = 0]
    [] OTHER -> c

RecordFailure(c) ==
  LET n == CountFailure(c.failures)
  IN [c EXCEPT !.failures = n, !.age = 0,
               !.state = IF @ = "half-open" \/ n >= FailureThreshold THEN "open" ELSE @]

Recorded(c, ok) == IF ok THEN RecordSuccess(c) ELSE RecordFailure(c)

-----------------------------------------------------------------------------
(* Budgets *)

NewBudget == [limit |-> 0, spent |-> 0, history |-> << >>]

\* What was spent so far becomes yesterday's entry, unless the last entry is
\* today's.  A day that passes makes no entry today's, so days need no clock.
LastDays(history) ==
  IF Len(history) > MaxHistory
    THEN SubSeq(history, Len(history) - MaxHistory + 1, Len(history)) ELSE history

RolloverIfNeeded(b) ==
  IF b.history # << >> /\ b.history[Len(b.history)].date = "today" THEN b
  ELSE [b EXCEPT !.spent = 0,
                 !.history = IF b.spent > 0
                               THEN LastDays(Append(@, [date |-> "earlier", cost |-> b.spent])) ELSE @]

CanAcceptTask(b) == b.limit = 0 \/ RolloverIfNeeded(b).spent < b.limit
Checked(b) == IF b.limit = 0 THEN b ELSE RolloverIfNeeded(b)
RecordCost(b, c) == LET r == RolloverIfNeeded(b) IN [r EXCEPT !.spent = @ + c]

SetLimit(h, b, limit) ==
  /\ hostUp[h] /\ budgets' = [budgets EXCEPT ![h][b].limit = limit]
  /\ saveTimer' = [saveTimer EXCEPT ![h] = TRUE]
  /\ UNCHANGED <<req, circuits, budgetsFile, hostVars, clockVars>>

\* GET /api/budgets and the report roll every budget over.
ReadBudgets(h) ==
  /\ hostUp[h] /\ budgets' = [budgets EXCEPT ![h] = [b \in Bots |-> RolloverIfNeeded(@[b])]]
  /\ UNCHANGED <<req, circuits, saveTimer, budgetsFile, hostVars, clockVars>>

\* The write is taken to succeed and to be whole: one that fails is logged, and
\* its costs are written with the next one.
Save(h) ==
  /\ hostUp[h] /\ saveTimer[h] /\ saveTimer' = [saveTimer EXCEPT ![h] = FALSE]
  /\ budgetsFile' = [budgetsFile EXCEPT ![h] = budgets[h]]
  /\ UNCHANGED <<req, circuits, budgets, hostVars, clockVars>>

ResetCircuit(h, b) ==
  /\ hostUp[h] /\ circuits' = [circuits EXCEPT ![h][b] = NewCircuit]
  /\ UNCHANGED <<req, budgets, saveTimer, budgetsFile, hostVars, clockVars>>

-----------------------------------------------------------------------------
(* Bots: bots.json and the registry *)

\* The file is written under another name and renamed: a crash leaves the old
\* one or the new one.
AddedTo(bots, b)     == bots \cup {b}
RemovedFrom(bots, b) == bots \ {b}
Removable(bots, b)   == b \in bots /\ Cardinality(bots) + OtherBots > 1

\* POST /api/bots: a web bot runs at once, another after the next restart.
AddBot(h, b, web) ==
  /\ hostUp[h] /\ b \notin config[h]
  /\ config' = [config EXCEPT ![h] = AddedTo(@, b)]
  /\ registry' = [registry EXCEPT ![h] = IF web THEN @ \cup {b} ELSE @]
  /\ UNCHANGED <<req, circuits, budgets, saveTimer, budgetsFile, cache, hostUp, clockVars>>

RemoveBot(h, b) ==
  /\ hostUp[h] /\ Removable(config[h], b)
  /\ config' = [config EXCEPT ![h] = RemovedFrom(@, b)]
  /\ registry' = [registry EXCEPT ![h] = @ \ {b}]
  /\ UNCHANGED <<req, circuits, budgets, saveTimer, budgetsFile, cache, hostUp, clockVars>>

\* A peer that does not answer in time loses its bots; one that does is asked
\* for its own only, those of its peers are left out.
RefreshPeer(h, p) ==
  /\ hostUp[h] /\ p \in PeersOf[h]
  /\ \/ hostUp[p] /\ cache' = [cache EXCEPT ![h][p] = registry[p]]
     \/ cache' = [cache EXCEPT ![h][p] = {}]
  /\ UNCHANGED <<req, circuits, budgets, saveTimer, budgetsFile, config, registry, hostUp, clockVars>>

-----------------------------------------------------------------------------
(* Requests *)

\* at: where the handler is.  task: the entry in the task store.  child: the
\* request it became at a peer.  answer: what that one was told.
Blank == [at |-> "idle", host |-> Absent, bot |-> Absent, hops |-> 0, async |-> FALSE,
          callback |-> FALSE, peer |-> Absent, child |-> Absent, task |-> "none", answer |-> "none"]

\* A client's slot is free once it has its answer; a peer reads its own.
Answered(x, a) == IF x.hops = 0 THEN Blank
                  ELSE [Blank EXCEPT !.at = "done", !.host = x.host, !.hops = x.hops, !.answer = a]

\* findBotOnPeer for a qualified name; findBotPeer for a bot that does not run
\* here, unless the request came from a peer.
Known(h, b)    == {p \in PeersOf[h] : b \in cache[h][p]}
ForwardTo(x) ==
  IF x.peer # Absent THEN Known(x.host, x.bot) \cap {x.peer}
  ELSE IF x.hops = 0 THEN Known(x.host, x.bot) ELSE {}

RunsHere(x) == x.peer = Absent /\ x.bot \in registry[x.host]

Started(x) == [x EXCEPT !.at = "running", !.task = IF x.async THEN "running" ELSE "none"]

ReceiveHere(r, x) ==
  LET c == circuits[x.host][x.bot]
      b == budgets[x.host][x.bot]
      settled == IF IsAvailable(c) /\ CanAcceptTask(b) THEN Started(x) ELSE Answered(x, "refused")
  IN /\ RunsHere(x)
     /\ req' = [req EXCEPT ![r] = settled]
     /\ circuits' = [circuits EXCEPT ![x.host][x.bot] = Probed(c)]
     /\ budgets' = [budgets EXCEPT ![x.host][x.bot] = IF IsAvailable(c) THEN Checked(b) ELSE b]
     /\ UNCHANGED <<saveTimer, budgetsFile, hostVars, clockVars>>

\* Whatever the client asked for, the peer is asked to answer the request.
Sent(x, p) == [x EXCEPT !.at = "forward", !.peer = p, !.async = FALSE, !.callback = FALSE]

ReceiveAndForward(r, x) ==
  /\ ~RunsHere(x)
  /\ \E p \in ForwardTo(x) : req' = [req EXCEPT ![r] = Sent(x, p)]
  /\ UNCHANGED <<circuits, budgets, saveTimer, budgetsFile, hostVars, clockVars>>

ReceiveUnknown(r, x) ==
  /\ ~RunsHere(x) /\ ForwardTo(x) = {}
  /\ req' = [req EXCEPT ![r] = Answered(x, "missing")]
  /\ UNCHANGED <<circuits, budgets, saveTimer, budgetsFile, hostVars, clockVars>>

Talk(r, h, b, peer, async, callback) ==
  LET x == [Blank EXCEPT !.host = h, !.bot = b, !.peer = peer, !.async = async, !.callback = callback]
  IN /\ hostUp[h] /\ req[r] = Blank /\ peer \in PeersOf[h] \cup {Absent}
     /\ callback => async
     /\ ReceiveHere(r, x) \/ ReceiveAndForward(r, x) \/ ReceiveUnknown(r, x)

\* forwardTask: the request arrives at the peer as an unqualified, sync one.
ForwardArrives(r, s) ==
  LET x == [Blank EXCEPT !.host = req[r].peer, !.bot = req[r].bot, !.hops = req[r].hops + 1]
      sent(q) == [q EXCEPT ![r].at = "waiting", ![r].child = s]
      settled == IF ~RunsHere(x) THEN Answered(x, "missing")
                 ELSE IF IsAvailable(circuits[x.host][x.bot]) /\ CanAcceptTask(budgets[x.host][x.bot])
                   THEN Started(x) ELSE Answered(x, "refused")
  IN /\ req[r].at = "forward" /\ hostUp[req[r].peer] /\ req[s] = Blank
     /\ \/ /\ ~RunsHere(x) /\ ForwardTo(x) # {}
           /\ \E p \in ForwardTo(x) : req' = [sent(req) EXCEPT ![s] = Sent(x, p)]
           /\ UNCHANGED <<circuits, budgets>>
        \/ /\ RunsHere(x) \/ ForwardTo(x) = {}
           /\ req' = [sent(req) EXCEPT ![s] = settled]
           /\ circuits' = [circuits EXCEPT ![x.host][x.bot] = IF RunsHere(x) THEN Probed(@) ELSE @]
           /\ budgets' = [budgets EXCEPT ![x.host][x.bot] =
                IF RunsHere(x) /\ IsAvailable(circuits[x.host][x.bot]) THEN Checked(@) ELSE @]
     /\ UNCHANGED <<saveTimer, budgetsFile, hostVars, clockVars>>

\* The forwarder reports a body with success: false as a failure and any other
\* body, an error of the peer included, as it is.
PeerAnswers(r) ==
  /\ req[r].at = "waiting" /\ req[req[r].child].at = "done"
  /\ req' = [req EXCEPT ![r] = Answered(@, IF req[@.child].answer = "failed" THEN "failed" ELSE "ok"),
                        ![req[r].child] = Blank]
  /\ UNCHANGED <<circuits, budgets, saveTimer, budgetsFile, hostVars, clockVars>>

\* The peer is down, or its answer takes more than five minutes.
ForwardFails(r) ==
  /\ \/ req[r].at = "forward"
     \/ req[r].at = "waiting"
  /\ req' = [req EXCEPT ![r] = Answered(@, "badgateway")]
  /\ UNCHANGED <<circuits, budgets, saveTimer, budgetsFile, hostVars, clockVars>>

PaidFor(x, c) ==
  /\ budgets' = [budgets EXCEPT ![x.host][x.bot] = RecordCost(@, c)]
  /\ saveTimer' = [saveTimer EXCEPT ![x.host] = TRUE]

\* What is left of a background task: its entry in the store.
Entry(x, outcome) == [Blank EXCEPT !.at = "done", !.host = x.host, !.task = outcome]

\* executeApiTask returned: the store first, then the circuit and the budget.
TaskReturns(r, ok, c) ==
  LET x == req[r]
      outcome == IF ok THEN "completed" ELSE "failed"
      asked == x.async /\ x.callback /\ registry[x.host] # {}
  IN /\ x.at = "running" /\ c \in 0..(MaxCost - cost)
     /\ req' = [req EXCEPT ![r] =
          IF asked THEN [x EXCEPT !.at = "callback", !.task = outcome]
          ELSE IF x.async THEN Entry(x, outcome)
          ELSE Answered(x, IF ok THEN "ok" ELSE "failed")]
     /\ circuits' = [circuits EXCEPT ![x.host][x.bot] = Recorded(@, ok)]
     /\ IF c > 0 THEN PaidFor(x, c) ELSE UNCHANGED <<budgets, saveTimer>>
     /\ cost' = cost + c
     /\ UNCHANGED <<budgetsFile, hostVars, hostCrashes>>

\* The one catch of the background function.
Caught(x) == Entry(x, "failed")

\* It threw: in the background it counts as a failure, in a sync request the
\* server answers 500 and nothing is counted.
TaskThrows(r) ==
  LET x == req[r]
  IN /\ x.at = "running"
     /\ req' = [req EXCEPT ![r] = IF x.async THEN Caught(x) ELSE Answered(x, "error")]
     /\ circuits' = [circuits EXCEPT ![x.host][x.bot] = IF x.async THEN RecordFailure(@) ELSE @]
     /\ UNCHANGED <<budgets, saveTimer, budgetsFile, hostVars, clockVars>>

CallbackEnds(r) ==
  /\ req[r].at = "callback" /\ req' = [req EXCEPT ![r] = Entry(@, @.task)]
  /\ UNCHANGED <<circuits, budgets, saveTimer, budgetsFile, hostVars, clockVars>>

CallbackThrows(r) ==
  LET x == req[r]
  IN /\ x.at = "callback" /\ req' = [req EXCEPT ![r] = Caught(x)]
     /\ circuits' = [circuits EXCEPT ![x.host][x.bot] = RecordFailure(@)]
     /\ UNCHANGED <<budgets, saveTimer, budgetsFile, hostVars, clockVars>>

\* The client has read its answer, or the task's entry is an hour old.
Forgotten(r) ==
  /\ req[r].at = "done" /\ \A s \in Reqs : req[s].child # r
  /\ req' = [req EXCEPT ![r] = Blank]
  /\ UNCHANGED <<circuits, budgets, saveTimer, budgetsFile, hostVars, clockVars>>

-----------------------------------------------------------------------------
(* Time, crashes *)

HostsStart(known, circuit) ==
  /\ req = [r \in Reqs |-> Blank]
  /\ circuits = [h \in Hosts |-> [b \in Bots |-> circuit]]
  /\ budgets = [h \in Hosts |-> [b \in Bots |-> NewBudget]]
  /\ budgetsFile = budgets /\ saveTimer = [h \in Hosts |-> FALSE]
  /\ cache = known
  /\ hostUp = [h \in Hosts |-> TRUE]
  /\ cost = 0 /\ hostCrashes = 0 /\ admin = 0 /\ talks = 0

TalkInit == /\ HostsStart([h \in Hosts |-> [p \in PeersOf[h] |-> {}]], NewCircuit)
        /\ config \in [Hosts -> SUBSET Bots] /\ registry = config

\* The age of an open circuit; beyond ResetTimeout it makes no difference.
CircuitAges(h, b) ==
  /\ hostUp[h] /\ circuits[h][b].state = "open" /\ circuits[h][b].age < ResetTimeout
  /\ circuits' = [circuits EXCEPT ![h][b].age = @ + 1]
  /\ UNCHANGED <<req, budgets, saveTimer, budgetsFile, hostVars, clockVars>>

\* The process ends: its requests and its task store are gone, and what it
\* called at a peer goes on there.
HostCrashes(h) ==
  /\ hostUp[h] /\ hostCrashes < MaxHostCrashes
  /\ hostUp' = [hostUp EXCEPT ![h] = FALSE] /\ hostCrashes' = hostCrashes + 1
  /\ req' = [r \in Reqs |->
       IF req[r].host = h THEN Blank
       ELSE IF req[r].child # Absent /\ req[req[r].child].host = h
         THEN Answered(req[r], "badgateway")
       ELSE req[r]]
  /\ saveTimer' = [saveTimer EXCEPT ![h] = FALSE]   \* nothing flushes it at shutdown either
  /\ UNCHANGED <<circuits, budgets, budgetsFile, config, registry, cache, cost>>

\* The file is read, the bots of bots.json start unless they fail to, and the
\* peers are polled before the first request is served.
HostRestarts(h) ==
  /\ ~hostUp[h] /\ hostUp' = [hostUp EXCEPT ![h] = TRUE]
  /\ circuits' = [circuits EXCEPT ![h] = [b \in Bots |-> NewCircuit]]
  /\ budgets' = [budgets EXCEPT ![h] = budgetsFile[h]]
  /\ \E started \in SUBSET config[h] : registry' = [registry EXCEPT ![h] = started]
  /\ \E heard \in SUBSET {p \in PeersOf[h] : hostUp[p]} :
       cache' = [cache EXCEPT ![h] = [p \in PeersOf[h] |-> IF p \in heard THEN registry[p] ELSE {}]]
  /\ UNCHANGED <<req, saveTimer, budgetsFile, config, clockVars>>

Clients == \E r \in Reqs, h \in Hosts, b \in Bots, p \in Hosts \cup {Absent}, async, cb \in BOOLEAN :
             Talk(r, h, b, p, async, cb)

Administrators ==
  \/ \E h \in Hosts, b \in Bots :
       \/ \E l \in Limits : SetLimit(h, b, l)
       \/ ResetCircuit(h, b) \/ AddBot(h, b, TRUE) \/ AddBot(h, b, FALSE) \/ RemoveBot(h, b)
  \/ \E h \in Hosts : ReadBudgets(h)

TaskOf(r)  == \/ \E ok \in BOOLEAN, c \in 0..1 : TaskReturns(r, ok, c)
              \/ TaskThrows(r) \/ CallbackEnds(r) \/ CallbackThrows(r)
Forward(r) == (\E s \in Reqs : ForwardArrives(r, s)) \/ PeerAnswers(r) \/ ForwardFails(r)
Polls(h)   == \E p \in Hosts : RefreshPeer(h, p)

Environment ==
  \/ \E h \in Hosts : HostCrashes(h) \/ HostRestarts(h) \/ Polls(h)
  \/ \E h \in Hosts, b \in Bots : CircuitAges(h, b)

TalkNext ==
  \/ Administrators /\ admin < MaxAdmin /\ admin' = admin + 1 /\ UNCHANGED talks
  \/ Clients /\ talks < MaxTalks /\ talks' = talks + 1 /\ UNCHANGED admin
  \/ /\ \/ Environment
        \/ \E h \in Hosts : Save(h)
        \/ \E r \in Reqs : TaskOf(r) \/ Forward(r) \/ Forgotten(r)
     /\ UNCHANGED <<admin, talks>>

TalkSpec == TalkInit /\ [][TalkNext]_talkVars

-----------------------------------------------------------------------------
(* Properties *)

Circuit == [state : {"closed", "open", "half-open"}, failures : 0..FailureThreshold,
            age : 0..ResetTimeout, successes : 0..HalfOpenMax]

TalkRequest ==
  [at : {"idle", "forward", "waiting", "running", "callback", "done"},
   host : Hosts \cup {Absent}, bot : Bots \cup {Absent}, hops : 0..1, async : BOOLEAN,
   callback : BOOLEAN, peer : Hosts \cup {Absent}, child : Reqs \cup {Absent},
   task : {"none", "running", "completed", "failed"},
   answer : {"none", "refused", "missing", "failed", "ok", "badgateway", "error"}]

TalkTypeOK ==
  /\ req \in [Reqs -> TalkRequest]
  /\ \A r \in Reqs : req[r].at = "waiting" <=> req[r].child # Absent
  /\ circuits \in [Hosts -> [Bots -> Circuit]]
  /\ \A h \in Hosts, b \in Bots : budgets[h][b].spent \in Nat /\ budgetsFile[h][b].spent \in Nat
  /\ config \in [Hosts -> SUBSET Bots] /\ registry \in [Hosts -> SUBSET Bots]
  /\ hostUp \in [Hosts -> BOOLEAN]

\* A closed circuit is below its threshold, and a half-open one still has
\* successes to wait for, whatever tasks that began before it opened report.
CircuitIsCoherent ==
  \A h \in Hosts, b \in Bots :
    LET c == circuits[h][b]
    IN /\ c.state = "closed" => c.failures < FailureThreshold
       /\ c.state = "half-open" => c.failures > 0 /\ c.successes < HalfOpenMax

\* When no save is due, the file has what the budgets have, or had before they
\* were rolled over: a crash loses at most the costs of the last two seconds.
CostsSurvive ==
  \A h \in Hosts, b \in Bots :
    hostUp[h] /\ ~saveTimer[h] =>
      budgets[h][b] \in {budgetsFile[h][b], RolloverIfNeeded(budgetsFile[h][b])}

\* Hosts that are each other's peers never pass a request on in a circle: it
\* is forwarded once at most, whatever their caches say.
NoForwardLoop ==
  \A r \in Reqs :
    /\ req[r].hops <= 1
    /\ req[r].hops = 1 => req[r].peer = Absent /\ req[r].child = Absent

\* No bot runs that a restart would not bring back.
RegistryWithinConfig == \A h \in Hosts : hostUp[h] => registry[h] \subseteq config[h]

\* The promises of the API of a host and of its peers, part by part.
HostsAreSound ==
  TalkTypeOK /\ CircuitIsCoherent /\ CostsSurvive /\ NoForwardLoop /\ RegistryWithinConfig
=============================================================================
