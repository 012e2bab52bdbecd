-------------------------- MODULE ExecutorRegistry --------------------------
(***************************************************************************)
(* The pool of persistent executors of one bot, one per chat               *)
(* (engines/claude/executor-registry.ts), and the bridge's subscription to *)
(* the executors in it (attachSpontaneousHandler, message-bridge.ts).      *)
(*                                                                         *)
(* An executor is reduced to what the pool sees of it: whether it is       *)
(* healthy (starting, ready or restarting), shutting down, crashed or      *)
(* closed.  Several acquire() calls may be under way; each is a caller.    *)
(***************************************************************************)
EXTENDS Naturals, Sequences, FiniteSets

CONSTANTS
  Chats,
  Callers,         \* acquire() calls that can overlap
  MaxExecutors,    \* bound: executors created in a behaviour
  MaxConcurrent,   \* opts.maxConcurrent
  SelfStops,       \* do executors stop by themselves (idle timeout, crash)?
  NoChat

ASSUME PoolAssumption == MaxExecutors \in Nat /\ MaxConcurrent \in Nat

ExecIds == 1..MaxExecutors
NoExec  == 0

VARIABLES
  executors,          \* the Map: chat -> executor, NoExec when absent
  order,              \* its key order, least recently used first
  pendingShutdowns,   \* chat -> the executor a release() is waiting for
  shuttingDown,
  exec,               \* health of every executor ever created
  chatOf,             \* and the chat it was created for
  created,            \* number of them
  caller,             \* where each acquire() call is
  subscribed,         \* bridge: spontaneousSubscribed
  heard               \* executors the bridge listens to

poolVars   == <<executors, order>>
execVars   == <<exec, chatOf, created>>
bridgeVars == <<subscribed, heard>>
vars == <<poolVars, pendingShutdowns, shuttingDown, execVars, caller, bridgeVars>>

\* "releasing" is a shutdown that release() asked for.
Health == {"none", "healthy", "releasing", "shutting_down", "crashed", "closed"}
Idle   == [pc |-> "idle"]

Init ==
  /\ executors = [c \in Chats |-> NoExec] /\ order = <<>>
  /\ pendingShutdowns = [c \in Chats |-> NoExec]
  /\ shuttingDown = FALSE
  /\ exec = [e \in ExecIds |-> "none"]
  /\ chatOf = [e \in ExecIds |-> NoChat] /\ created = 0
  /\ caller = [p \in Callers |-> Idle]
  /\ subscribed = {} /\ heard = {}

-----------------------------------------------------------------------------
(* Map operations and the bridge's event handlers.                          *)

Size == Len(order)

\* The keys that Map.delete leaves.
Without(c) ==
  IF executors[c] = NoExec THEN order
  ELSE LET k == CHOOSE i \in 1..Len(order) : order[i] = c
       IN SubSeq(order, 1, k - 1) \o SubSeq(order, k + 1, Len(order))

\* Map.set: a key that is there already keeps its place.
MapSet(c, e) ==
  /\ executors' = [executors EXCEPT ![c] = e]
  /\ order' = IF executors[c] = NoExec THEN Append(order, c) ELSE order

MapDelete(c) ==
  /\ executors' = [executors EXCEPT ![c] = NoExec]
  /\ order' = Without(c)

\* on('executor-removed')
Unsubscribe(cs) == subscribed' = subscribed \ cs /\ UNCHANGED heard

\* on('executor-added') -> attachSpontaneousHandler
Attach(c, e) ==
  IF c \in subscribed THEN UNCHANGED bridgeVars
  ELSE subscribed' = subscribed \cup {c} /\ heard' = heard \cup {e}

\* executor.shutdown(): no-op on an executor that is stopping or has stopped.
Stopping(e)   == exec[e] \in {"releasing", "shutting_down", "closed"}
ShutDown(es, how) ==
  exec' = [e \in ExecIds |-> IF e \in es /\ ~Stopping(e) THEN how ELSE exec[e]]

\* No acquire() is between start() and its continuation, a microtask later:
\* timers and I/O run only then.
Macrotask == \A p \in Callers : caller[p].pc # "starting"

(* acquire() ***************************************************************)

\* How many of the least recently used executors make room for one more; with
\* no room for any, the loop stops at the empty map.
Evicted(kept) ==
  IF Len(kept) < MaxConcurrent THEN 0
  ELSE IF MaxConcurrent = 0 THEN Len(kept) ELSE Len(kept) - MaxConcurrent + 1

\* From the check of the map on: bump, or replace, evict, create and start.
Lookup(p, c) ==
  LET e == executors[c] IN
  IF e # NoExec /\ exec[e] = "healthy"
  THEN /\ order' = Append(Without(c), c)
       /\ caller' = [caller EXCEPT ![p] = Idle]
       /\ UNCHANGED <<executors, execVars, bridgeVars>>
  ELSE LET kept == Without(c)   \* an unhealthy entry leaves without an event
           n    == Evicted(kept)
           gone == {kept[i] : i \in 1..n}
       IN
       /\ created < MaxExecutors
       /\ created' = created + 1
       /\ chatOf' = [chatOf EXCEPT ![created'] = c]
       /\ order' = SubSeq(kept, n + 1, Len(kept))
       /\ executors' = [d \in Chats |-> IF d \in gone \cup {c} THEN NoExec ELSE executors[d]]
       /\ exec' = [f \in ExecIds |->
                     IF f = created' THEN "healthy"
                     ELSE IF (\E d \in gone : executors[d] = f) /\ ~Stopping(f)
                          THEN "shutting_down" ELSE exec[f]]
       /\ Unsubscribe(gone)
       /\ caller' = [caller EXCEPT ![p] = [pc |-> "starting", chat |-> c, exec |-> created']]

\* Bound: a call begins only if an executor can still be created for it.
Room == created + Cardinality({q \in Callers : caller[q].pc = "awaiting"}) < MaxExecutors

AcquireBegins(p, c) ==
  /\ caller[p].pc = "idle" /\ Room
  /\ ~shuttingDown
  /\ pendingShutdowns[c] = NoExec
  /\ Lookup(p, c)
  /\ UNCHANGED <<pendingShutdowns, shuttingDown>>

AcquireAwaitsRelease(p, c) ==
  /\ caller[p].pc = "idle" /\ Room
  /\ ~shuttingDown
  /\ pendingShutdowns[c] # NoExec
  /\ caller' = [caller EXCEPT ![p] = [pc |-> "awaiting", chat |-> c, exec |-> pendingShutdowns[c]]]
  /\ UNCHANGED <<poolVars, pendingShutdowns, shuttingDown, execVars, bridgeVars>>

AcquireResumes(p) ==
  /\ caller[p].pc = "awaiting"
  /\ exec[caller[p].exec] = "closed"
  /\ Lookup(p, caller[p].chat)
  /\ UNCHANGED <<pendingShutdowns, shuttingDown>>

\* After `await executor.start()`.
AcquireAdds(p) ==
  /\ caller[p].pc = "starting"
  /\ MapSet(caller[p].chat, caller[p].exec)
  /\ Attach(caller[p].chat, caller[p].exec)
  /\ caller' = [caller EXCEPT ![p] = Idle]
  /\ UNCHANGED <<pendingShutdowns, shuttingDown, execVars>>

\* start() rejects (query() threw): the executor is dropped, the evicted one
\* is gone all the same.
AcquireFails(p) ==
  /\ caller[p].pc = "starting"
  /\ exec' = [exec EXCEPT ![caller[p].exec] = "crashed"]
  /\ caller' = [caller EXCEPT ![p] = Idle]
  /\ UNCHANGED <<poolVars, pendingShutdowns, shuttingDown, chatOf, created, bridgeVars>>

(* release() and shutdownAll() *********************************************)

ReleaseUngated(c) ==
  /\ executors[c] # NoExec
  /\ MapDelete(c)
  /\ Unsubscribe({c})
  /\ ShutDown({executors[c]}, "releasing")
  /\ UNCHANGED <<pendingShutdowns, shuttingDown, chatOf, created, caller>>

\* shutdown() of an executor that is stopping already resolves at once, and
\* then nothing is left pending.
Release(c) ==
  /\ executors[c] # NoExec
  /\ MapDelete(c)
  /\ Unsubscribe({c})
  /\ ShutDown({executors[c]}, "releasing")
  /\ pendingShutdowns' = [pendingShutdowns EXCEPT
                            ![c] = IF Stopping(executors[c]) THEN NoExec ELSE executors[c]]
  /\ UNCHANGED <<shuttingDown, chatOf, created, caller>>

ShutdownAll ==
  /\ ~shuttingDown
  /\ shuttingDown' = TRUE
  /\ ShutDown({executors[c] : c \in Chats} \ {NoExec}, "shutting_down")
  /\ executors' = [c \in Chats |-> NoExec] /\ order' = <<>>
  /\ UNCHANGED <<pendingShutdowns, chatOf, created, caller, bridgeVars>>

(* What executors do by themselves. *****************************************)

\* The 'closed' event: the listener acquire() installed, and a release() that
\* waits.
Close(e) ==
  /\ exec' = [exec EXCEPT ![e] = "closed"]
  /\ pendingShutdowns' = [c \in Chats |-> IF pendingShutdowns[c] = e THEN NoExec
                                          ELSE pendingShutdowns[c]]
  /\ IF \E c \in Chats : executors[c] = e
     THEN LET c == CHOOSE d \in Chats : executors[d] = e
          IN MapDelete(c) /\ Unsubscribe({c})
     ELSE UNCHANGED <<poolVars, bridgeVars>>
  /\ UNCHANGED <<shuttingDown, chatOf, created, caller>>

ShutdownCompletes(e) ==
  /\ Macrotask
  /\ exec[e] \in {"releasing", "shutting_down"}
  /\ Close(e)

\* Stream ended, or too many restarts.
ClosesByItself(e) ==
  /\ SelfStops /\ Macrotask
  /\ exec[e] = "healthy"
  /\ Close(e)

\* The idle timer calls shutdown(); a restart that throws leaves 'crashed'.
StopsByItself(e, how) ==
  /\ SelfStops /\ Macrotask
  /\ exec[e] = "healthy"
  /\ exec' = [exec EXCEPT ![e] = how]
  /\ UNCHANGED <<poolVars, pendingShutdowns, shuttingDown, chatOf, created, caller, bridgeVars>>

AcquireNext ==
  \E p \in Callers :
    \/ \E c \in Chats : AcquireBegins(p, c) \/ AcquireAwaitsRelease(p, c)
    \/ AcquireResumes(p) \/ AcquireAdds(p) \/ AcquireFails(p)

ExecutorNext ==
  \E e \in ExecIds :
    \/ ShutdownCompletes(e) \/ ClosesByItself(e)
    \/ \E how \in {"shutting_down", "crashed"} : StopsByItself(e, how)

Next == AcquireNext \/ (\E c \in Chats : Release(c)) \/ ShutdownAll \/ ExecutorNext

Spec == Init /\ [][Next]_vars

-----------------------------------------------------------------------------

TypeOK ==
  /\ executors \in [Chats -> ExecIds \cup {NoExec}]
  /\ order \in Seq(Chats)
  /\ pendingShutdowns \in [Chats -> ExecIds \cup {NoExec}]
  /\ shuttingDown \in BOOLEAN
  /\ exec \in [ExecIds -> Health]
  /\ chatOf \in [ExecIds -> Chats \cup {NoChat}] /\ created \in 0..MaxExecutors
  /\ caller \in [Callers -> {Idle} \cup
                   [pc : {"awaiting", "starting"}, chat : Chats, exec : ExecIds]]
  /\ subscribed \subseteq Chats /\ heard \subseteq ExecIds

Pooled(e)   == \E c \in Chats : executors[c] = e
Starting(e) == \E p \in Callers : caller[p].pc = "starting" /\ caller[p].exec = e
\* The pool never forgets a running process: a healthy executor can be found
\* by its chat, released and shut down, or is just being started.
NoOrphan == \A e \in ExecIds : exec[e] = "healthy" => Pooled(e) \/ Starting(e)

\* The pendingShutdowns gate: a released executor is gone before its chat has
\* another, so that it cannot talk into the new one's card.
ReleasedIsAlone ==
  \A e, f \in ExecIds :
    exec[e] = "releasing" /\ exec[f] = "healthy" => chatOf[e] # chatOf[f]

\* "Max concurrent executors. LRU-evicted past this."
CapacityRespected == Size <= MaxConcurrent

\* An executor that closes, for whatever reason and at whatever moment, leaves
\* the pool with its 'closed' event and is not put back.
ClosedNeverPooled ==
  \A c \in Chats : executors[c] # NoExec => exec[executors[c]] # "closed"

\* "every newly added executor gets a spontaneous-activity subscription": what
\* the agent in the pool says between turns reaches the bridge.
PooledIsHeard ==
  \A c \in Chats : executors[c] # NoExec => executors[c] \in heard
=============================================================================
