------------------------------ MODULE Sessions ------------------------------
(***************************************************************************)
(* Which conversation a chat's next turn continues.                        *)
(*                                                                         *)
(* Four stores answer that question, and no step updates all of them:      *)
(*   - sessions, the SessionManager's map (a bounded cache: the least      *)
(*     recently used chat is evicted);                                     *)
(*   - file, the JSON file it is written to by every setter and read from  *)
(*     at start-up;                                                        *)
(*   - row and links, the SessionRegistry's tables, from which another     *)
(*     device may adopt the session of a chat;                             *)
(*   - pool, the executors that persistent mode keeps alive, each with the *)
(*     conversation it runs in its memory.                                 *)
(* The engines (external) keep the conversations themselves: made says     *)
(* which engine began each and whether it can still resume it.             *)
(*                                                                         *)
(* forgotten, back and expected are history variables: the conversations   *)
(* a user asked to leave behind, those of them that came back into the     *)
(* session all the same, and the one the chat has every reason to resume.  *)
(***************************************************************************)
EXTENDS Naturals, Sequences, FiniteSets, SequencesExt

CONSTANTS Chats, Engines, None,
          MaxConversations,    \* bound: conversations ever begun
          MaxEvents            \* bound: commands, adoptions, evictions, crashes...

VARIABLES persistent, botEngine, sessions, file, row, links, pool, turn, made, events, forgotten, back, expected

sessionsVars == <<persistent, botEngine, sessions, file, row, links, pool, turn, made, events, forgotten, back, expected>>
history == <<forgotten, back, expected>>
registry == <<row, links>>
config == <<persistent, botEngine>>

Blank == [id |-> 0, idEngine |-> None, engine |-> None, model |-> None]
SessionsInit ==
  /\ persistent \in BOOLEAN
  /\ botEngine \in Engines
  /\ sessions = [c \in Chats |-> None]
  /\ file = [c \in Chats |-> None]
  /\ row = [c \in Chats |-> None]
  /\ links = [c \in Chats |-> <<>>]
  /\ pool = [c \in Chats |-> 0]
  /\ turn = [c \in Chats |-> None]
  /\ made = <<>>
  /\ events = 0
  /\ forgotten = [c \in Chats |-> 0]
  /\ back = [c \in Chats |-> {}]
  /\ expected = [c \in Chats |-> 0]

-----------------------------------------------------------------------------
(* The session manager.  getSession makes a blank session for a chat it    *)
(* does not hold; every setter ends in saveToDisk.                         *)

GetSession(c) == IF sessions[c] = None THEN Blank ELSE sessions[c]

Kept(s) == s # None /\ (s.id # 0 \/ s.model # None \/ s.engine # None)
SaveToDisk(now) == file' = [c \in Chats |-> IF Kept(now[c]) THEN now[c] ELSE None]
LoadFromDisk == file

Set(c, s) == LET now == [sessions EXCEPT ![c] = s] IN sessions' = now /\ SaveToDisk(now)

WithId(s, v, e) == [s EXCEPT !.id = v, !.idEngine = e]
WithModel(s, m) == [s EXCEPT !.model = m]
(* A bug: switching engines keeps the conversation of the old one.         *)
WithEngineKeepsId(s, e) ==
  IF s.engine = e THEN s ELSE [s EXCEPT !.engine = e, !.model = None]

WithEngine(s, e) ==
  IF s.engine = e THEN s ELSE [Blank EXCEPT !.engine = e]
ResetSession(s) == [s EXCEPT !.id = 0, !.idEngine = None]

ActiveEngine(s) == IF s.engine = None THEN botEngine ELSE s.engine

(* What prepareSessionForExecution leaves behind: ids and models of other  *)
(* engines are dropped before the turn.                                    *)
DropForeignId(s) ==
  IF s.id # 0 /\ s.idEngine # None /\ s.idEngine # ActiveEngine(s)
    THEN ResetSession(s) ELSE s
Prepared(s) ==
  LET t == DropForeignId(s)
  IN IF t.model # None /\ t.model # ActiveEngine(t) THEN WithModel(t, None) ELSE t

-----------------------------------------------------------------------------
(* A turn: prepared, then (after downloads and the first card) handed to   *)
(* the engine, which resumes, refuses or begins a conversation.            *)

Running(c) == turn[c] # None /\ turn[c].phase \in {"running", "dying"}

Begin(c) ==
  /\ turn[c] = None
  /\ LET s == Prepared(GetSession(c))
     IN /\ IF s # GetSession(c) THEN Set(c, s)
             ELSE sessions' = [sessions EXCEPT ![c] = s] /\ UNCHANGED file
        /\ turn' = [turn EXCEPT ![c] =
             [phase |-> "begun", engine |-> ActiveEngine(s), conv |-> 0, heard |-> FALSE,
              pooled |-> FALSE, bare |-> FALSE, model |-> None, mine |-> TRUE,
              forgot |-> 0, back |-> {}, expect |-> 0]]
  /\ UNCHANGED <<config, registry, pool, made, history>>

Pools(t) == persistent /\ t.engine = "claude"
CanResume(v, e) == made[v].engine = e /\ made[v].kept

Started(t, s, v) ==
  [t EXCEPT !.phase = "running", !.conv = v, !.model = s.model,
            !.bare = s.id # 0 /\ s.idEngine = None]

(* runOneTurn: a pooled executor is taken as it is; otherwise the engine   *)
(* is asked to resume the session's id, or to begin.                       *)
RunOneTurn(c, t, s, fresh) ==
  LET pooled == Pools(t) /\ ~fresh /\ pool[c] # 0
      resume == IF fresh THEN 0 ELSE s.id
  IN \/ /\ pooled
        /\ turn' = [turn EXCEPT ![c] = [Started(t, s, pool[c]) EXCEPT !.pooled = TRUE]]
        /\ UNCHANGED <<made, pool>>
     \/ /\ ~pooled /\ resume # 0
        /\ turn' = [turn EXCEPT ![c] =
             IF CanResume(resume, t.engine) THEN Started(t, s, resume)
               ELSE [Started(t, s, resume) EXCEPT !.phase = "refused"]]
        /\ pool' = IF Pools(t) /\ CanResume(resume, t.engine) THEN [pool EXCEPT ![c] = resume] ELSE pool
        /\ UNCHANGED made
     \/ /\ ~pooled /\ resume = 0 /\ Len(made) < MaxConversations
        /\ made' = Append(made, [engine |-> t.engine, kept |-> TRUE])
        /\ turn' = [turn EXCEPT ![c] = Started(t, s, Len(made'))]
        /\ pool' = IF Pools(t) THEN [pool EXCEPT ![c] = Len(made')] ELSE pool

Run(c) ==
  /\ turn[c] # None /\ turn[c].phase = "begun"
  /\ RunOneTurn(c, [turn[c] EXCEPT !.forgot = forgotten[c], !.back = back[c],
                                   !.expect = expected[c]],
                GetSession(c), FALSE)
  /\ UNCHANGED <<config, sessions, file, registry, history>>

(* A message of the stream names the conversation, and the session follows *)
(* it: also where a command left that conversation behind meanwhile.       *)
Speaks(c) ==
  /\ Running(c)
  /\ LET t == turn[c]  s == GetSession(c)
     IN /\ IF s.id # t.conv \/ s.idEngine # t.engine
             THEN Set(c, WithId(s, t.conv, t.engine))
             ELSE UNCHANGED <<sessions, file>>
        /\ turn' = [turn EXCEPT ![c].heard = TRUE]
        /\ expected' = [expected EXCEPT ![c] = IF t.mine THEN t.conv ELSE 0]
        /\ back' = IF t.conv > forgotten[c] THEN back ELSE [back EXCEPT ![c] = @ \cup {t.conv}]
  /\ UNCHANGED <<config, registry, pool, made, forgotten>>

Leaves(c) ==  \* the conversations there are are not the chat's any more
  /\ forgotten' = [forgotten EXCEPT ![c] = Len(made)]
  /\ back' = [back EXCEPT ![c] = {}]
  /\ expected' = [expected EXCEPT ![c] = 0]

(* The engine no longer knows the id: the session is reset and the prompt  *)
(* asked again, of a fresh executor.                                       *)
Retry(c) ==
  /\ turn[c] # None /\ turn[c].phase = "refused" /\ GetSession(c).id # 0
  /\ Set(c, ResetSession(GetSession(c)))
  /\ Leaves(c)
  /\ RunOneTurn(c, [turn[c] EXCEPT !.forgot = Len(made), !.back = {}, !.expect = 0],
                ResetSession(GetSession(c)), TRUE)
  /\ UNCHANGED <<config, registry>>

FirstLink(c) == IF links[c] = <<>> THEN None ELSE Head(links[c])

(* recordSession, at the end of the turn: the row of the chat, if it has   *)
(* one, and the row it is linked to learn the conversation's id.           *)
CreateOrUpdate(c, v) ==
  LET l == FirstLink(c)
      known == v # 0
      own == IF row[c] = None
               THEN IF l = None THEN [row EXCEPT ![c] = v] ELSE row
               ELSE IF known THEN [row EXCEPT ![c] = v] ELSE row
  IN row' = IF l # None /\ known THEN [own EXCEPT ![l] = v] ELSE own

End(c) ==
  /\ turn[c] # None /\ turn[c].phase # "begun"
  /\ turn[c].phase = "refused" => GetSession(c).id = 0
  /\ CreateOrUpdate(c, IF turn[c].heard THEN turn[c].conv ELSE 0)
  /\ turn' = [turn EXCEPT ![c] = None]
  /\ UNCHANGED <<config, sessions, file, links, pool, made, history>>

-----------------------------------------------------------------------------
(* Commands and other devices, at any moment of a turn.                    *)

Disturb(c) ==
  IF turn[c] = None THEN turn ELSE [turn EXCEPT ![c].mine = FALSE]

(* /reset: the session is cleared if the map holds one (of a chat that was *)
(* evicted the file keeps the id), and the chat's executor released, which *)
(* ends a turn that runs on it.                                            *)
Reset(c) ==
  /\ IF sessions[c] = None
       THEN /\ forgotten' = [forgotten EXCEPT ![c] = Len(made)]
            /\ back' = [back EXCEPT ![c] = IF file[c] = None THEN {} ELSE {file[c].id}]
            /\ expected' = [expected EXCEPT ![c] = 0]
            /\ UNCHANGED <<sessions, file>>
       ELSE Leaves(c) /\ Set(c, ResetSession(sessions[c]))
  /\ turn' = IF Running(c) /\ Pools(turn[c]) /\ pool[c] # 0
               THEN [Disturb(c) EXCEPT ![c].phase = "dying"] ELSE Disturb(c)
  /\ pool' = [pool EXCEPT ![c] = 0]
  /\ UNCHANGED <<config, registry, made>>

(* /model <engine>: the executor is not touched.                           *)
SwitchEngine(c, e) ==
  /\ ActiveEngine(GetSession(c)) # e
  /\ Set(c, WithEngine(GetSession(c), e))
  /\ Leaves(c)
  /\ turn' = Disturb(c)
  /\ UNCHANGED <<config, registry, pool, made>>

(* /model reset                                                            *)
ClearOverrides(c) ==
  /\ LET s == WithModel(GetSession(c), None)
     IN /\ Set(c, WithEngine(s, None))
        /\ IF s.engine # None THEN Leaves(c) ELSE UNCHANGED history
        /\ turn' = IF s.engine # None THEN Disturb(c) ELSE turn
  /\ UNCHANGED <<config, registry, pool, made>>

(* /model <name>: a model of the engine the chat is on.                    *)
SetModel(c) ==
  /\ LET s == GetSession(c)  e == ActiveEngine(s)
     IN /\ s.model # e
        /\ Set(c, WithModel(s, e))
  /\ turn' = Disturb(c)
  /\ UNCHANGED <<config, registry, pool, made, history>>

(* Another device takes over the session of row r under its own chat id:   *)
(* linkChatId, then setSessionId without an engine.                        *)
LinkChatId(c, r) ==
  /\ row[r] # None
  /\ links' = IF Contains(links[c], r) THEN links ELSE [links EXCEPT ![c] = Append(@, r)]
  /\ UNCHANGED row

Adopt(c, r) ==
  /\ LinkChatId(c, r)
  /\ IF row[r] = 0 THEN UNCHANGED <<sessions, file, history, turn>>
       ELSE /\ Set(c, WithId(GetSession(c), row[r], None))
            /\ expected' = [expected EXCEPT ![c] = IF Running(c) THEN 0 ELSE row[r]]
            /\ forgotten' = [forgotten EXCEPT ![c] = 0]
            /\ back' = [back EXCEPT ![c] = {}]
            /\ turn' = Disturb(c)
  /\ UNCHANGED <<config, pool, made>>

(* Deleting the session a chat shows: its own row, or else the row it is   *)
(* linked to.  The session manager keeps the id.                           *)
DeleteSession(c) ==
  LET r == IF row[c] # None THEN c ELSE FirstLink(c)
  IN /\ r # None /\ row[r] # None
     /\ row' = [row EXCEPT ![r] = None]
     /\ links' = [d \in Chats |-> SelectSeq(links[d], LAMBDA l : l # r)]
     /\ UNCHANGED <<config, sessions, file, pool, turn, made, history>>

-----------------------------------------------------------------------------
(* The environment.                                                        *)

(* Ten thousand other chats: c, idle, is the least recently used.          *)
EvictOldest(c) ==
  /\ sessions[c] # None /\ turn[c] = None
  /\ sessions' = [sessions EXCEPT ![c] = None]
  /\ expected' = [expected EXCEPT ![c] = 0]
  /\ UNCHANGED <<config, file, registry, pool, turn, made, forgotten, back>>

(* The pool closes an idle executor (idle timeout, capacity).              *)
ExecutorCloses(c) ==
  /\ pool[c] # 0 /\ ~Running(c)
  /\ pool' = [pool EXCEPT ![c] = 0]
  /\ UNCHANGED <<config, sessions, file, registry, turn, made, history>>

(* The engine drops a conversation from its store.                         *)
EngineForgets(v) ==
  /\ made[v].kept
  /\ made' = [made EXCEPT ![v].kept = FALSE]
  /\ expected' = [c \in Chats |-> IF expected[c] = v THEN 0 ELSE expected[c]]
  /\ turn' = [c \in Chats |->
       IF turn[c] # None /\ turn[c].expect = v THEN [turn[c] EXCEPT !.expect = 0] ELSE turn[c]]
  /\ UNCHANGED <<config, sessions, file, registry, pool, forgotten, back>>

Restarted(from) ==
  /\ sessions' = from
  /\ pool' = [c \in Chats |-> 0]
  /\ turn' = [c \in Chats |-> None]
  /\ UNCHANGED <<persistent, registry, made>>

Crash == Restarted(LoadFromDisk) /\ UNCHANGED <<botEngine, file, history>>

(* The process dies while a turn's message rewrites the file.              *)
CrashInSave ==
  /\ \E c \in Chats : Running(c)
  /\ file' = [c \in Chats |-> None]
  /\ Restarted([c \in Chats |-> None])
  /\ expected' = [c \in Chats |-> 0]
  /\ UNCHANGED <<botEngine, forgotten, back>>

(* destroy: the file is written once more.  The bot may come back with     *)
(* another engine configured.                                              *)
Destroy ==
  /\ SaveToDisk(sessions)
  /\ botEngine' \in Engines
  /\ Restarted([c \in Chats |-> IF Kept(sessions[c]) THEN sessions[c] ELSE None])
  /\ expected' = IF botEngine' = botEngine THEN expected ELSE [c \in Chats |-> 0]
  /\ UNCHANGED <<forgotten, back>>

Turns ==
  /\ \E c \in Chats : Begin(c) \/ Run(c) \/ Speaks(c) \/ Retry(c) \/ End(c)
  /\ UNCHANGED events

Commands ==
  \E c \in Chats :
    \/ Reset(c) \/ ClearOverrides(c) \/ SetModel(c) \/ DeleteSession(c)
    \/ \E e \in Engines : SwitchEngine(c, e)
    \/ \E r \in Chats : Adopt(c, r)

Environment ==
  \/ \E c \in Chats : EvictOldest(c) \/ ExecutorCloses(c)
  \/ \E v \in 1 .. Len(made) : EngineForgets(v)
  \/ Crash \/ CrashInSave \/ Destroy

SessionsNext ==
  \/ Turns
  \/ /\ events < MaxEvents /\ events' = events + 1
     /\ Commands \/ Environment

SessionsSpec == SessionsInit /\ [][SessionsNext]_sessionsVars

-----------------------------------------------------------------------------
(* No engine is asked to resume a conversation of another engine, unless   *)
(* the id came from an adoption, which does not say whose it is: switches, *)
(* restarts, evictions and turns that end after a switch included.         *)
ResumesOwnEngineUnlessAdopted ==
  \A c \in Chats :
    turn[c] # None /\ turn[c].conv # 0 =>
      turn[c].bare \/ turn[c].pooled \/ made[turn[c].conv].engine = turn[c].engine

(* After /reset, an engine switch or a stale session, no later turn of the *)
(* chat continues a conversation from before it, with two exceptions: a    *)
(* pooled executor is taken as it is (a /model switch does not release     *)
(* it), and an id that came back is resumed - a turn that was running      *)
(* across the command names its conversation again, or the command found   *)
(* the chat evicted and left the file as it was.                           *)
LeftBehindUnlessWrittenBack ==
  \A c \in Chats :
    Running(c) => \/ turn[c].conv > turn[c].forgot
                  \/ turn[c].conv \in turn[c].back
                  \/ turn[c].pooled /\ Pools(turn[c])

(* A chat whose last turn named a conversation, or that adopted one, goes  *)
(* on with it, through restarts and other chats' commands, unless an       *)
(* executor with another conversation was pooled.                          *)
GoesOnUnlessPooled ==
  \A c \in Chats :
    Running(c) /\ turn[c].expect # 0 =>
      turn[c].conv = turn[c].expect \/ turn[c].pooled

(* The model a turn is started with belongs to its engine, unless the      *)
(* commands came between its preparation and its start.                    *)
ModelIsOfItsEngine ==
  \A c \in Chats :
    Running(c) /\ turn[c].mine => turn[c].model \in {None, turn[c].engine}

(* Which conversation a turn continues, part by part.                      *)
TurnsContinueTheirOwnUnlessTakenUp ==
  /\ ResumesOwnEngineUnlessAdopted /\ LeftBehindUnlessWrittenBack
  /\ GoesOnUnlessPooled /\ ModelIsOfItsEngine
=============================================================================
