---- MODULE MCBots ----
(***************************************************************************)
(* What a bot has with those it talks to, piece by piece and each on its   *)
(* own small instance: the questions of its turns, what it takes in and    *)
(* shows on WeChat, Feishu and Telegram, the skills it gives to others,    *)
(* and the wiki it keeps its documents in.  A behaviour is of one of them  *)
(* (part); the variables of the others are Off, or as they are at the      *)
(* start in the parts this module extends.                                 *)
(***************************************************************************)
EXTENDS MCQuestionFlow, SkillHub, Intake, DocSync

CONSTANTS c1, u1, u2, root, f1, d1, d2, n1, t1, v1, v2, s1

VARIABLE part   \* which of them this behaviour is of
VARIABLES
  phase, wechatDisk, client, backoff, service, handed, task, chat, finals,
  restarted, faults,
  answer, status, entry, onCard, shownOf, flying, st, tries, said, unreachable,
  telegramFaults, overtaken,
  doc, wikiPage, blocksSt, rest, synced, hash, troubled, edits, blockFaults

\* Messages of WeChat: a text that is still being written, and a picture with a
\* text; answers of one chunk, and of two with a file.
WechatMessages == {[items |-> <<"text">>, form |-> "partial"], [items |-> <<"image", "text">>, form |-> "final"]}
WechatAnswers == {[chunks |-> 1, file |-> FALSE], [chunks |-> 2, file |-> TRUE]}

\* Messages of Feishu and of Telegram: with and without a mention of the bot or of
\* somebody else, words, a command, a picture, two pictures in a post.
Body(type, text, images, at) == [type |-> type, text |-> text, images |-> images, at |-> at]
FeishuBodies ==
  {Body("text", "words", 0, "bot"), Body("text", "words", 0, "other"), Body("text", "mention", 0, "bot"),
   Body("image", Absent, 1, None), Body("post", "mention", 2, "bot")}
TelegramBodies ==
  {[at |-> "bot", command |-> FALSE, words |-> TRUE, media |-> FALSE],
   [at |-> "other", command |-> FALSE, words |-> TRUE, media |-> FALSE],
   [at |-> Absent, command |-> TRUE, words |-> TRUE, media |-> FALSE],
   [at |-> Absent, command |-> FALSE, words |-> FALSE, media |-> TRUE]}

Wechat == INSTANCE WechatBot WITH
  Chats <- {c1}, ConfigTokens <- {None, 1}, Messages <- WechatMessages,
  Answers <- WechatAnswers, MaxSent <- 2, MaxTokens <- 2, MaxTools <- 1,
  MaxFaults <- 1, disk <- wechatDisk
Telegram == INSTANCE TelegramCards WITH
  LineKinds <- {"plain", "bold", "overlap", "fence", "row", "separator", "rule"},
  Limit <- 11, Retries <- 3, MaxLines <- 3, MaxSlow <- 1, MaxFaults <- 2,
  faults <- telegramFaults
Blocks == INSTANCE DocBlocks WITH
  LineKinds <- {"text", "item", "nested", "quote", "fence", "row", "rule", "blank", "long"},
  MaxRun <- 3, PerBatch <- 2, PageSize <- 4, MaxLines <- 3, MaxEdits <- 3,
  MaxFaults <- 1, page <- wikiPage, faults <- blockFaults, st <- blocksSt

questionsVars == <<vars, raced>>
wechatVars ==
  <<phase, wechatDisk, client, backoff, service, handed, task, chat, finals,
    restarted, faults>>
telegramVars ==
  <<answer, status, entry, onCard, shownOf, flying, st, tries, said, unreachable,
    telegramFaults, overtaken>>
blocksVars ==
  <<doc, wikiPage, blocksSt, rest, synced, hash, troubled, edits, blockFaults>>
allVars ==
  <<part, questionsVars, wechatVars, intakeVars, skillsVars,
    telegramVars, docSyncVars, blocksVars>>

Off == "off"
wechatOff ==
  /\ phase = Off /\ wechatDisk = Off /\ client = Off /\ backoff = Off /\ service = Off
  /\ handed = Off /\ task = Off /\ chat = Off /\ finals = Off /\ restarted = Off
  /\ faults = Off
intakeOff ==
  /\ IntakeInit /\ group = [members |-> 2, changed |-> FALSE]
  /\ setup = [noMention |-> FALSE, knowsSelf |-> TRUE]
skillsOff == SkillsInit /\ author = [md |-> 1, refs |-> Nothing]
telegramOff ==
  /\ answer = Off /\ status = Off /\ entry = Off /\ onCard = Off /\ shownOf = Off
  /\ flying = Off /\ st = Off /\ tries = Off /\ said = Off /\ unreachable = Off
  /\ telegramFaults = Off /\ overtaken = Off
blocksOff ==
  /\ doc = Off /\ wikiPage = Off /\ blocksSt = Off /\ rest = Off /\ synced = Off
  /\ hash = Off /\ troubled = Off /\ edits = Off /\ blockFaults = Off

BotsInit ==
  /\ MCInit
  /\ \/ /\ part = "questions"
        /\ wechatOff /\ intakeOff /\ skillsOff
        /\ telegramOff /\ SyncInit /\ blocksOff
     \/ /\ part = "wechat" /\ Wechat!Init
        /\ intakeOff /\ skillsOff /\ telegramOff
        /\ SyncInit /\ blocksOff
     \/ /\ part = "intake" /\ IntakeInit
        /\ wechatOff /\ skillsOff /\ telegramOff
        /\ SyncInit /\ blocksOff
     \/ /\ part = "skills" /\ SkillsInit
        /\ wechatOff /\ intakeOff /\ telegramOff
        /\ SyncInit /\ blocksOff
     \/ /\ part = "telegram" /\ Telegram!Init
        /\ wechatOff /\ intakeOff /\ skillsOff
        /\ SyncInit /\ blocksOff
     \/ /\ part = "sync" /\ SyncInit
        /\ wechatOff /\ intakeOff /\ skillsOff
        /\ telegramOff /\ blocksOff
     \/ /\ part = "blocks" /\ Blocks!Init
        /\ wechatOff /\ intakeOff /\ skillsOff
        /\ telegramOff /\ SyncInit
  /\ part # "questions" => kind = "chat"

BotsNext ==
  /\ part' = part
  /\ \/ /\ part = "questions" /\ MCNext
        /\ UNCHANGED <<wechatVars, intakeVars, skillsVars, telegramVars, docSyncVars, blocksVars>>
     \/ /\ part = "wechat" /\ Wechat!Next
        /\ UNCHANGED <<questionsVars, intakeVars, skillsVars, telegramVars, docSyncVars, blocksVars>>
     \/ /\ part = "intake" /\ IntakeNext
        /\ UNCHANGED <<questionsVars, wechatVars, skillsVars, telegramVars, docSyncVars, blocksVars>>
     \/ /\ part = "skills" /\ SkillsNext
        /\ UNCHANGED <<questionsVars, wechatVars, intakeVars, telegramVars, docSyncVars, blocksVars>>
     \/ /\ part = "telegram" /\ Telegram!Next
        /\ UNCHANGED <<questionsVars, wechatVars, intakeVars, skillsVars, docSyncVars, blocksVars>>
     \/ /\ part = "sync" /\ SyncNext
        /\ UNCHANGED <<questionsVars, wechatVars, intakeVars, skillsVars, telegramVars,
                      blocksVars>>
     \/ /\ part = "blocks" /\ Blocks!Next
        /\ UNCHANGED <<questionsVars, wechatVars, intakeVars, skillsVars, telegramVars, docSyncVars>>

BotsSpec == BotsInit /\ [][BotsNext]_allVars

\* Documents and their contents are interchangeable.
Symmetry == Permutations({d1, d2}) \cup Permutations({v1, v2})

\* The sync has three writes, and a request instead of one of them; what it
\* promises is about documents that are not disturbed, which stay so.  On WeChat
\* a line of progress is on its way for the first message only, and while nothing
\* has failed.
Bounds ==
  /\ part = "sync" => writes + requests <= 3 /\ syncDisturbed # {d1, d2}
  /\ part = "wechat" => ~task[2].beat /\ (task[1].beat => faults = 0)

-----------------------------------------------------------------------------
(* Properties; AnswersAreSound and NoEarlyTimeout are QuestionFlow's,      *)
(* IntakeIsSoundUnlessUnsure and MentionCarriesTheMediaUnlessOvertakenOrBare     *)
(* Intake's, HubHoldsOneEditionUnlessEdited SkillHub's.                    *)

\* On WeChat every message reaches the bridge once, in order, and every answer
\* the chat, last and whole, unless requests fail or the bot restarts.
NothingIsLostUnlessRestarted == part = "wechat" => Wechat!NothingIsLostUnlessRestarted

\* On Telegram the user sees that a task is over, and the whole of its answer
\* unless the card is cut or an older update lands after the last.
CardTellsUnlessLost == part = "telegram" => Telegram!CardTellsUnlessLost

\* After a sync that went well the page has every line of the document once, in
\* order, whatever the batches, unless the old page could not be cleared.
PageTellsTheDocumentUnlessTroubled == part = "blocks" => Blocks!PageTellsTheDocumentUnlessTroubled
=============================================================================
