------------------------------- MODULE Intake -------------------------------
(***************************************************************************)
(* How messages of the chat platforms reach the bridge: the Feishu event   *)
(* handler (feishu/event-handler.ts) with its rules for groups, its cache  *)
(* of member counts and its cache of media sent without a mention, and the *)
(* Telegram handlers (telegram/telegram-bot.ts).  Asking Feishu for the    *)
(* member count is awaited, so events overtake each other there.  Feishu   *)
(* and Telegram are outside src/: they deliver what users send, Feishu     *)
(* possibly twice.                                                         *)
(***************************************************************************)
EXTENDS Naturals, Sequences, FiniteSets, SequencesExt

CONSTANTS Absent,
          Users,       \* the users of one Feishu group and one Telegram group
          Bodies,      \* what a Feishu message may hold: a set of bodies
          TgBodies,    \* what a Telegram message may hold
          Sizes,       \* member counts the Feishu group may have
          MaxSent,     \* bound: messages the users send
          MaxIntakeFaults   \* bound: failed requests, redeliveries, expiries and joins

VARIABLES sent,     \* the messages, in the order they were sent
          asking,   \* the events that await the member count
          group,    \* the Feishu group: members, and whether that ever changed
          counted,  \* memberCountCache: a count, or Absent
          mediaCache, \* pendingMediaCache: for each user the media that are not too old,
                      \* by the number of their message, oldest first
          given,    \* what the bridge was given, in order
          setup,    \* groupNoMention; whether the bots know who they are
          intakeFaults

intakeVars == <<sent, asking, group, counted, mediaCache, given, setup, intakeFaults>>

IntakeInit ==
  /\ sent = <<>> /\ asking = {} /\ counted = Absent /\ given = <<>> /\ intakeFaults = 0
  /\ group \in [members : Sizes, changed : {FALSE}]
  /\ mediaCache = [u \in Users |-> <<>>]
  /\ setup \in [noMention : BOOLEAN, knowsSelf : BOOLEAN]

Trouble == intakeFaults < MaxIntakeFaults /\ intakeFaults' = intakeFaults + 1

\* --- Feishu: what a message holds --------------------------------------------

\* A body is [type, text, images, at]: the text is "words", "mention" (nothing
\* but an @ tag, stripped to nothing) or Absent; images counts the image keys of a
\* post, or says whether an image or a file has its key; at is whom it mentions.

\* extractTextFromPost and the clean-up of mention tags and links.
Text(b) ==
  CASE b.type \in {"image", "file"} -> "prompt"
    [] b.text = "words" -> "words"
    [] b.type = "post" /\ b.images > 0 -> "prompt"
    [] OTHER -> Absent

\* extractImagesFromPost: the first image is the message's, the others extra.
Images(b) == IF b.type = "post" THEN b.images ELSE 0

\* An image or file without its key, and an empty text, are dropped.
Usable(b) == IF b.type \in {"image", "file"} THEN b.images > 0 ELSE Text(b) # Absent

\* parseMediaMessage
IsMedia(b) == b.type \in {"image", "file"} /\ b.images > 0

\* Without the bot's open id any mention counts.
Mentioned(b) == IF setup.knowsSelf THEN b.at = "bot" ELSE b.at # Absent

\* --- Feishu: the media cache -----------------------------------------------------

CacheKey(msg) == msg.user
\* Slip: the latest medium only.
CachedLast(u) == IF mediaCache[u] = <<>> THEN <<>> ELSE <<Last(mediaCache[u])>>
\* getCachedMedia: what is too old has left the cache (MediaExpires).
CachedMedia(u) == mediaCache[u]
\* Slip: what was attached stays cached.
ClearNothing(u) == UNCHANGED mediaCache
ClearCached(u) == mediaCache' = [mediaCache EXCEPT ![u] = <<>>]

\* --- Feishu: the handler -----------------------------------------------------------

\* From the end of the group rules to onMessage: the extra images of a post and
\* the sender's cached media go with the message, and the cache is cleared.
Process(msg) ==
  IF Usable(msg.body)
    THEN LET media == CachedMedia(CacheKey(msg)) IN
         /\ given' = Append(given, [n |-> msg.n, user |-> msg.user, from |-> "feishu", text |-> Text(msg.body),
                                    images |-> Images(msg.body), extra |-> media])
         /\ IF media = <<>> THEN UNCHANGED mediaCache ELSE ClearCached(CacheKey(msg))
    ELSE UNCHANGED <<given, mediaCache>>

\* Not for the bot: media are kept for a later mention, the rest is ignored.
NotAddressed(msg) ==
  /\ UNCHANGED given
  /\ IF IsMedia(msg.body)
       THEN mediaCache' = [mediaCache EXCEPT ![CacheKey(msg)] = Append(@, msg.n)]
       ELSE UNCHANGED mediaCache

\* isPrivateLikeGroup
PrivateLike(count) == count = 2

Decide(msg, count) == IF PrivateLike(count) THEN Process(msg) ELSE NotAddressed(msg)

\* im.message.receive_v1 of a group message, up to its first await.
Receive(msg) ==
  IF Mentioned(msg.body) \/ setup.noMention THEN Process(msg) /\ UNCHANGED asking
  ELSE IF counted # Absent THEN Decide(msg, counted) /\ UNCHANGED asking
  ELSE asking' = asking \cup {msg.n} /\ UNCHANGED <<given, mediaCache>>

FeishuMessage(u, b) ==
  /\ Len(sent) < MaxSent
  /\ LET msg == [n |-> Len(sent) + 1, user |-> u, body |-> b, from |-> "feishu"]
     IN sent' = Append(sent, msg) /\ Receive(msg)
  /\ UNCHANGED <<group, counted, setup, intakeFaults>>

\* Feishu delivers an event again: nothing remembers its message id.
Redelivered(n) ==
  /\ sent[n].from = "feishu" /\ n \notin asking /\ Trouble /\ Receive(sent[n])
  /\ UNCHANGED <<sent, group, counted, setup>>

\* getChatMemberCount answers, or fails: then the group is taken for a large one.
Counted(n) ==
  /\ n \in asking /\ asking' = asking \ {n} /\ counted' = group.members
  /\ Decide(sent[n], group.members) /\ UNCHANGED <<sent, group, setup, intakeFaults>>
CountFails(n) ==
  /\ n \in asking /\ asking' = asking \ {n} /\ Trouble
  /\ NotAddressed(sent[n]) /\ UNCHANGED <<sent, group, counted, setup>>

\* Five minutes pass: for the count, for the oldest of the media.
CountExpires == /\ counted # Absent /\ Trouble /\ counted' = Absent
                /\ UNCHANGED <<sent, asking, group, mediaCache, given, setup>>
MediaExpires(u) ==
  /\ mediaCache[u] # <<>> /\ Trouble
  /\ \E k \in DOMAIN mediaCache[u] : mediaCache' = [mediaCache EXCEPT ![u] = SubSeq(@, k + 1, Len(@))]
  /\ UNCHANGED <<sent, asking, group, counted, given, setup>>

\* Somebody joins or leaves.
MembersChange == /\ Trouble /\ group' \in [members : Sizes \ {group.members}, changed : {TRUE}]
                 /\ UNCHANGED <<sent, asking, counted, mediaCache, given, setup>>

\* --- Telegram ------------------------------------------------------------------------

\* message:text: in a group a mention of the known user name, or a command.
TelegramText(b) ==
  /\ (b.at = "bot" /\ setup.knowsSelf) \/ b.command
  /\ b.words
\* message:photo, document, video, audio, voice and animation: always.
TelegramMedia(b) == b.media

TelegramMessage(u, b) ==
  /\ Len(sent) < MaxSent
  /\ LET msg == [n |-> Len(sent) + 1, user |-> u, body |-> b, from |-> "telegram"] IN
       /\ sent' = Append(sent, msg)
       /\ IF TelegramMedia(b) \/ TelegramText(b)
            THEN given' = Append(given, [n |-> msg.n, user |-> u, from |-> "telegram", text |-> "words",
                                         images |-> 0, extra |-> <<>>])
            ELSE UNCHANGED given
  /\ UNCHANGED <<asking, group, counted, mediaCache, setup, intakeFaults>>

IntakeNext ==
  \/ \E u \in Users, b \in Bodies : FeishuMessage(u, b)
  \/ \E u \in Users, b \in TgBodies : TelegramMessage(u, b)
  \/ \E n \in DOMAIN sent : Redelivered(n) \/ Counted(n) \/ CountFails(n)
  \/ CountExpires \/ MembersChange
  \/ \E u \in Users : MediaExpires(u)

IntakeSpec == IntakeInit /\ [][IntakeNext]_intakeVars

\* --- properties -----------------------------------------------------------------

\* In a group the bot takes what is said to it: a mention, on Telegram a command,
\* anything if it is set up so or alone with one user; unless it does not know
\* who it is or the group changed, as a count is good for five minutes; Telegram's
\* media handlers do not look (event-handler.ts 148-174, telegram-bot.ts 67-76).
TakesWhatIsSaidToItUnlessUnsure ==
  \A i \in DOMAIN given :
    LET b == sent[given[i].n].body IN
    \/ b.at = "bot" \/ ~setup.knowsSelf
    \/ given[i].from = "telegram" /\ (b.media \/ b.command)
    \/ /\ given[i].from = "feishu"
       /\ setup.noMention \/ group.changed \/ group.members = 2

\* A file or picture sent without a mention goes with one message only, of the
\* same user, and is not taken in as a message of its own as well; unless the
\* platform delivered something twice (the media cache).
MediaGoOnceUnlessRedelivered ==
  intakeFaults = 0 =>
    \A i \in DOMAIN given :
      \A k \in DOMAIN given[i].extra :
        LET n == given[i].extra[k] IN
        /\ sent[n].user = given[i].user
        /\ \A j \in DOMAIN given :
             /\ given[j].n # n
             /\ j # i => \A l \in DOMAIN given[j].extra : given[j].extra[l] # n

\* What the bots take and with which media, part by part.
IntakeIsSoundUnlessUnsure == TakesWhatIsSaidToItUnlessUnsure /\ MediaGoOnceUnlessRedelivered

\* A medium of user u's that was handled and that no message has.
Waits(n, u) ==
  /\ sent[n].from = "feishu" /\ sent[n].user = u /\ IsMedia(sent[n].body) /\ n \notin asking
  /\ \A j \in DOMAIN given : given[j].n # n /\ \A k \in DOMAIN given[j].extra : given[j].extra[k] # n

\* A step that gives the bridge a message gives it the media sent before it.
GivenWithTheMedia ==
  \A i \in DOMAIN given' \ DOMAIN given :
    LET g == given'[i] IN
    g.from = "feishu" /\ intakeFaults' = 0 =>
      \A n \in 1..(g.n - 1) : Waits(n, g.user) => \E k \in DOMAIN g.extra : g.extra[k] = n

\* A mention of nothing but the bot is dropped, and the media stay for the next.
BareLeavesTheMedia ==
  \A m \in DOMAIN sent' \ DOMAIN sent :
    LET new == sent'[m] IN
    new.from = "feishu" /\ Mentioned(new.body) /\ ~Usable(new.body) /\ intakeFaults' = 0 =>
      \A n \in 1..(m - 1) : Waits(n, new.user) => \E k \in DOMAIN mediaCache'[new.user] : mediaCache'[new.user][k] = n

MentionCarriesTheMedia == GivenWithTheMedia /\ BareLeavesTheMedia
\* "When a user later @mentions the bot, cached media is attached automatically"
\* (event-handler.ts 27-28): a mention carries every picture its user sent before
\* it that no other message has; unless one of them still awaits the member
\* count, or it expired.  Against that comment a mention without a word (@bot
\* alone, 248-250) carries none and is not answered: it only leaves them for the
\* next one.
MentionCarriesTheMediaUnlessOvertakenOrBare == [][MentionCarriesTheMedia]_intakeVars
=============================================================================
