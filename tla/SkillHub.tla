------------------------------ MODULE SkillHub ------------------------------
(***************************************************************************)
(* The skill hub (api/skill-hub-store.ts, api/routes/skill-hub-routes.ts,  *)
(* installSkillFromHub of api/skills-installer.ts): bots publish a skill,  *)
(* that is SKILL.md and a references directory, to the hub, and the hub,   *)
(* or a peer's hub, installs it into a bot's working directory.  One skill *)
(* is followed: the author's working copy, the record of the hub, and the  *)
(* copies of a bot here and of a bot of a peer that asks this hub.         *)
(***************************************************************************)
EXTENDS Naturals, Sequences, FiniteSets

CONSTANTS Nothing,
          MaxEdits,   \* bound: editions of the author's copy
          MaxCalls,   \* bound: publishing requests
          MaxSkillFaults   \* bound: failing tar commands and requests

Here == "here"
Peer == "peer"

VARIABLES author,    \* the author's copy: the edition of SKILL.md, and whether it has references
          calls,     \* publish-from-bot requests: what they have read so far, and
                     \* (ghost) whether they are crossed: the author edited meanwhile
          hub,       \* the record: SKILL.md, references, version, or Nothing; with
                     \* it (ghost) whether it was crossed
          copy,      \* the installed copies (.claude and .codex get the same): SKILL.md and
                     \* references, each an edition or Nothing
          fetching,  \* the peer's request: Nothing, asked, or what came back
          torn,      \* whether a tar command failed
          skillFaults

skillsVars == <<author, calls, hub, copy, fetching, torn, skillFaults>>

SkillsInit ==
  /\ author \in [md : {1}, refs : {1, Nothing}] /\ calls = <<>> /\ hub = Nothing
  /\ copy = [b \in {Here, Peer} |-> [md |-> Nothing, refs |-> Nothing]]
  /\ fetching = Nothing /\ torn = FALSE /\ skillFaults = 0

SkillFault == skillFaults < MaxSkillFaults /\ skillFaults' = skillFaults + 1

\* The author writes the next edition, with references or without.
Edit == /\ author.md <= MaxEdits
        /\ \E refs \in {author.md + 1, Nothing} : author' = [md |-> author.md + 1, refs |-> refs]
        /\ calls' = [i \in DOMAIN calls |-> [calls[i] EXCEPT !.crossed = @ \/ calls[i].st = "reading"]]
        /\ UNCHANGED <<hub, copy, fetching, torn, skillFaults>>

\* --- publishing ---------------------------------------------------------------

\* Slip: references stay when the new edition has none.
PublishOver(md, refs, crossed) ==
  hub' = [md |-> md, refs |-> IF refs = Nothing /\ hub # Nothing THEN hub.refs ELSE refs,
          crossed |-> crossed, version |-> IF hub = Nothing THEN 1 ELSE hub.version + 1]

\* SkillHubStore.publish: an existing record is replaced and its version grows.
Publish(md, refs, crossed) ==
  hub' = [md |-> md, refs |-> refs, crossed |-> crossed, version |-> IF hub = Nothing THEN 1 ELSE hub.version + 1]

Idle == UNCHANGED <<author, copy, fetching>>
Call(stage) == [st |-> stage, md |-> author.md, crossed |-> FALSE]

\* POST /api/skills: the whole skill comes with the request.
Post == /\ Len(calls) < MaxCalls /\ Publish(author.md, author.refs, FALSE)
        /\ calls' = Append(calls, Call("done"))
        /\ Idle /\ UNCHANGED <<torn, skillFaults>>

\* publish-from-bot reads SKILL.md; without references it publishes at once,
\* with them it first awaits the import of child_process.
Request ==
  /\ Len(calls) < MaxCalls
  /\ IF author.refs = Nothing
       THEN Publish(author.md, Nothing, FALSE) /\ calls' = Append(calls, Call("done"))
       ELSE calls' = Append(calls, Call("reading")) /\ UNCHANGED hub
  /\ Idle /\ UNCHANGED <<torn, skillFaults>>

\* Then it packs the references as they are now, and publishes, without them if
\* tar fails.
Pack(i) ==
  /\ calls[i].st = "reading" /\ calls' = [calls EXCEPT ![i].st = "done"] /\ Idle
  /\ \/ author.refs # Nothing /\ Publish(calls[i].md, author.refs, calls[i].crossed)
        /\ UNCHANGED <<torn, skillFaults>>
     \/ author.refs = Nothing /\ Publish(calls[i].md, Nothing, calls[i].crossed) /\ torn' = TRUE
        /\ UNCHANGED skillFaults
     \/ SkillFault /\ Publish(calls[i].md, Nothing, calls[i].crossed) /\ torn' = TRUE

RemoveSkill == /\ hub # Nothing /\ hub' = Nothing /\ Idle /\ UNCHANGED <<calls, torn, skillFaults>>

\* --- installing ------------------------------------------------------------------

\* installSkillFromHub: SKILL.md is overwritten, the references are unpacked over
\* what is there, if there are any.
Installed(old, md, refs) == [md |-> md, refs |-> IF refs = Nothing THEN old.refs ELSE refs]

\* getContent
Content == [md |-> hub.md, refs |-> hub.refs]

Install ==
  /\ hub # Nothing /\ UNCHANGED <<author, calls, hub, fetching>>
  /\ \/ copy' = [copy EXCEPT ![Here] = Installed(@, Content.md, Content.refs)] /\ UNCHANGED <<torn, skillFaults>>
     \/ /\ Content.refs # Nothing /\ SkillFault /\ torn' = TRUE
        /\ copy' = [copy EXCEPT ![Here] = Installed(@, Content.md, Nothing)]

\* get, rowToRecord: what GET /api/skills/:name answers tells whether there are
\* references, and does not hold them.
Record == [md |-> hub.md, refs |-> Nothing]

\* fetchPeerSkill: the peer asks for the record, and takes what the answer holds.
Fetch == /\ fetching = Nothing /\ fetching' = "asked"
         /\ UNCHANGED <<author, calls, hub, copy, torn, skillFaults>>
Fetched == /\ fetching = "asked" /\ fetching' = Nothing
           /\ \/ hub # Nothing /\ copy' = [copy EXCEPT ![Peer] = Installed(@, Record.md, Record.refs)] /\ UNCHANGED skillFaults
              \/ hub = Nothing /\ UNCHANGED <<copy, skillFaults>>
              \/ SkillFault /\ UNCHANGED copy
           /\ UNCHANGED <<author, calls, hub, torn>>

SkillsNext ==
  \/ Edit \/ Post \/ Request \/ (\E i \in DOMAIN calls : Pack(i)) \/ RemoveSkill
  \/ Install \/ Fetch \/ Fetched

SkillsSpec == SkillsInit /\ [][SkillsNext]_skillsVars

\* --- properties -----------------------------------------------------------------

\* The hub never pairs the SKILL.md of one edition with the references of
\* another, unless the author edited between the two reads of the request that
\* published it (publish-from-bot).
HubHoldsOneEditionUnlessEdited ==
  hub # Nothing /\ ~hub.crossed => hub.refs \in {Nothing, hub.md}
=============================================================================
