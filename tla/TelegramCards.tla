---------------------------- MODULE TelegramCards ----------------------------
(***************************************************************************)
(* The card of one task on Telegram (telegram/telegram-sender.ts, with     *)
(* sendFinalCard of bridge/message-bridge.ts).  A card is a message in     *)
(* Telegram's HTML, made anew from the card's state for every update; it   *)
(* is cut in the middle when too long, and Telegram refuses tags that are  *)
(* not nested.  The sender forgets the cards that are older than an hour;  *)
(* the last update is tried three times, then a text is sent instead.  The *)
(* updates before the last are not awaited.                                *)
(*                                                                         *)
(* Markdown is a sequence of lines, of which the kind matters; HTML is a   *)
(* sequence of tags and of the lines between them.                         *)
(***************************************************************************)
EXTENDS Naturals, FiniteSets, SequencesExt

CONSTANTS LineKinds,   \* the kinds of lines the agent writes
          Limit,       \* MAX_MESSAGE_LENGTH, in tags and lines
          Retries,     \* FINAL_CARD_RETRIES
          MaxLines,    \* bound: lines of the answer
          MaxSlow,     \* bound: updates on their way at a time
          MaxFaults    \* bound: failing calls of Telegram

VARIABLES answer,      \* the kinds of the lines of the answer so far
          status,      \* of the card's state
          entry,       \* messageMap's entry of the card: fresh, old, gone
          onCard,      \* the HTML Telegram shows
          shownOf,     \* how many lines of the answer it was made of
          flying,      \* updates on their way: of how many lines each is made
          st,          \* running; trying the last update; saying it; over
          tries, said, unreachable, faults,
          overtaken    \* an older update landed after the last one

cardVars == <<onCard, shownOf>>
endVars  == <<tries, said, unreachable>>
vars == <<answer, status, entry, cardVars, flying, st, endVars, faults, overtaken>>

\* --- from markdown to HTML ----------------------------------------------------

Open(tag) == [t |-> "open", of |-> tag]
Close(tag) == [t |-> "close", of |-> tag]
Line(i) == [t |-> "line", of |-> ToString(i)]
Word(w) == [t |-> "word", of |-> w]
In(tag, s) == IF s = <<>> THEN <<>> ELSE <<Open(tag)>> \o s \o <<Close(tag)>>

\* formatNonCode: each emphasis is replaced by a search of its own, so two that
\* overlap give tags that are not nested.
Formatted(kind, i) ==
  CASE kind = "bold" -> In("b", <<Line(i)>>)
    [] kind = "overlap" -> <<Open("b"), Open("i"), Line(i), Close("b"), Close("i")>>
    [] OTHER -> <<Line(i)>>

\* convertInlineMarkdown: a rule stays one, anything else is formatted.
Inline(kind, i) == IF kind = "rule" THEN <<Word("rule")>> ELSE Formatted(kind, i)

\* renderTable: its rows but the separators, aligned, in one block.
Flushed(acc) == [acc EXCEPT !.out = @ \o In("pre", acc.table), !.table = <<>>]

\* A fence opens or ends a code block, in which nothing is converted; rows are
\* collected into a table; any other line is converted by itself.
NextLine(acc, l) ==
  LET done == Flushed(acc) IN
  CASE l.kind = "fence" /\ acc.inCode ->
         [done EXCEPT !.out = @ \o In("pre", acc.code), !.inCode = FALSE, !.code = <<>>]
    [] l.kind = "fence" /\ ~acc.inCode -> [done EXCEPT !.inCode = TRUE]
    [] l.kind # "fence" /\ acc.inCode -> [acc EXCEPT !.code = Append(@, Line(l.i))]
    [] l.kind = "row" /\ ~acc.inCode -> [acc EXCEPT !.table = Append(@, Line(l.i))]
    [] l.kind = "separator" /\ ~acc.inCode -> acc
    [] OTHER -> [done EXCEPT !.out = @ \o Inline(l.kind, l.i)]

Lines(md) == [i \in DOMAIN md |-> [kind |-> md[i], i |-> i]]

\* markdownToTelegramHtml: a code block without an end is shown as far as it goes.
ToHtml(md) ==
  LET acc == FoldLeft(NextLine, [out |-> <<>>, inCode |-> FALSE, code |-> <<>>, table |-> <<>>],
                      Lines(md))
  IN Flushed(acc).out \o In("pre", acc.code)

\* truncateMessage: the middle is taken out.
Truncated(html) ==
  LET half == Limit \div 2 - 1 IN
  IF Len(html) <= Limit THEN html
  ELSE SubSeq(html, 1, half) \o <<Word("truncated")>> \o SubSeq(html, Len(html) - half + 1, Len(html))

\* renderCardHtml: the status, the answer, and figures in the end.
CardHtml(state, md) ==
  Truncated(In("b", <<Word(state)>>)
            \o (IF md = <<>> /\ state = "thinking" THEN In("i", <<Word("thinking")>>) ELSE ToHtml(md))
            \o (IF state = "complete" THEN In("i", <<Word("stats")>>) ELSE <<>>))

\* What Telegram accepts: every tag is closed, the last one opened first.
Accepts(html) ==
  FoldLeft(LAMBDA stack, x :
             IF x.t = "open" THEN Append(stack, x.of)
             ELSE IF x.t # "close" THEN stack
             ELSE IF stack # <<>> /\ Last(stack) = x.of THEN Front(stack) ELSE <<"refused">>,
           <<>>, html) = <<>>

\* --- the task and its card --------------------------------------------------------

Init == /\ answer = <<>> /\ status = "thinking" /\ entry = "fresh"
        /\ onCard = CardHtml("thinking", <<>>) /\ shownOf = 0 /\ flying = {}
        /\ st = "running" /\ tries = 0 /\ said = FALSE /\ unreachable = FALSE /\ faults = 0
        /\ overtaken = FALSE

Fault == faults < MaxFaults /\ faults' = faults + 1

\* editMessageText: Telegram may refuse the HTML, or fail.
Edited(ok, html, lines) ==
  \/ ok /\ Accepts(html) /\ onCard' = html /\ shownOf' = lines /\ UNCHANGED faults
  \/ ~ok /\ ~Accepts(html) /\ UNCHANGED <<cardVars, faults>>
  \/ ~ok /\ Fault /\ UNCHANGED cardVars

\* Slip: a card that is not known counts as updated.
UpdateCardUnknown(ok) ==
  \/ entry = "gone" /\ ok /\ UNCHANGED <<cardVars, faults>>
  \/ entry # "gone" /\ Edited(ok, CardHtml(status, answer), Len(answer))

\* updateCard: not without the entry.
UpdateCard(ok) ==
  \/ entry = "gone" /\ ~ok /\ UNCHANGED <<cardVars, faults>>
  \/ entry # "gone" /\ Edited(ok, CardHtml(status, answer), Len(answer))

\* The agent writes a line; the card follows when the rate limiter lets it, which
\* waits for no update that is on its way.
Says(kind) == /\ st = "running" /\ Len(answer) < MaxLines
              /\ answer' = Append(answer, kind) /\ status' = "running"
              /\ UNCHANGED <<entry, cardVars, flying, st, endVars, faults, overtaken>>
Follows == /\ st = "running" /\ shownOf # Len(answer) /\ entry # "gone"
           /\ Cardinality(flying) < MaxSlow /\ flying' = flying \cup {Len(answer)}
           /\ UNCHANGED <<answer, status, entry, cardVars, st, endVars, faults, overtaken>>
Lands(lines) ==
  /\ lines \in flying /\ flying' = flying \ {lines}
  /\ \E ok \in BOOLEAN :
       /\ Edited(ok, CardHtml("running", SubSeq(answer, 1, lines)), lines)
       /\ overtaken' = (overtaken \/ (ok /\ st = "over"))
  /\ UNCHANGED <<answer, status, entry, st, endVars>>

\* An hour passes, and cleanupMessageMap runs.
Ages == /\ entry = "fresh" /\ entry' = "old"
        /\ UNCHANGED <<answer, status, cardVars, flying, st, endVars, faults, overtaken>>
CleanupMessageMap ==
  /\ entry = "old" /\ entry' = "gone"
  /\ UNCHANGED <<answer, status, cardVars, flying, st, endVars, faults, overtaken>>

Ends == /\ st = "running" /\ st' = "trying" /\ \E s \in {"complete", "error"} : status' = s
        /\ UNCHANGED <<answer, entry, cardVars, flying, endVars, faults, overtaken>>

\* sendFinalCard: after the last try that fails the answer is sent as a text.
Tries == /\ st = "trying" /\ tries' = tries + 1
         /\ \E ok \in BOOLEAN :
              /\ UpdateCard(ok)
              /\ st' = IF ok THEN "over" ELSE IF tries + 1 = Retries THEN "saying" ELSE "trying"
         /\ UNCHANGED <<answer, status, entry, flying, said, unreachable, overtaken>>

\* sendText: plain, so nothing of it can be refused; a failure goes unnoticed.
SendText == /\ st = "saying" /\ st' = "over"
            /\ \/ said' = TRUE /\ UNCHANGED <<unreachable, faults>>
               \/ Fault /\ unreachable' = TRUE /\ UNCHANGED said
            /\ UNCHANGED <<answer, status, entry, cardVars, flying, tries, overtaken>>

Next == \/ \E kind \in LineKinds : Says(kind)
        \/ Follows \/ \E lines \in flying : Lands(lines)
        \/ Ages \/ CleanupMessageMap \/ Ends \/ Tries \/ SendText

Spec == Init /\ [][Next]_vars

\* --- properties ---------------------------------------------------------------------

\* When a task is over the user has seen its end, on the card or, if the card was
\* forgotten, refused or out of reach, as a text, unless the text failed too or an
\* older update, still on its way, landed on the card afterwards (sendFinalCard).
EndIsSeenUnlessLost ==
  st = "over" /\ ~unreachable /\ ~overtaken => said \/ (Head(Tail(onCard)) = Word(status) /\ shownOf = Len(answer))

\* Inside a code block: an odd number of fences before the line.
InCode(i) == Cardinality({j \in 1..(i - 1) : answer[j] = "fence"}) % 2 = 1

\* Every line of the answer, except fences, rules and the separators of tables, is on
\* a card that was not cut, in its place, be it in a table, in a code block that goes
\* on, or a row, a separator or a rule in code (markdownToTelegramHtml).
CardSaysTheAnswerUnlessCut ==
  (\A i \in DOMAIN onCard : onCard[i] # Word("truncated"))
    => SelectSeq(onCard, LAMBDA x : x.t = "line")
         = LET told == {i \in 1..shownOf : answer[i] # "fence" /\ (answer[i] \in {"rule", "separator"} => InCode(i))}
           IN [k \in 1..Cardinality(told) |->
                 Line(CHOOSE i \in told : Cardinality({j \in told : j <= i}) = k)]

\* What the user sees of a task, part by part.
CardTellsUnlessLost == EndIsSeenUnlessLost /\ CardSaysTheAnswerUnlessCut
=============================================================================
