------------------------------ MODULE DocBlocks ------------------------------
(***************************************************************************)
(* How the text of one memory document becomes the blocks of its Feishu    *)
(* page (sync/markdown-to-blocks.ts, and the writing of a page of          *)
(* sync/doc-sync.ts): the markdown is read line by line into blocks, and   *)
(* the page is cleared and the blocks are appended to it in batches, each  *)
(* a call that may fail.  DocSync says when that happens; here it happens  *)
(* to one document that is edited, again and again.                        *)
(*                                                                         *)
(* A line is known by its kind; its number stands for its text.            *)
(***************************************************************************)
EXTENDS Naturals, FiniteSets, SequencesExt

CONSTANTS LineKinds,   \* kinds of lines the documents have; an item is also a heading or a todo
          MaxRun,      \* MAX_TEXT_RUN_CHARS, where a line is 1, a long one more, a blank one 0
          PerBatch,    \* blocks of one call
          PageSize,    \* blocks that are listed, and so cleared, at once
          MaxLines,    \* bound: lines of the document
          MaxEdits, MaxFaults   \* bounds

VARIABLES doc, page,
          st,        \* idle, clearing, or writing
          rest,      \* blocks that are still to be written
          synced,    \* the text the page is made of, or was to be
          hash,      \* the text the mapping's contentHash is of
          troubled,  \* why the page may be another: a call failed, or it was too long to be cleared
          edits, faults

vars == <<doc, page, st, rest, synced, hash, troubled, edits, faults>>

\* --- blocks ---------------------------------------------------------------------

Width(kind) == CASE kind = "blank" -> 0 [] kind = "long" -> MaxRun + 1 [] OTHER -> 1

\* splitLongContent: lines are gathered into a run until the next one would not
\* fit.  A run that is empty yet takes no newline, and loses the blank lines
\* before its first.
Gather(md, acc, i) ==
  LET w == Width(md[i]) IN
  IF acc.n > 0 /\ acc.n + w + 1 > MaxRun
    THEN [runs |-> Append(acc.runs, acc.run), run |-> <<i>>, n |-> w]
  ELSE IF acc.n = 0 THEN [acc EXCEPT !.run = <<i>>, !.n = w]
  ELSE [acc EXCEPT !.run = Append(@, i), !.n = @ + 1 + w]

SplitLongContent(md, from, to) ==
  LET nums == [k \in 1..(to - from + 1) |-> from + k - 1]
      all == FoldLeft(LAMBDA n, i : n + Width(md[i]) + 1, 0, nums)
      acc == FoldLeft(LAMBDA a, i : Gather(md, a, i), [runs |-> <<>>, run |-> <<>>, n |-> 0], nums)
  IN IF all <= MaxRun + 1 THEN <<nums>>
     ELSE IF acc.n > 0 THEN Append(acc.runs, acc.run) ELSE acc.runs

Block(kind, runs) == [b |-> kind, runs |-> runs]
\* parseInlineMarkdown: the text of the lines, whatever its marks, in one block.
OneRun(from, to) == <<[k \in 1..(to - from + 1) |-> from + k - 1]>>

\* The last line of those from i on that are all of these kinds.
LastOf(md, i, kinds) ==
  CHOOSE j \in i..Len(md) : /\ \A k \in i..j : md[k] \in kinds
                            /\ j = Len(md) \/ md[j + 1] \notin kinds

\* A nested item begins a block of its own, and yet does not end a paragraph.
InParagraph == {"text", "long", "nested"}

\* markdownToBlocks
RECURSIVE MarkdownToBlocks(_, _)
MarkdownToBlocks(md, i) ==
  IF i > Len(md) THEN <<>>
  ELSE LET more(j) == MarkdownToBlocks(md, j + 1) IN
    CASE md[i] = "fence" ->
           LET end == {j \in (i + 1)..Len(md) : md[j] = "fence"}
               j == IF end = {} THEN Len(md) + 1 ELSE CHOOSE e \in end : \A f \in end : e <= f
           IN <<Block("code", SplitLongContent(md, i + 1, j - 1))>> \o more(j)
      [] md[i] = "row" ->
           LET j == LastOf(md, i, {"row"}) IN
           <<Block("code", SplitLongContent(md, i, j))>> \o more(j)
      [] md[i] = "rule" -> <<Block("divider", <<>>)>> \o more(i)
      [] md[i] \in {"item", "nested"} -> <<Block("item", OneRun(i, i))>> \o more(i)
      [] md[i] = "quote" ->
           LET j == LastOf(md, i, {"quote"}) IN <<Block("text", OneRun(i, j))>> \o more(j)
      [] md[i] = "blank" -> more(i)
      [] OTHER ->
           LET j == LastOf(md, i, InParagraph) IN <<Block("text", OneRun(i, j))>> \o more(j)

\* The text of the page is followed by a rule and a line about the sync.
BuildDocumentMarkdown(d) == d \o <<"blank", "rule", "quote">>

\* --- the page ---------------------------------------------------------------------

Init == /\ doc = <<>> /\ page = <<>> /\ st = "idle" /\ rest = <<>> /\ synced = <<>> /\ hash = <<>>
        /\ troubled = TRUE /\ edits = 0 /\ faults = 0

Fault == faults < MaxFaults /\ faults' = faults + 1

\* The document grows or is cut, whatever the sync is at.
Edits == /\ edits < MaxEdits /\ edits' = edits + 1
         /\ \/ Len(doc) < MaxLines /\ \E kind \in LineKinds : doc' = Append(doc, kind)
            \/ doc # <<>> /\ doc' = Tail(doc)
         /\ UNCHANGED <<page, st, rest, synced, hash, troubled, faults>>

\* syncSingleDocument: the text is not the one of the mapping's hash; it is turned
\* into blocks once the page is cleared.
Starts == /\ st = "idle" /\ doc # hash
          /\ st' = "clearing" /\ synced' = doc /\ troubled' = FALSE
          /\ UNCHANGED <<doc, page, rest, hash, edits, faults>>

\* updateDocumentContent: the blocks that are listed are deleted; if that fails
\* the new ones are written after the old.
Clears == /\ st = "clearing" /\ st' = "writing"
          /\ rest' = MarkdownToBlocks(BuildDocumentMarkdown(synced), 1)
          /\ \/ /\ page' = IF Len(page) <= PageSize THEN <<>> ELSE SubSeq(page, PageSize + 1, Len(page))
                /\ troubled' = (Len(page) > PageSize) /\ UNCHANGED faults
             \/ Fault /\ troubled' = TRUE /\ UNCHANGED page
          /\ UNCHANGED <<doc, synced, hash, edits>>

Least(a, b) == IF a <= b THEN a ELSE b

\* Slip: a batch that is not full is not written.
WritesFullBatch ==
  /\ st = "writing" /\ rest # <<>>
  /\ \/ /\ page' = IF Len(rest) < PerBatch THEN page ELSE page \o SubSeq(rest, 1, PerBatch)
        /\ rest' = SubSeq(rest, Least(PerBatch, Len(rest)) + 1, Len(rest))
        /\ UNCHANGED <<st, troubled, faults>>
     \/ Fault /\ troubled' = TRUE /\ st' = "idle" /\ rest' = <<>> /\ UNCHANGED page
  /\ UNCHANGED <<doc, synced, hash, edits>>

\* writeDocumentContent, batchBlocks: the next blocks are appended; a batch that
\* fails leaves the page as far as it got.
WritesBatch ==
  /\ st = "writing" /\ rest # <<>>
  /\ LET n == Least(PerBatch, Len(rest)) IN
     \/ /\ page' = page \o SubSeq(rest, 1, n) /\ rest' = SubSeq(rest, n + 1, Len(rest))
        /\ UNCHANGED <<st, troubled, faults>>
     \/ Fault /\ troubled' = TRUE /\ st' = "idle" /\ rest' = <<>> /\ UNCHANGED page
  /\ UNCHANGED <<doc, synced, hash, edits>>

\* The hash is noted when all is written.
Ends == /\ st = "writing" /\ rest = <<>> /\ st' = "idle" /\ hash' = synced
        /\ UNCHANGED <<doc, page, rest, synced, troubled, edits, faults>>

Next == Edits \/ Starts \/ Clears \/ WritesBatch \/ Ends
Spec == Init /\ [][Next]_vars

\* --- properties ----------------------------------------------------------------------

\* The lines of a text that a page shows: all but fences, blank lines, and rules
\* that are not code.
Told(md) ==
  LET InCode(i) == Cardinality({j \in 1..(i - 1) : md[j] = "fence"}) % 2 = 1
  IN SelectSeq([i \in DOMAIN md |-> i],
               LAMBDA i : md[i] \notin {"fence", "blank"} /\ (md[i] = "rule" => InCode(i)))

\* After a sync that went well the page has every line of the text once and in
\* order, whatever the lines are, and nothing else, unless the old page could not
\* be cleared (updateDocumentContent, markdownToBlocks, batchBlocks).
PageTellsTheDocumentUnlessTroubled ==
  st = "idle" /\ ~troubled =>
    LET md == BuildDocumentMarkdown(synced)
        runs == FlattenSeq([k \in DOMAIN page |-> FlattenSeq(page[k].runs)])
    IN SelectSeq(runs, LAMBDA i : md[i] # "blank") = Told(md)
=============================================================================
