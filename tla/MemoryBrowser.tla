---------------------------- MODULE MemoryBrowser ----------------------------
(***************************************************************************)
(* The two browser clients of MetaMemory: the page of its own server       *)
(* (memory/static/app.js) and the panel of the web interface               *)
(* (components/MemoryView.tsx), beside other clients that write.           *)
(*                                                                         *)
(* A request is answered in any order with what the server has when it     *)
(* answers.  Two equal requests under way count as one.  The page is an    *)
(* administrator's.                                                        *)
(***************************************************************************)
EXTENDS MetaMemory

CONSTANTS MaxClicks   \* bound: what the users do

VARIABLES
  docPage, pageCalls,     \* app.js: its state, its requests under way
  panel, panelCalls,      \* MemoryView: the same
  clicks,
  disturbed               \* history: a request failed, or overtook another or a click

viewsVars == <<docPage, pageCalls, panel, panelCalls, clicks, disturbed>>
pagesVars == <<memoryVars, viewsVars>>

FolderHash(f) == [to |-> "folder", id |-> f]
DocHash(d)    == [to |-> "doc", id |-> d]
SearchHash(t) == [to |-> "search", id |-> t]

Blank == [from |-> None, content |-> None]

Call(of, id) == [of |-> of, id |-> id]
Under(of)    == {c \in pageCalls : c.of = of}

-----------------------------------------------------------------------------
(* app.js *)

\* Setting the hash it has already raises no hashchange event.
Navigated(p, hash) == IF hash = p.hash THEN p ELSE [p EXCEPT !.hash = hash, !.changed = TRUE]

Clicked == clicks < MaxClicks /\ clicks' = clicks + 1 /\ UNCHANGED <<memoryVars, panel, panelCalls>>

\* A folder of the tree, a document of the list or of the results, a search.
Browse(hash) ==
  /\ Clicked
  /\ hash.to = "doc" => docPage.view \in {"list", "search"} /\ hash.id \in docPage.list
  /\ docPage' = Navigated(docPage, hash)
  /\ UNCHANGED <<pageCalls, disturbed>>

\* The browser's own back and forward buttons.
GoTo(d) == Clicked /\ docPage' = Navigated(docPage, DocHash(d)) /\ UNCHANGED <<pageCalls, disturbed>>

\* handleRoute, which reads the hash when it runs.
ShowFolder(f) ==
  /\ docPage' = [docPage EXCEPT !.changed = FALSE, !.folder = f, !.doc = None]
  /\ pageCalls' = pageCalls \cup {Call("tree", f)}
  /\ disturbed' = disturbed

ShowDocument(d) ==
  /\ docPage' = [docPage EXCEPT !.changed = FALSE, !.doc = d]
  /\ pageCalls' = pageCalls \cup {Call("doc", d)}
  /\ disturbed' = (disturbed \/ Under("doc") # {})

ShowSearch(t) ==
  /\ docPage' = [docPage EXCEPT !.changed = FALSE]
  /\ pageCalls' = pageCalls \cup {Call("search", t)}
  /\ disturbed' = disturbed

HashChanged ==
  /\ docPage.changed
  /\ \/ docPage.hash.to = "folder" /\ ShowFolder(docPage.hash.id)
     \/ docPage.hash.to = "doc" /\ ShowDocument(docPage.hash.id)
     \/ docPage.hash.to = "search" /\ ShowSearch(docPage.hash.id)
  /\ UNCHANGED <<memoryVars, panel, panelCalls, clicks>>

\* A token is set or cleared: handleRoute runs again, on the hash there is.
SetToken == Clicked /\ docPage' = [docPage EXCEPT !.changed = TRUE] /\ UNCHANGED <<pageCalls, disturbed>>

Answer(c) == c \in pageCalls /\ UNCHANGED <<panel, panelCalls, clicks>>

\* refreshFolderTree, then the list of the folder it was for.
TreeAnswered(f) ==
  /\ Answer(Call("tree", f)) /\ pageCalls' = (pageCalls \ {Call("tree", f)}) \cup {Call("list", f)}
  /\ UNCHANGED <<memoryVars, docPage, disturbed>>

\* A request that fails lists nothing.
ListAnswered(f) ==
  /\ Answer(Call("list", f)) /\ UNCHANGED disturbed /\ pageCalls' = pageCalls \ {Call("list", f)}
  /\ \E shown \in {Listed(f, "admin"), {}} : docPage' = [docPage EXCEPT !.view = "list", !.list = shown]
  /\ UNCHANGED memoryVars

SearchAnswered(t) ==
  /\ Answer(Call("search", t)) /\ UNCHANGED disturbed /\ pageCalls' = pageCalls \ {Call("search", t)}
  /\ \E shown \in {Found(t, "admin"), {}} : docPage' = [docPage EXCEPT !.view = "search", !.list = shown]
  /\ UNCHANGED memoryVars

DocAnswered(d) ==
  /\ Answer(Call("doc", d)) /\ pageCalls' = pageCalls \ {Call("doc", d)}
  /\ \/ d \in LiveDocs /\ docPage' = [docPage EXCEPT !.view = "doc", !.shown = d]
     \/ docPage' = [docPage EXCEPT !.view = "list"]
  /\ UNCHANGED <<memoryVars, disturbed>>

\* Slip: a new document starts with what the fields had.
ShowEditKeeping(x) ==
  /\ docPage' = [docPage EXCEPT !.view = "edit", !.editing = x]
  /\ pageCalls' = IF x = None THEN pageCalls ELSE pageCalls \cup {Call("edit", x)}
  /\ disturbed' = (disturbed \/ Under("edit") # {})

\* showEdit: the fields keep what they had until the answer comes.
ShowEdit(x) ==
  /\ docPage' = [docPage EXCEPT !.view = "edit", !.editing = x, !.fields = IF x = None THEN Blank ELSE @]
  /\ pageCalls' = IF x = None THEN pageCalls ELSE pageCalls \cup {Call("edit", x)}
  /\ disturbed' = (disturbed \/ Under("edit") # {})

ClickNew  == Clicked /\ docPage.view = "list" /\ ShowEdit(None)
ClickEdit == Clicked /\ docPage.view = "doc" /\ docPage.doc # None /\ ShowEdit(docPage.doc)

\* A request that fails leaves the fields what they had.
EditAnswered(d) ==
  /\ Answer(Call("edit", d)) /\ pageCalls' = pageCalls \ {Call("edit", d)}
  /\ \/ /\ d \in LiveDocs /\ UNCHANGED disturbed
        /\ docPage' = [docPage EXCEPT !.fields = [from |-> d, content |-> docs[d].content]]
     \/ UNCHANGED docPage /\ disturbed' = TRUE
  /\ UNCHANGED memoryVars

Type(v) ==
  /\ Clicked /\ docPage.view = "edit" /\ docPage' = [docPage EXCEPT !.fields.content = v]
  /\ UNCHANGED <<pageCalls, disturbed>>

\* The save button: a title is needed, and the request has the fields of now.
ClickSave ==
  /\ Clicked /\ docPage.view = "edit" /\ docPage.fields # Blank
  /\ pageCalls' = pageCalls \cup
       {[of |-> "save", id |-> docPage.editing, fields |-> docPage.fields, folder |-> docPage.folder]}
  /\ disturbed' = (disturbed \/ Under("edit") # {})
  /\ UNCHANGED docPage

\* Answered, it goes to the document that is edited by then.
SavedOld(c) ==
  /\ c.id # None /\ c.id \in LiveDocs
  /\ UpdateDocument(c.id, docs[c.id].folder, docs[c.id].title, c.fields.content, "admin")
  /\ docPage' = Navigated(docPage, DocHash(docPage.editing))
SavedNew(c) ==
  /\ c.id = None
  /\ \E d \in Docs, t \in Titles : /\ CreateDocument(d, c.folder, t, c.fields.content, "admin")
                                   /\ docPage' = Navigated(docPage, DocHash(d))

SaveAnswered(c) ==
  /\ c.of = "save" /\ Answer(c) /\ UNCHANGED disturbed /\ pageCalls' = pageCalls \ {c}
  /\ \/ SavedOld(c) \/ SavedNew(c)
     \/ UNCHANGED <<memoryVars, docPage>>   \* an alert says so

ClickCancel ==
  /\ Clicked /\ docPage.view = "edit"
  /\ docPage' = Navigated(docPage,
       IF docPage.editing = None THEN FolderHash(docPage.folder) ELSE DocHash(docPage.editing))
  /\ UNCHANGED <<pageCalls, disturbed>>

ClickBack ==
  /\ Clicked /\ docPage.view = "doc" /\ docPage' = Navigated(docPage, FolderHash(docPage.folder))
  /\ UNCHANGED <<pageCalls, disturbed>>

ClickDelete ==
  /\ Clicked /\ docPage.view = "doc" /\ docPage.doc # None
  /\ pageCalls' = pageCalls \cup {[of |-> "delete", id |-> docPage.doc, seen |-> docPage.shown]}
  /\ disturbed' = (disturbed \/ Under("doc") # {})
  /\ UNCHANGED docPage

DeleteAnswered(c) ==
  /\ c.of = "delete" /\ Answer(c) /\ UNCHANGED disturbed /\ pageCalls' = pageCalls \ {c}
  /\ \/ DeleteDocument(c.id, "admin") /\ docPage' = Navigated(docPage, FolderHash(docPage.folder))
     \/ UNCHANGED <<memoryVars, docPage>>

ClickNewFolder ==
  /\ clicks < MaxClicks /\ clicks' = clicks + 1 /\ UNCHANGED <<docPage, pageCalls, panel, panelCalls, disturbed>>
  /\ \E f \in Folders, n \in Names : CreateFolder(f, n, docPage.folder, "shared", "admin")

-----------------------------------------------------------------------------
(* MemoryView.  selected: the folder the tree marks, None for all.  asked and *)
(* overlapped are history: the last click, whether an answer was out then.   *)

PanelClicked ==
  clicks < MaxClicks /\ clicks' = clicks + 1 /\ UNCHANGED <<memoryVars, docPage, pageCalls, disturbed>>

Asking(c, p) ==
  /\ panelCalls' = panelCalls \cup {c}
  /\ panel' = [p EXCEPT !.loading = TRUE, !.asked = c, !.overlapped = @ \/ panelCalls # {}]

PanelFolder(f) == PanelClicked /\ Asking(Call("list", f), [panel EXCEPT !.selected = f, !.doc = None])
PanelAll       == PanelClicked /\ Asking(Call("list", None), [panel EXCEPT !.selected = None, !.doc = None])

PanelSearch(t) == PanelClicked /\ Asking(Call("search", t), [panel EXCEPT !.doc = None])

\* Refresh: every document, whatever folder is marked and document is open.
PanelLoad   == PanelClicked /\ Asking(Call("load", None), [panel EXCEPT !.error = FALSE])
PanelDoc(d) == PanelClicked /\ panel.doc = None /\ d \in panel.list /\ Asking(Call("doc", d), panel)

PanelBack ==
  /\ PanelClicked /\ panel.doc # None /\ UNCHANGED panelCalls
  /\ panel' = [panel EXCEPT !.doc = None, !.asked = panel.shows, !.overlapped = @ \/ panelCalls # {}]

PanelList(c, found) == [panel EXCEPT !.loading = FALSE, !.shows = c, !.list = found]

\* What the server has for a request that lists.
Asked(c) ==
  CASE c.of = "search" -> Found(c.id, "admin")
    [] c.id = None     -> ListedAll("admin")
    [] OTHER           -> Listed(c.id, "admin")

\* Each answer ends the spinner, whatever else is out.  Only a request without an
\* answer is told, until the next refresh: one the server refuses lists nothing
\* or opens no document, like a folder that is empty and a document that is gone.
PanelAnswered(c) ==
  /\ c \in panelCalls /\ panelCalls' = panelCalls \ {c}
  /\ \/ c.of # "doc" /\ \E found \in {Asked(c), {}} : panel' = PanelList(c, found)
     \/ /\ c.of = "doc"
        /\ \E shown \in ({c.id} \cap LiveDocs) \cup {None} : panel' = [panel EXCEPT !.loading = FALSE, !.doc = shown]
     \/ panel' = [panel EXCEPT !.loading = FALSE, !.error = TRUE]
  /\ UNCHANGED <<memoryVars, docPage, pageCalls, clicks, disturbed>>

-----------------------------------------------------------------------------

InitialPage ==
  [hash |-> FolderHash(Root), changed |-> TRUE, view |-> "list", folder |-> Root, doc |-> None,
   editing |-> None, fields |-> Blank, list |-> {}, shown |-> None]

ViewsInit ==
  /\ docPage = InitialPage
  /\ pageCalls = {} /\ panelCalls = {} /\ clicks = 0 /\ disturbed = FALSE
  /\ panel = [selected |-> None, doc |-> None, list |-> {}, shows |-> None, loading |-> FALSE,
              asked |-> None, overlapped |-> FALSE, error |-> FALSE]

PageNext ==
  \/ \E f \in LiveFolders : Browse(FolderHash(f))
  \/ \E d \in Docs : Browse(DocHash(d)) \/ GoTo(d)
  \/ \E t \in Titles : Browse(SearchHash(t))
  \/ HashChanged \/ SetToken \/ ClickNew \/ ClickEdit \/ ClickSave \/ ClickCancel \/ ClickBack
  \/ ClickDelete \/ ClickNewFolder
  \/ \E v \in Versions : Type(v)

PageAnswered ==
  \/ \E f \in Folders : TreeAnswered(f) \/ ListAnswered(f)
  \/ \E d \in Docs \cup {None} : DocAnswered(d)
  \/ \E d \in Docs : EditAnswered(d)
  \/ \E t \in Titles : SearchAnswered(t)
  \/ \E c \in pageCalls : SaveAnswered(c) \/ DeleteAnswered(c)

PanelNext ==
  \/ \E f \in LiveFolders : PanelFolder(f)
  \/ \E t \in Titles : PanelSearch(t)
  \/ \E d \in Docs : PanelDoc(d)
  \/ PanelAll \/ PanelLoad \/ PanelBack
  \/ \E c \in panelCalls : PanelAnswered(c)

PagesInit == MemoryInit /\ ViewsInit
PagesNext == PageNext \/ PageAnswered \/ PanelNext \/ (MemoryNext /\ UNCHANGED viewsVars)
PagesSpec == PagesInit /\ [][PagesNext]_pagesVars

-----------------------------------------------------------------------------
(* Properties *)

\* What the page saves under a document it loaded from that document, and what
\* it deletes is the document it shows, unless an answer overtook another or
\* the user clicked before it came: nothing ties an answer to what it was for.
ActsOnWhatItShowsUnlessDisturbed ==
  ~disturbed =>
    \A c \in pageCalls :
      /\ c.of = "save" => c.fields.from = c.id
      /\ c.of = "delete" => c.id = c.seen

\* With no answer out, none that overlapped another and no failure told, the
\* panel shows the answer to what was last asked for.  The answer may be a
\* refusal, which the panel shows as an empty list or as no document and tells
\* nobody of: the user cannot tell it from a folder without documents.
PanelShowsTheLastAsked ==
  panelCalls = {} /\ ~panel.overlapped /\ ~panel.error /\ panel.asked # None =>
    CASE panel.asked.of = "doc" -> panel.doc \in {panel.asked.id, None}
      [] panel.asked.of = "load" -> panel.shows = panel.asked
      [] OTHER -> panel.doc = None /\ panel.shows = panel.asked

\* What the two pages do and show, part by part.
PagesAreTrueUnlessDisturbed == ActsOnWhatItShowsUnlessDisturbed /\ PanelShowsTheLastAsked
=============================================================================
