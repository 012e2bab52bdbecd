------------------------------ MODULE MetaMemory ------------------------------
(***************************************************************************)
(* The MetaMemory server: folders, documents and the search index of       *)
(* memory/memory-storage.ts behind the routes of memory-routes.ts and      *)
(* memory-server.ts.                                                       *)
(*                                                                         *)
(* Ids are slots of Folders and Docs; a new folder or document takes a     *)
(* free one.  A title is its slug.  Contents are versions.  A database     *)
(* statement is atomic, a request that runs several is not.                *)
(***************************************************************************)
EXTENDS Integers, FiniteSets, Sequences

CONSTANTS
  Folders,       \* ids of folders
  Docs,          \* ids of documents
  Root,          \* id of the root folder, the only one that exists at first
  Names, Titles, \* of folders and of documents
  Versions,      \* contents of documents
  Visibilities,  \* of folders: "shared", "private"
  MaxWrites,     \* bound: requests that write
  None

\* The rows of the tables: a folder, a document.
FolderRow ==
  [name : Names \cup {None}, parent : Folders \cup {None}, visibility : Visibilities, path : Seq(Names)]
DocRow ==
  [folder : Folders, title : Titles, content : Versions \cup {None}, path : Seq(Names \cup Titles)]

ASSUME MemoryAssumption ==
  /\ Root \in Folders /\ None \notin Folders /\ None \notin Docs
  /\ None \notin FolderRow /\ None \notin DocRow
  /\ "shared" \in Visibilities
  /\ MaxWrites \in Nat

VARIABLES
  folders, docs,  \* the rows of each table, None for an id without one
  fts,            \* what the full-text index has of each document
  deleting,       \* the calls of deleteFolder that run, the innermost first
  writes

memoryVars == <<folders, docs, fts, deleting, writes>>

Roles == {"admin", "reader"}

LiveFolders == {f \in Folders : folders[f] # None}
LiveDocs    == {d \in Docs : docs[d] # None}

-----------------------------------------------------------------------------
(* Paths and visibility *)

FolderPath(parent, name) == Append(folders[parent].path, name)
DocPath(f, title)        == Append(folders[f].path, title)

PathTaken(path, besides) == \E d \in LiveDocs \ {besides} : docs[d].path = path

Accessible(f, role) == role = "admin" \/ (f \in LiveFolders /\ folders[f].visibility # "private")

\* What a client is sent of a document, and of a folder's list.
Readable(d, role)   == d \in LiveDocs /\ Accessible(docs[d].folder, role)
Listed(f, role)     == IF Accessible(f, role) THEN {d \in LiveDocs : docs[d].folder = f} ELSE {}
ListedAll(role)     == {d \in LiveDocs : Accessible(docs[d].folder, role)}
Found(title, role)  == {d \in ListedAll(role) : fts[d] # None /\ fts[d].title = title}

-----------------------------------------------------------------------------
(* Statements: the tables and the triggers that keep the index *)

NewFolder(f, name, parent, visibility) ==
  folders' = [folders EXCEPT ![f] =
    [name |-> name, parent |-> parent, visibility |-> visibility, path |-> FolderPath(parent, name)]]

Put(d, row) ==
  /\ docs' = [docs EXCEPT ![d] = row]
  /\ fts' = [fts EXCEPT ![d] = [title |-> row.title, content |-> row.content]]

\* Slip: without the trigger after a delete.
DropStale(gone) == docs' = [d \in Docs |-> IF d \in gone THEN None ELSE docs[d]] /\ UNCHANGED fts

Drop(gone) ==
  /\ docs' = [d \in Docs |-> IF d \in gone THEN None ELSE docs[d]]
  /\ fts' = [d \in Docs |-> IF d \in gone THEN None ELSE fts[d]]

-----------------------------------------------------------------------------
(* Requests.  Each is one event of the bus, named by what it tells. *)

Writing == deleting = << >> /\ writes < MaxWrites /\ writes' = writes + 1

\* An existing folder of that path is returned, and the event goes out again.
CreateFolder(f, name, parent, visibility, role) ==
  /\ Writing /\ parent \in LiveFolders
  /\ visibility = "private" => role = "admin"
  /\ IF \E g \in LiveFolders : folders[g].path = FolderPath(parent, name)
       THEN UNCHANGED folders
       ELSE f \notin LiveFolders /\ NewFolder(f, name, parent, visibility)
  /\ UNCHANGED <<docs, fts, deleting>>

UpdateFolder(f, visibility, role) ==
  /\ Writing /\ role = "admin" /\ f \in LiveFolders
  /\ folders' = [folders EXCEPT ![f].visibility = visibility]
  /\ UNCHANGED <<docs, fts, deleting>>

Children(f) == {g \in LiveFolders : folders[g].parent = f}

\* A call of deleteFolder: what it has to run next, and the children it has
\* still to call itself for.
Deleting(f) == [folder |-> f, at |-> "documents", left |-> {}]

\* Its loop over the children: the next of them is called.
NextChild(calls) ==
  LET call == Head(calls)
      g    == CHOOSE child \in call.left : TRUE
  IN IF call.left = {} THEN calls ELSE <<Deleting(g), [call EXCEPT !.left = @ \ {g}]>> \o Tail(calls)

\* Other requests wait for it.
DeleteFolderBegins(f, role) ==
  /\ Writing /\ f \in LiveFolders \ {Root} /\ Accessible(f, role)
  /\ deleting' = <<Deleting(f)>>
  /\ UNCHANGED <<folders, docs, fts>>

\* The documents of the folder are deleted, and its children are read.
DeleteDocuments ==
  LET call == Head(deleting)
  IN /\ call.at = "documents" /\ Drop({d \in LiveDocs : docs[d].folder = call.folder})
     /\ deleting' = NextChild(
          <<[call EXCEPT !.at = "children", !.left = Children(call.folder)]>> \o Tail(deleting))
     /\ UNCHANGED folders

\* After the last child the folder's row goes, and the call returns to its loop.
DeleteRow ==
  LET call == Head(deleting)
  IN /\ call.at = "children" /\ call.left = {}
     /\ folders' = [folders EXCEPT ![call.folder] = None]
     /\ deleting' = IF Tail(deleting) = << >> THEN << >> ELSE NextChild(Tail(deleting))
     /\ UNCHANGED <<docs, fts>>

DeleteStatement == deleting # << >> /\ (DeleteDocuments \/ DeleteRow) /\ UNCHANGED writes

\* The event goes out after the last statement.
DeleteFolderEnds   == DeleteStatement /\ deleting' = << >>
DeleteFolderGoesOn == DeleteStatement /\ deleting' # << >>

\* The process ends within deleteFolder: no event, and no other statement.
DeleteFolderCut ==
  /\ deleting # << >> /\ deleting' = << >> /\ UNCHANGED <<folders, docs, fts, writes>>

CreateDocument(d, f, title, content, role) ==
  /\ Writing /\ d \notin LiveDocs
  /\ Accessible(f, role) /\ f \in LiveFolders /\ ~PathTaken(DocPath(f, title), d)
  /\ Put(d, [folder |-> f, title |-> title, content |-> content, path |-> DocPath(f, title)])
  /\ UNCHANGED <<folders, deleting>>

UpdateDocument(d, f, title, content, role) ==
  /\ Writing /\ Readable(d, role) /\ f \in LiveFolders /\ ~PathTaken(DocPath(f, title), d)
  /\ Put(d, [folder |-> f, title |-> title, content |-> content, path |-> DocPath(f, title)])
  /\ UNCHANGED <<folders, deleting>>

DeleteDocument(d, role) ==
  /\ Writing /\ Readable(d, role) /\ Drop({d})
  /\ UNCHANGED <<folders, deleting>>

-----------------------------------------------------------------------------

MemoryInit ==
  /\ folders = [f \in Folders |->
       IF f = Root THEN [name |-> None, parent |-> None, visibility |-> "shared", path |-> << >>] ELSE None]
  /\ docs = [d \in Docs |-> None] /\ fts = [d \in Docs |-> None]
  /\ deleting = << >> /\ writes = 0

\* The steps by the event they emit.
FolderEvent ==
  \/ \E f, p \in Folders, n \in Names, v \in Visibilities, role \in Roles : CreateFolder(f, n, p, v, role)
  \/ DeleteFolderEnds

DocumentEvent(d) ==
  \E f \in Folders, t \in Titles, c \in Versions, role \in Roles :
    CreateDocument(d, f, t, c, role) \/ UpdateDocument(d, f, t, c, role)

DocumentDeletedEvent(d) == \E role \in Roles : DeleteDocument(d, role)

NoEvent ==
  \/ \E f \in Folders, v \in Visibilities, role \in Roles : UpdateFolder(f, v, role)
  \/ \E f \in Folders, role \in Roles : DeleteFolderBegins(f, role)
  \/ DeleteFolderGoesOn

MemoryNext ==
  FolderEvent \/ NoEvent \/ DeleteFolderCut \/ \E d \in Docs : DocumentEvent(d) \/ DocumentDeletedEvent(d)

-----------------------------------------------------------------------------
(* Properties *)

\* At every statement, also those of a deleteFolder that is cut: each document
\* is in a folder that exists, each folder but the root has its parent, and
\* paths are what folders and titles say, each of one document or folder.
TreeIsSound ==
  /\ \A f \in LiveFolders \ {Root} :
       folders[f].parent \in LiveFolders /\ folders[f].path = FolderPath(folders[f].parent, folders[f].name)
  /\ \A d \in LiveDocs : docs[d].folder \in LiveFolders /\ docs[d].path = DocPath(docs[d].folder, docs[d].title)
  /\ \A f, g \in LiveFolders : folders[f].path = folders[g].path => f = g
  /\ \A d, e \in LiveDocs : docs[d].path = docs[e].path => d = e

\* A search finds a document by what it says now, whichever statements changed
\* it, and no document that is gone.
IndexIsCurrent ==
  \A d \in Docs :
    IF d \in LiveDocs THEN fts[d] = [title |-> docs[d].title, content |-> docs[d].content]
    ELSE fts[d] = None

\* What the server keeps, part by part.
MemoryIsSound == TreeIsSound /\ IndexIsCurrent
=============================================================================
