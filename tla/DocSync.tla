-------------------------------- MODULE DocSync --------------------------------
(***************************************************************************)
(* The synchronisation of MetaMemory to a Feishu wiki (sync/doc-sync.ts    *)
(* and its mappings in sync-store.ts), composed with MetaMemory: a full    *)
(* sync on request or after a folder changed, and syncs of single          *)
(* documents, on request or for what changed, each interleaved at every    *)
(* call it waits for.                                                      *)
(*                                                                         *)
(* The hash of a document is its title and content.  A page has the set of *)
(* hashes whose text is on it.  Where a page hangs in the wiki and what is *)
(* told of a sync are left out.  A document's id is never used again.      *)
(***************************************************************************)
EXTENDS MetaMemory

CONSTANTS
  Slots,       \* bound: syncs of single documents at a time
  Pages,       \* bound: pages of the wiki
  Many,        \* more changed documents than this: a full sync
  ListLimit,   \* the documents one list of the memory holds, 200
  MaxRequests, \* bound: syncs asked for over the API
  MaxSyncFaults    \* bound: calls that fail, and restarts

\* The hash of a text, also of a part of one.
Hashes == [title : Titles \cup {None}, content : Versions \cup {None}]

\* A row of the mappings of documents, a page of the wiki.
MapRow  == [page : Pages, hash : Hashes]
PageRow == [of : Folders \cup Docs, has : SUBSET Hashes]

\* A sync: the documents it has still to come to, the one it has in hand, the
\* folders whose nodes it has to make, those whose documents it has to list.
Job ==
  [pc : {"space", "tree", "folders", "next", "fetch", "decide", "clear", "create", "write", "record", "cleanup"},
   todo : SUBSET Docs, doc : Docs \cup {None}, folder : Folders \cup {None}, hash : Hashes \cup {None},
   page : Pages \cup {None}, folders : SUBSET [id : Folders, path : Seq(Names)], lists : SUBSET Folders]

ASSUME SyncAssumption ==
  /\ "full" \notin Slots /\ Folders \cap Docs = {}
  /\ None \notin Pages /\ None \notin MapRow /\ None \notin PageRow /\ None \notin Job /\ None \notin Hashes
  /\ Many \in Nat /\ ListLimit \in Nat /\ MaxRequests \in Nat /\ MaxSyncFaults \in Nat

VARIABLES
  pendingDocs, pendingFolders, debounce,  \* of startAutoSync: what changed, whether its debounce runs
  jobs,                            \* the syncs under way
  docMap, folderMap, space,        \* the mappings, whether a wiki space is stored
  pages,                           \* the wiki
  requests, syncFaults,
  born,                            \* history: documents there ever were
  syncDisturbed                    \* history: documents a fault or an overlap touched, or a list left out

syncVars == <<pendingDocs, pendingFolders, debounce, jobs, docMap, folderMap, space, pages, requests, syncFaults,
              born, syncDisturbed>>
docSyncVars == <<memoryVars, syncVars>>

Jobs    == Slots \cup {"full"}
Busy(j) == jobs[j] # None
Syncing == Busy("full")
Hash(d) == [title |-> docs[d].title, content |-> docs[d].content]

At(j, pc) == Busy(j) /\ jobs[j].pc = pc /\ deleting = << >>

Fault     == syncFaults < MaxSyncFaults /\ syncFaults' = syncFaults + 1
NoFault   == UNCHANGED syncFaults
Holds(j, d) == Busy(j) /\ jobs[j].doc = d

\* A document whose mapping is not up to date.
Stale(d) ==
  IF d \in LiveDocs THEN docMap[d] = None \/ docMap[d].hash # Hash(d) ELSE docMap[d] # None

\* The text of a write that failed midway.
Part == [title |-> None, content |-> None]

\* Documents a job has or will have to do with.
Has(j) == IF Busy(j) THEN jobs[j].todo \cup ({jobs[j].doc} \cap Docs) ELSE {}

-----------------------------------------------------------------------------
(* startAutoSync: events of the memory server in the same process *)

Later == debounce' = TRUE

FolderHeard == pendingFolders' = TRUE /\ Later /\ UNCHANGED <<pendingDocs, docMap>>

DocumentHeard(d) == pendingDocs' = pendingDocs \cup {d} /\ Later /\ UNCHANGED <<pendingFolders, docMap>>

\* Its mapping goes at once, also under a sync that is about to write it.
DeletionHeard(d) ==
  docMap' = [docMap EXCEPT ![d] = None] /\ UNCHANGED <<pendingDocs, pendingFolders, debounce>>

Untold == UNCHANGED <<pendingDocs, pendingFolders, debounce, docMap>>

Ghosts ==
  /\ born' = born \cup {d \in Docs : docs'[d] # None}
  /\ syncDisturbed' = syncDisturbed \cup {d \in LiveDocs : docs'[d] = None /\ \E j \in Jobs : Holds(j, d)}
  /\ UNCHANGED <<jobs, folderMap, space, pages, requests, syncFaults>>

Changes ==
  /\ \/ FolderEvent /\ FolderHeard
     \/ \E d \in Docs : (d \in LiveDocs \/ d \notin born) /\ DocumentEvent(d) /\ DocumentHeard(d)
     \/ \E d \in Docs : DocumentDeletedEvent(d) /\ DeletionHeard(d)
     \/ NoEvent /\ Untold
  /\ Ghosts

-----------------------------------------------------------------------------
(* Starting a sync *)

Starts(j, todo) ==
  jobs' = [jobs EXCEPT ![j] =
    [pc |-> IF j = "full" THEN "space" ELSE "next", todo |-> todo, doc |-> None, folder |-> None,
     hash |-> None, page |-> None, folders |-> {}, lists |-> {}]]

\* Slip: what is pending is forgotten.
TimerDuringSyncForgets == Syncing /\ pendingDocs' = {} /\ pendingFolders' = FALSE /\ UNCHANGED jobs

\* The timer fires under a full sync: what is pending waits for the next event.
TimerDuringSync == Syncing /\ UNCHANGED <<pendingDocs, pendingFolders, jobs>>

TimerStartsFull ==
  /\ ~Syncing /\ (pendingFolders \/ Cardinality(pendingDocs) > Many)
  /\ Starts("full", {}) /\ pendingDocs' = {} /\ pendingFolders' = FALSE

TimerStartsSome ==
  /\ ~Syncing /\ ~pendingFolders /\ Cardinality(pendingDocs) <= Many
  /\ \E j \in Slots : ~Busy(j) /\ Starts(j, pendingDocs)
  /\ pendingDocs' = {} /\ UNCHANGED pendingFolders

TimerFires ==
  /\ debounce /\ deleting = << >> /\ debounce' = FALSE
  /\ TimerDuringSync \/ TimerStartsFull \/ TimerStartsSome
  /\ UNCHANGED <<memoryVars, docMap, folderMap, space, pages, requests, syncFaults, born, syncDisturbed>>

Requested ==
  /\ deleting = << >> /\ requests < MaxRequests /\ requests' = requests + 1
  /\ UNCHANGED <<memoryVars, pendingDocs, pendingFolders, debounce, docMap, folderMap, space, pages,
                 syncFaults, born, syncDisturbed>>

\* POST /api/sync and /sync; refused while one runs.
SyncAll == Requested /\ ~Syncing /\ Starts("full", {})

\* POST /api/sync/document
SyncDocument(d) == Requested /\ \E j \in Slots : ~Busy(j) /\ Starts(j, {d})

-----------------------------------------------------------------------------
(* Steps of a sync.  Each ends at a call it waits for. *)

Unmoved == UNCHANGED <<memoryVars, pendingDocs, pendingFolders, debounce, requests, born>>
Becomes(j, job) == jobs' = [jobs EXCEPT ![j] = job]
Ends(j) == jobs' = [jobs EXCEPT ![j] = None]

\* Done with a document, however.
Done(j) ==
  Becomes(j, [jobs[j] EXCEPT !.pc = "next", !.doc = None, !.folder = None, !.hash = None, !.page = None])

\* Work of j given up: nothing will take it up again.
GivesUp(ds) == syncDisturbed' = syncDisturbed \cup ds

\* What is lost with all that was noted: the documents in hand or not up to date.
Behind == {d \in Docs : Stale(d) \/ \E j \in Jobs : Holds(j, d)}

\* ensureWikiSpace, before a full sync and before each single document.  A
\* space that cannot be read is forgotten and looked for again.
EnsureWikiSpace(j) ==
  /\ At(j, "space") /\ Unmoved /\ UNCHANGED <<docMap, folderMap, pages>>
  /\ \/ /\ NoFault /\ space' = TRUE /\ UNCHANGED syncDisturbed
        /\ Becomes(j, [jobs[j] EXCEPT !.pc = IF j = "full" THEN "tree" ELSE "fetch"])
     \/ /\ Fault /\ space' = FALSE
        /\ IF j = "full" THEN Ends(j) /\ GivesUp(Behind) ELSE Done(j) /\ GivesUp({jobs[j].doc})

\* The nodes of the folder tree, and those of the tree from one folder on.
Node(f)   == [id |-> f, path |-> folders[f].path]
Nodes(fs) == {Node(f) : f \in fs}

Above(g, f) == Len(g.path) < Len(f.path) /\ SubSeq(f.path, 1, Len(g.path)) = g.path

From(f) == {n \in Nodes(LiveFolders) : n.id = f \/ Above(Node(f), n)}

\* For a document whose folder has no node, the folders to make first.
Subtree(f) == IF f \in LiveFolders \ {Root} /\ folderMap[f] = None THEN From(f) ELSE {}

\* The folder tree: for a full sync what it works through.
ListFolderTree(j) ==
  /\ At(j, "tree") /\ Unmoved /\ UNCHANGED <<docMap, folderMap, pages, space>>
  /\ \/ /\ NoFault /\ UNCHANGED syncDisturbed
        /\ IF j = "full"
             THEN Becomes(j, [jobs[j] EXCEPT
                    !.pc = "folders", !.folders = Nodes(LiveFolders \ {Root}), !.lists = LiveFolders])
             ELSE Becomes(j, [jobs[j] EXCEPT !.pc = "folders", !.folders = Subtree(jobs[j].folder)])
     \/ /\ Fault
        /\ IF j = "full" THEN Ends(j) /\ GivesUp(Behind) ELSE Done(j) /\ GivesUp({jobs[j].doc})

Room  == \E p \in Pages : pages[p] = None
Fresh == CHOOSE p \in Pages : pages[p] = None

NewPage(of) == pages' = [pages EXCEPT ![Fresh] = [of |-> of, has |-> {}]]

\* syncFolders: parents first.  A folder whose node cannot be made is left out.
SyncFolder(j) ==
  /\ At(j, "folders") /\ Unmoved /\ UNCHANGED <<docMap, space, syncDisturbed>>
  /\ \E n \in jobs[j].folders :
       /\ \A g \in jobs[j].folders : ~Above(g, n)
       /\ Becomes(j, [jobs[j] EXCEPT !.folders = @ \ {n}])
       /\ \/ folderMap[n.id] # None /\ NoFault /\ UNCHANGED <<folderMap, pages>>
          \/ /\ folderMap[n.id] = None /\ NoFault /\ Room
             /\ NewPage(n.id) /\ folderMap' = [folderMap EXCEPT ![n.id] = Fresh]
          \/ folderMap[n.id] = None /\ Fault /\ UNCHANGED <<folderMap, pages>>

\* Then, for a full sync the documents of each folder, for a single one its page.
FoldersSynced(j) ==
  /\ At(j, "folders") /\ jobs[j].folders = {} /\ Unmoved /\ NoFault
  /\ Becomes(j, [jobs[j] EXCEPT !.pc = IF j = "full" THEN "next" ELSE "decide"])
  /\ UNCHANGED <<docMap, folderMap, space, pages, syncDisturbed>>

\* What the memory may list of a folder, the most recent first, which this
\* leaves open.  The list of the root is one of all documents.
Tops(f) ==
  LET all == IF f = Root THEN ListedAll("admin") ELSE Listed(f, "admin")
  IN {top \in SUBSET all : \/ top = all /\ Cardinality(all) <= ListLimit
                           \/ Cardinality(top) = ListLimit /\ Cardinality(all) > ListLimit}

\* syncDocumentsInTree: the list of one folder.  A document that is not on it is
\* not synced, and nothing notes that it was not.
ListDocuments ==
  /\ At("full", "next") /\ jobs["full"].todo = {} /\ Unmoved /\ UNCHANGED <<docMap, folderMap, space, pages>>
  /\ \E f \in jobs["full"].lists :
       \/ \E top \in Tops(f) :
            /\ NoFault /\ GivesUp(Listed(f, "admin") \ top)
            /\ Becomes("full", [jobs["full"] EXCEPT !.lists = @ \ {f}, !.todo = top \cap Listed(f, "admin")])
       \/ /\ Fault /\ Becomes("full", [jobs["full"] EXCEPT !.lists = @ \ {f}])
          /\ GivesUp(Listed(f, "admin"))

NextDocument(j) ==
  /\ At(j, "next") /\ Unmoved /\ NoFault /\ UNCHANGED <<docMap, folderMap, space, pages>>
  /\ \E d \in jobs[j].todo :
       /\ Becomes(j, [jobs[j] EXCEPT !.pc = IF j = "full" THEN "fetch" ELSE "space", !.todo = @ \ {d}, !.doc = d])
       /\ syncDisturbed' = IF \E i \in Jobs \ {j} : Holds(i, d) THEN syncDisturbed \cup {d} ELSE syncDisturbed

\* fetchDocument: an error is no document.
FetchDocument(j) ==
  LET d == jobs[j].doc
  IN /\ At(j, "fetch") /\ Unmoved /\ UNCHANGED <<docMap, folderMap, space, pages>>
     /\ \/ /\ d \in LiveDocs /\ NoFault /\ UNCHANGED syncDisturbed
           /\ Becomes(j, [jobs[j] EXCEPT
                !.pc = IF j = "full" THEN "decide" ELSE "tree", !.hash = Hash(d), !.folder = docs[d].folder])
        \/ d \notin LiveDocs /\ NoFault /\ UNCHANGED syncDisturbed /\ Done(j)
        \/ Fault /\ GivesUp({d}) /\ Done(j)

\* syncSingleDocument: nothing to do, an update, or a new page.
SyncSingleDocument(j) ==
  /\ At(j, "decide") /\ Unmoved /\ NoFault /\ UNCHANGED <<docMap, folderMap, space, pages, syncDisturbed>>
  /\ LET m == docMap[jobs[j].doc]
     IN \/ m # None /\ m.hash = jobs[j].hash /\ Done(j)
        \/ m # None /\ m.hash # jobs[j].hash /\ Becomes(j, [jobs[j] EXCEPT !.pc = "clear", !.page = m.page])
        \/ m = None /\ Becomes(j, [jobs[j] EXCEPT !.pc = "create"])

\* updateDocumentContent clears first, and writes even if that fails.
ClearPage(j) ==
  /\ At(j, "clear") /\ Unmoved /\ UNCHANGED <<docMap, folderMap, space>>
  /\ Becomes(j, [jobs[j] EXCEPT !.pc = "write"])
  /\ \/ NoFault /\ UNCHANGED syncDisturbed /\ pages' = [pages EXCEPT ![jobs[j].page].has = {}]
     \/ Fault /\ GivesUp({jobs[j].doc}) /\ UNCHANGED pages

\* An answer that is lost leaves a page nobody knows.
CreatePage(j) ==
  /\ At(j, "create") /\ Unmoved /\ Room /\ UNCHANGED <<docMap, folderMap, space>>
  /\ \/ /\ NoFault /\ UNCHANGED syncDisturbed
        /\ NewPage(jobs[j].doc) /\ Becomes(j, [jobs[j] EXCEPT !.pc = "write", !.page = Fresh])
     \/ /\ Fault /\ GivesUp({jobs[j].doc}) /\ Done(j)
        /\ UNCHANGED pages \/ NewPage(jobs[j].doc)

\* writeDocumentContent: in batches, so that a failure leaves a part.  The title
\* of a page in the wiki stays what it was when the page was made.
WritePage(j) ==
  /\ At(j, "write") /\ Unmoved /\ UNCHANGED <<docMap, folderMap, space>>
  /\ \/ /\ NoFault /\ UNCHANGED syncDisturbed /\ Becomes(j, [jobs[j] EXCEPT !.pc = "record"])
        /\ pages' = [pages EXCEPT ![jobs[j].page].has = @ \cup {jobs[j].hash}]
     \/ /\ Fault /\ GivesUp({jobs[j].doc}) /\ Done(j)
        /\ pages' \in {pages, [pages EXCEPT ![jobs[j].page].has = @ \cup {Part}]}

UpsertDocMapping(j) ==
  /\ At(j, "record") /\ Unmoved /\ NoFault /\ UNCHANGED <<folderMap, space, pages, syncDisturbed>>
  /\ docMap' = [docMap EXCEPT ![jobs[j].doc] = [page |-> jobs[j].page, hash |-> jobs[j].hash]]
  /\ Done(j)

SyncDocumentReturns(j) ==
  /\ j \in Slots /\ At(j, "next") /\ jobs[j].todo = {} /\ Ends(j)
  /\ Unmoved /\ NoFault /\ UNCHANGED <<docMap, folderMap, space, pages, syncDisturbed>>

\* Step 5 of syncAll, over the mappings of that moment.
CleanupBegins ==
  /\ At("full", "next") /\ jobs["full"].todo = {} /\ jobs["full"].lists = {}
  /\ Becomes("full", [jobs["full"] EXCEPT !.pc = "cleanup", !.todo = {d \in Docs : docMap[d] # None}])
  /\ Unmoved /\ NoFault /\ UNCHANGED <<docMap, folderMap, space, pages, syncDisturbed>>

\* One that cannot be fetched counts as deleted; the wiki page stays.
CleanupDocument ==
  /\ At("full", "cleanup") /\ Unmoved /\ UNCHANGED <<folderMap, space, pages>>
  /\ \E d \in jobs["full"].todo :
       /\ Becomes("full", [jobs["full"] EXCEPT !.todo = @ \ {d}])
       /\ \/ d \in LiveDocs /\ NoFault /\ UNCHANGED <<docMap, syncDisturbed>>
          \/ d \notin LiveDocs /\ NoFault /\ docMap' = [docMap EXCEPT ![d] = None] /\ UNCHANGED syncDisturbed
          \/ Fault /\ docMap' = [docMap EXCEPT ![d] = None] /\ GivesUp({d})

SyncAllReturns ==
  /\ At("full", "cleanup") /\ jobs["full"].todo = {} /\ Ends("full")
  /\ Unmoved /\ NoFault /\ UNCHANGED <<docMap, folderMap, space, pages, syncDisturbed>>

\* A restart: the mappings stay, what was pending or under way is gone, and
\* nothing syncs at the start.
Restart ==
  /\ Fault /\ pendingDocs' = {} /\ pendingFolders' = FALSE /\ debounce' = FALSE /\ jobs' = [j \in Jobs |-> None]
  /\ GivesUp(Behind) /\ deleting' = << >>
  /\ UNCHANGED <<folders, docs, fts, writes, docMap, folderMap, space, pages, requests, born>>

-----------------------------------------------------------------------------

SyncInit ==
  /\ MemoryInit
  /\ pendingDocs = {} /\ pendingFolders = FALSE /\ debounce = FALSE /\ jobs = [j \in Jobs |-> None]
  /\ docMap = [d \in Docs |-> None] /\ folderMap = [f \in Folders |-> None] /\ space = FALSE
  /\ pages = [p \in Pages |-> None]
  /\ requests = 0 /\ syncFaults = 0 /\ born = {} /\ syncDisturbed = {}

DocumentStep(j) ==
  \/ NextDocument(j) \/ FetchDocument(j) \/ SyncSingleDocument(j) \/ ClearPage(j) \/ CreatePage(j) \/ WritePage(j)
  \/ UpsertDocMapping(j)

Step(j) ==
  \/ EnsureWikiSpace(j) \/ ListFolderTree(j) \/ SyncFolder(j) \/ FoldersSynced(j) \/ DocumentStep(j)
  \/ SyncDocumentReturns(j)

FullStep == ListDocuments \/ CleanupBegins \/ CleanupDocument \/ SyncAllReturns

SyncNext ==
  \/ Changes \/ TimerFires \/ SyncAll \/ Restart \/ FullStep
  \/ \E d \in Docs : SyncDocument(d)
  \/ \E j \in Jobs : Step(j)

SyncSpec == SyncInit /\ [][SyncNext]_docSyncVars

-----------------------------------------------------------------------------
(* Properties *)

\* A document has one page in the wiki: a second comes only of a call that
\* failed, a restart, or two syncs that had the document at once.
OnePagePerDocumentUnlessDisturbed ==
  \A d \in Docs \ syncDisturbed : Cardinality({p \in Pages : pages[p] # None /\ pages[p].of = d}) <= 1

\* A document no sync has in hand has on its page the text its mapping's hash
\* says, and only that: the hash decides whether it is ever written again.
PageSaysWhatItsHashUnlessDisturbed ==
  \A d \in Docs \ syncDisturbed :
    docMap[d] # None /\ (\A j \in Jobs : ~Holds(j, d)) => pages[docMap[d].page].has = {docMap[d].hash}

FullWillSee(d) ==
  /\ Syncing
  /\ \/ jobs["full"].pc \in {"space", "tree"}
     \/ d \in LiveDocs /\ docs[d].folder \in jobs["full"].lists
     \/ d \notin LiveDocs /\ jobs["full"].pc # "cleanup"

\* A change is not forgotten: a document whose mapping is not up to date is
\* noted as changed, or a sync has it or will come to it.  Not so one that the
\* lists of a full sync leave out: it was cleared from what is noted before.
StaleIsNotedUnlessDisturbed ==
  \A d \in Docs \ syncDisturbed :
    Stale(d) => \/ d \in pendingDocs \/ pendingFolders
                \/ deleting # << >> /\ d \notin LiveDocs
                \/ \E j \in Jobs : d \in Has(j)
                \/ FullWillSee(d)

\* The wiki follows the memory, part by part, but for the disturbed documents:
\* those of a failed call, a restart, an overlap, and those a list leaves out.
WikiFollowsUnlessDisturbed ==
  /\ OnePagePerDocumentUnlessDisturbed /\ PageSaysWhatItsHashUnlessDisturbed
  /\ StaleIsNotedUnlessDisturbed
=============================================================================
