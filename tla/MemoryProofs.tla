---------------------------- MODULE MemoryProofs ----------------------------
(***************************************************************************)
(* Proofs about MetaMemory, the page that shows it and the sync that       *)
(* copies it to a wiki, for any folders, documents and nesting, any number *)
(* of writes, clicks, answers, syncs and failures: what the tables hold at *)
(* every statement of a deletion, which document the page saves to or      *)
(* deletes, and what of a document the wiki has.                           *)
(***************************************************************************)
EXTENDS MemoryBrowser, DocSync, SequenceTheorems, FiniteSetTheorems, TLAPS

(* The tables. **************************************************************)

\* What the rows and the calls of deleteFolder are made of.
IndexRow == [title : Titles, content : Versions \cup {None}]
Deletion == [folder : Folders, at : {"documents", "children"}, left : SUBSET Folders]

TablesAreTyped ==
  /\ folders \in [Folders -> FolderRow \cup {None}]
  /\ docs \in [Docs -> DocRow \cup {None}]
  /\ fts \in [Docs -> IndexRow \cup {None}]
  /\ deleting \in Seq(Deletion)
  /\ writes \in Nat
  /\ folders[Root] # None /\ folders[Root].parent = None

Kids(rows, f) == {g \in Folders : rows[g] # None /\ rows[g].parent = f}

\* The calls of deleteFolder are nested as the folders are, the innermost first:
\* a call that has deleted the documents of its folder finds none there, and of
\* its children only those it has not called for and the one it waits for.
NestedAt(calls, i, rows, of) ==
  LET f == calls[i].folder
      left == calls[i].left
  IN /\ rows[f] # None /\ f # Root /\ left \subseteq Kids(rows, f)
     /\ i > 1 => /\ calls[i].at = "children"
                 /\ calls[i - 1].folder \in Kids(rows, f) /\ calls[i - 1].folder \notin left
     /\ calls[i].at = "children" =>
          /\ \A d \in Docs : of[d] # None => of[d].folder # f
          /\ \A g \in Kids(rows, f) : g \in left \/ (i > 1 /\ g = calls[i - 1].folder)
     /\ \A j \in 1..Len(calls) : i < j => Len(rows[calls[j].folder].path) < Len(rows[f].path)

Nested(calls, rows, of) == \A i \in 1..Len(calls) : NestedAt(calls, i, rows, of)

\* The path of a folder is one longer than the path of its parent.
PathsGrow(rows) ==
  \A f \in Folders : rows[f] # None =>
    /\ Len(rows[f].path) \in Nat
    /\ f # Root => Len(rows[f].path) = Len(rows[rows[f].parent].path) + 1

MemoryInv == TablesAreTyped /\ Nested(deleting, folders, docs) /\ TreeIsSound /\ IndexIsCurrent

(* Folders and documents. ***************************************************)

LEMMA RootIsThere ==
  ASSUME TablesAreTyped
  PROVE  /\ Root \in LiveFolders
         /\ \A f \in LiveFolders : folders[f] \in FolderRow
         /\ \A d \in LiveDocs : docs[d] \in DocRow
BY MemoryAssumption DEF TablesAreTyped, LiveFolders, LiveDocs

\* A document that is written has a row of its own path, and an entry that says
\* what the row says.
LEMMA PutKeeps ==
  ASSUME MemoryInv, deleting = << >>, NEW d \in Docs, NEW f \in LiveFolders, NEW t \in Titles,
         NEW c \in Versions \cup {None}, ~PathTaken(DocPath(f, t), d),
         Put(d, [folder |-> f, title |-> t, content |-> c, path |-> DocPath(f, t)]),
         UNCHANGED <<folders, deleting>>, writes' \in Nat
  PROVE  MemoryInv'
<1> DEFINE path == DocPath(f, t)
           row == [folder |-> f, title |-> t, content |-> c, path |-> path]
           entry == [title |-> t, content |-> c]
<1>0. f \in Folders /\ folders[f] \in FolderRow
  BY RootIsThere DEF MemoryInv, LiveFolders
<1>1. path \in Seq(Names \cup Titles)
  <2>1. folders[f].path \in Seq(Names \cup Titles)
    BY <1>0 DEF FolderRow
  <2> QED BY <2>1 DEF DocPath
<1>2. row \in DocRow /\ row # None /\ entry \in IndexRow
  BY <1>0, <1>1, MemoryAssumption DEF DocRow, IndexRow
<1>3. row.folder = f /\ row.title = t /\ row.content = c /\ row.path = path
  OBVIOUS
<1>4. docs' = [docs EXCEPT ![d] = row] /\ fts' = [fts EXCEPT ![d] = entry]
  BY DEF Put
<1>5. \A e \in LiveDocs \ {d} : docs[e].path # path
  BY DEF PathTaken
<1>6. LiveFolders' = LiveFolders /\ \A g, x : DocPath(g, x)' = DocPath(g, x)
  BY DEF LiveFolders, DocPath
<1> DEFINE old == docs
<1>10. old \in [Docs -> DocRow \cup {None}] /\ fts \in [Docs -> IndexRow \cup {None}]
  BY DEF MemoryInv, TablesAreTyped
<1> HIDE DEF row, entry
<1>7. TablesAreTyped'
  BY <1>2, <1>4 DEF MemoryInv, TablesAreTyped
<1>8. /\ LiveDocs' = LiveDocs \cup {d} /\ docs'[d] = row /\ fts'[d] = entry
      /\ \A e \in Docs \ {d} : docs'[e] = docs[e] /\ fts'[e] = fts[e]
  BY <1>2, <1>4, <1>10 DEF LiveDocs
<1>9. TreeIsSound'
  <2>1. /\ \A g \in LiveFolders \ {Root} :
             folders[g].parent \in LiveFolders /\ folders[g].path = FolderPath(folders[g].parent, folders[g].name)
        /\ \A g, h \in LiveFolders : folders[g].path = folders[h].path => g = h
    BY DEF MemoryInv, TreeIsSound
  <2>2. \A e \in LiveDocs : docs[e].folder \in LiveFolders /\ docs[e].path = DocPath(docs[e].folder, docs[e].title)
    BY DEF MemoryInv, TreeIsSound
  <2>3. \A e, g \in LiveDocs : docs[e].path = docs[g].path => e = g
    BY DEF MemoryInv, TreeIsSound
  <2>4. \A e \in LiveDocs' : docs'[e].folder \in LiveFolders /\ docs'[e].path = DocPath(docs'[e].folder, docs'[e].title)
    BY <2>2, <1>3, <1>8 DEF LiveDocs
  <2>5. \A e, g \in LiveDocs' : docs'[e].path = docs'[g].path => e = g
    BY <2>3, <1>3, <1>5, <1>8 DEF LiveDocs
  <2>6. \A g, x : FolderPath(g, x)' = FolderPath(g, x)
    BY DEF FolderPath
  <2> QED BY <2>1, <2>4, <2>5, <2>6, <1>6 DEF TreeIsSound
<1>11. IndexIsCurrent'
  <2>1. entry = [title |-> row.title, content |-> row.content]
    BY <1>3 DEF entry
  <2> QED BY <2>1, <1>8 DEF MemoryInv, IndexIsCurrent
<1>12. Nested(deleting, folders, docs)'
  BY DEF Nested
<1> QED BY <1>7, <1>9, <1>11, <1>12 DEF MemoryInv

\* Documents that are deleted take their entries with them.
LEMMA DropKeeps ==
  ASSUME MemoryInv, NEW gone, Drop(gone), UNCHANGED folders, deleting' \in Seq(Deletion), writes' \in Nat
  PROVE  /\ TablesAreTyped' /\ TreeIsSound' /\ IndexIsCurrent'
         /\ \A d \in Docs : docs'[d] = IF d \in gone THEN None ELSE docs[d]
<1>1. TablesAreTyped'
  BY DEF MemoryInv, TablesAreTyped, Drop
<1>2. /\ LiveDocs' = LiveDocs \ gone
      /\ \A d \in Docs \ gone : docs'[d] = docs[d] /\ fts'[d] = fts[d]
      /\ \A d \in Docs \cap gone : docs'[d] = None /\ fts'[d] = None
  BY DEF Drop, LiveDocs
<1>3. LiveFolders' = LiveFolders /\ \A g, x : DocPath(g, x)' = DocPath(g, x) /\ FolderPath(g, x)' = FolderPath(g, x)
  BY DEF LiveFolders, DocPath, FolderPath
<1>4. TreeIsSound'
  BY <1>2, <1>3 DEF MemoryInv, TreeIsSound, LiveDocs
<1>5. IndexIsCurrent'
  BY <1>2 DEF MemoryInv, IndexIsCurrent
<1> QED BY <1>1, <1>2, <1>4, <1>5

LEMMA CreateFolderStep ==
  ASSUME MemoryInv, NEW f \in Folders, NEW name \in Names, NEW parent, NEW v \in Visibilities, NEW role,
         CreateFolder(f, name, parent, v, role)
  PROVE  MemoryInv'
<1>0. /\ parent \in LiveFolders /\ deleting = << >> /\ UNCHANGED <<docs, fts, deleting>> /\ writes' \in Nat
  BY DEF CreateFolder, Writing, MemoryInv, TablesAreTyped
<1>1. CASE UNCHANGED folders
  BY <1>0, <1>1 DEF MemoryInv, TablesAreTyped, TreeIsSound, IndexIsCurrent, LiveFolders, LiveDocs,
      FolderPath, DocPath
<1>2. CASE /\ \A g \in LiveFolders : folders[g].path # FolderPath(parent, name)
           /\ f \notin LiveFolders /\ NewFolder(f, name, parent, v)
  <2> DEFINE path == FolderPath(parent, name)
             row == [name |-> name, parent |-> parent, visibility |-> v, path |-> path]
  <2>1. parent \in Folders /\ folders[parent] \in FolderRow
    BY <1>0, RootIsThere DEF MemoryInv, LiveFolders
  <2>2. path \in Seq(Names)
    BY <2>1 DEF FolderRow, FolderPath
  <2>3. row \in FolderRow /\ row # None
    BY <2>1, <2>2, MemoryAssumption DEF FolderRow
  <2>4. row.name = name /\ row.parent = parent /\ row.path = path
    OBVIOUS
  <2>5. folders' = [folders EXCEPT ![f] = row]
    BY <1>2 DEF NewFolder
  <2>6. f # Root /\ f # parent
    BY <1>0, <1>2, RootIsThere DEF MemoryInv
  <2> HIDE DEF row
  <2>7. TablesAreTyped'
    BY <2>3, <2>5, <2>6, <1>0, MemoryAssumption DEF MemoryInv, TablesAreTyped
  <2>8. /\ LiveFolders' = LiveFolders \cup {f} /\ folders'[f] = row
        /\ \A g \in Folders \ {f} : folders'[g] = folders[g]
    BY <2>3, <2>5 DEF MemoryInv, TablesAreTyped, LiveFolders
  <2>9. \A g \in LiveFolders : FolderPath(g, name)' = FolderPath(g, name) /\ g # f
    BY <2>8, <1>2 DEF FolderPath, LiveFolders
  <2>10. TreeIsSound'
    <3>1. ASSUME NEW g \in LiveFolders', g # Root
          PROVE  /\ folders'[g].parent \in LiveFolders'
                 /\ folders'[g].path = Append(folders'[folders'[g].parent].path, folders'[g].name)
      <4>1. \A h \in LiveFolders \ {Root} :
              folders[h].parent \in LiveFolders /\ folders[h].path = FolderPath(folders[h].parent, folders[h].name)
        BY DEF MemoryInv, TreeIsSound
      <4>2. CASE g = f
        BY <4>2, <2>4, <2>6, <2>8, <1>0 DEF FolderPath, LiveFolders
      <4>3. CASE g # f
        <5>1. g \in LiveFolders /\ folders'[g] = folders[g]
          BY <4>3, <2>8 DEF LiveFolders
        <5>2. folders[g].parent \in LiveFolders /\ folders[g].parent # f
          BY <3>1, <4>1, <5>1, <1>2
        <5>3. folders'[folders[g].parent] = folders[folders[g].parent]
          BY <5>2, <2>8 DEF LiveFolders
        <5> QED BY <3>1, <4>1, <5>1, <5>2, <5>3, <2>8 DEF FolderPath
      <4> QED BY <4>2, <4>3
    <3>2. \A d \in LiveDocs : docs[d].folder \in LiveFolders' /\ docs[d].path = Append(folders'[docs[d].folder].path, docs[d].title)
      <4>1. \A d \in LiveDocs : docs[d].folder \in LiveFolders /\ docs[d].path = DocPath(docs[d].folder, docs[d].title)
        BY DEF MemoryInv, TreeIsSound
      <4> QED BY <4>1, <2>8, <1>2 DEF DocPath, LiveFolders
    <3>3. \A g, h \in LiveFolders' : folders'[g].path = folders'[h].path => g = h
      <4>1. \A g, h \in LiveFolders : folders[g].path = folders[h].path => g = h
        BY DEF MemoryInv, TreeIsSound
      <4> QED BY <4>1, <2>4, <2>8, <1>2 DEF LiveFolders
    <3>4. LiveDocs' = LiveDocs /\ \A d, e \in LiveDocs : docs[d].path = docs[e].path => d = e
      BY <1>0 DEF MemoryInv, TreeIsSound, LiveDocs
    <3> QED BY <3>1, <3>2, <3>3, <3>4, <1>0 DEF TreeIsSound, FolderPath, DocPath
  <2>11. IndexIsCurrent'
    BY <1>0 DEF MemoryInv, IndexIsCurrent, LiveDocs
  <2>12. Nested(deleting, folders, docs)'
    BY <1>0 DEF Nested
  <2> QED BY <2>7, <2>10, <2>11, <2>12 DEF MemoryInv
<1> QED BY <1>1, <1>2 DEF CreateFolder

LEMMA UpdateFolderStep ==
  ASSUME MemoryInv, NEW f \in Folders, NEW v \in Visibilities, NEW role, UpdateFolder(f, v, role)
  PROVE  MemoryInv'
<1>0. /\ f \in LiveFolders /\ deleting = << >> /\ UNCHANGED <<docs, fts, deleting>> /\ writes' \in Nat
      /\ folders' = [folders EXCEPT ![f].visibility = v]
  BY DEF UpdateFolder, Writing, MemoryInv, TablesAreTyped
<1> DEFINE row == [folders[f] EXCEPT !.visibility = v]
<1>1. folders[f] \in FolderRow
  BY <1>0, RootIsThere DEF MemoryInv
<1>2. row \in FolderRow /\ row # None
  BY <1>1, MemoryAssumption DEF FolderRow
<1>3. row.name = folders[f].name /\ row.parent = folders[f].parent /\ row.path = folders[f].path
  BY <1>1
<1>4. folders' = [folders EXCEPT ![f] = row]
  BY <1>0
<1> HIDE DEF row
<1>5. TablesAreTyped'
  BY <1>0, <1>2, <1>3, <1>4 DEF MemoryInv, TablesAreTyped
<1>6. /\ LiveFolders' = LiveFolders
      /\ \A g \in LiveFolders : /\ folders'[g].name = folders[g].name /\ folders'[g].parent = folders[g].parent
                                /\ folders'[g].path = folders[g].path
  BY <1>0, <1>2, <1>3, <1>4 DEF LiveFolders
<1>7. \A g \in LiveFolders : \A x : FolderPath(g, x)' = FolderPath(g, x) /\ DocPath(g, x)' = DocPath(g, x)
  BY <1>6 DEF FolderPath, DocPath
<1>8. TreeIsSound'
  BY <1>0, <1>6, <1>7 DEF MemoryInv, TreeIsSound, LiveDocs
<1>9. IndexIsCurrent'
  BY <1>0 DEF MemoryInv, IndexIsCurrent, LiveDocs
<1>10. Nested(deleting, folders, docs)'
  BY <1>0 DEF Nested
<1> QED BY <1>5, <1>8, <1>9, <1>10 DEF MemoryInv

(* The calls of deleteFolder. ***********************************************)

\* A call that is back in its loop goes on with the next child, of those that
\* are left.
LEMMA NextChildNests ==
  ASSUME NEW calls \in Seq(Deletion), calls # << >>, NEW rows, NEW of, Nested(calls, rows, of),
         calls[1].at = "children",
         PathsGrow(rows), rows[Root].parent = None
  PROVE  NextChild(calls) \in Seq(Deletion) /\ Nested(NextChild(calls), rows, of)
<1> DEFINE call == Head(calls)
           g == CHOOSE child \in call.left : TRUE
           back == [call EXCEPT !.left = @ \ {g}]
           next == <<Deleting(g), back>> \o Tail(calls)
<1>0. call = calls[1] /\ call \in Deletion /\ Len(calls) \in Nat /\ Len(calls) > 0 /\ Tail(calls) \in Seq(Deletion)
  OBVIOUS
<1>1. CASE call.left = {}
  BY <1>1 DEF NextChild
<1>2. CASE call.left # {}
  <2>1. g \in call.left
    BY <1>2
  <2>2. g \in Kids(rows, call.folder) /\ g \in Folders /\ rows[g] # None /\ rows[g].parent = call.folder
    BY <2>1, <1>0 DEF Nested, NestedAt, Kids
  <2>3. g # Root
    BY <2>2, <1>0, MemoryAssumption DEF Deletion
  <2> HIDE DEF g
  <2>4. back \in Deletion /\ back.folder = call.folder /\ back.at = "children" /\ back.left = call.left \ {g}
    BY <1>0 DEF Deletion
  <2>5. Deleting(g) \in Deletion /\ Deleting(g).folder = g /\ Deleting(g).at = "documents" /\ Deleting(g).left = {}
    BY <2>2 DEF Deleting, Deletion
  <2> HIDE DEF back
  <2>6. /\ next \in Seq(Deletion) /\ Len(next) = Len(calls) + 1
        /\ next[1] = Deleting(g) /\ next[2] = back
        /\ \A i \in 3..Len(next) : next[i] = calls[i - 1]
    <3>1. <<Deleting(g), back>> \in Seq(Deletion) /\ Len(<<Deleting(g), back>>) = 2
      BY <2>4, <2>5
    <3>2. Len(Tail(calls)) = Len(calls) - 1 /\ \A i \in 1..Len(Tail(calls)) : Tail(calls)[i] = calls[i + 1]
      BY <1>0
    <3>3. next \in Seq(Deletion) /\ Len(next) = 2 + Len(Tail(calls))
      BY <3>1, <1>0
    <3>4. \A i \in 3..Len(next) : next[i] = Tail(calls)[i - 2]
      BY <3>1, <3>3, <1>0
    <3> QED BY <3>1, <3>2, <3>3, <3>4, <1>0
  <2> HIDE DEF next
  <2>7. NextChild(calls) = next
    BY <1>2 DEF NextChild, next, g, back
  <2>8. \A i \in 2..Len(next) :
          next[i].folder = calls[i - 1].folder /\ next[i].at = calls[i - 1].at
    BY <2>4, <2>6, <1>0
  <2>9. Len(rows[g].path) = Len(rows[call.folder].path) + 1
    BY <2>2, <2>3 DEF PathsGrow
  <2>10. \A j \in 2..Len(next) : Len(rows[next[j].folder].path) < Len(rows[g].path)
    <3>1. \A j \in 2..Len(calls) : Len(rows[calls[j].folder].path) < Len(rows[call.folder].path)
      BY <1>0 DEF Nested, NestedAt
    <3>2. \A j \in 1..Len(calls) : calls[j] \in Deletion /\ rows[calls[j].folder] # None
      BY DEF Nested, NestedAt
    <3>3. \A j \in 1..Len(calls) : Len(rows[calls[j].folder].path) \in Nat
      BY <3>2
    <3>4. ASSUME NEW j \in 1..Len(calls)
          PROVE  Len(rows[calls[j].folder].path) < Len(rows[g].path)
      <4>1. CASE j = 1
        BY <4>1, <3>3, <2>9, <1>0
      <4>2. CASE j # 1
        <5>1. Len(rows[call.folder].path) \in Nat
          BY <3>3, <1>0
        <5>2. Len(rows[calls[j].folder].path) < Len(rows[call.folder].path)
          BY <4>2, <3>1, <1>0
        <5>3. Len(rows[calls[j].folder].path) \in Nat
          BY <3>3
        <5> DEFINE a == Len(rows[calls[j].folder].path)
                   b == Len(rows[call.folder].path)
        <5>4. a \in Nat /\ b \in Nat /\ a < b /\ Len(rows[g].path) = b + 1
          BY <5>1, <5>2, <5>3, <2>9
        <5> HIDE DEF a, b
        <5>5. a < Len(rows[g].path)
          BY <5>4
        <5> QED BY <5>5 DEF a
      <4> QED BY <4>1, <4>2
    <3> QED BY <3>4, <2>6, <2>8
  <2>11. Nested(next, rows, of)
    <3> SUFFICES ASSUME NEW i \in 1..Len(next)
                 PROVE  NestedAt(next, i, rows, of)
      BY DEF Nested
    <3>1. CASE i = 1
      BY <3>1, <2>2, <2>3, <2>5, <2>6, <2>10 DEF NestedAt
    <3>2. CASE i = 2
      <4>1. \A j \in 1..Len(next) : i < j => Len(rows[next[j].folder].path) < Len(rows[next[i].folder].path)
        <5>1. NestedAt(calls, 1, rows, of)
          BY <1>0 DEF Nested
        <5>2. \A j \in 1..Len(calls) : 1 < j => Len(rows[calls[j].folder].path) < Len(rows[call.folder].path)
          BY <5>1, <1>0 DEF NestedAt
        <5>3. ASSUME NEW j \in 3..Len(next)
              PROVE  j - 1 \in 1..Len(calls) /\ 1 < j - 1 /\ next[j].folder = calls[j - 1].folder
          <6>1. Len(calls) \in Nat /\ Len(next) = Len(calls) + 1
            BY <2>6, <1>0
          <6> DEFINE m == Len(calls)
                     n == Len(next)
          <6>2. j \in 3..n /\ m \in Nat /\ n = m + 1
            BY <6>1
          <6>3. next[j].folder = calls[j - 1].folder
            BY <2>8
          <6> HIDE DEF m, n
          <6>4. j - 1 \in 1..m /\ 1 < j - 1
            BY <6>2
          <6> QED BY <6>3, <6>4 DEF m
        <5> QED BY <3>2, <5>2, <5>3, <2>4, <2>6
      <4>2. /\ rows[call.folder] # None /\ call.folder # Root /\ call.left \subseteq Kids(rows, call.folder)
            /\ \A d \in Docs : of[d] # None => of[d].folder # call.folder
            /\ \A h \in Kids(rows, call.folder) : h \in call.left
        BY <1>0 DEF Nested, NestedAt
      <4> QED BY <3>2, <4>1, <4>2, <2>2, <2>4, <2>5, <2>6, <2>8, <1>0 DEF NestedAt
    <3>3. CASE i > 2
      <4> DEFINE k == i - 1
      <4>1. /\ next[i] = calls[k] /\ next[i - 1].folder = calls[k - 1].folder
            /\ k \in 1..Len(calls) /\ k > 1 /\ i > 1
        <5>1. Len(calls) \in Nat /\ Len(next) = Len(calls) + 1 /\ i \in 1..Len(next)
          BY <2>6, <1>0
        <5> DEFINE m == Len(calls)
                   n == Len(next)
        <5>2. m \in Nat /\ n = m + 1 /\ i \in 1..n
          BY <5>1
        <5> HIDE DEF m, n
        <5>3. i \in 3..n /\ k \in 1..m /\ k > 1 /\ i > 1 /\ i - 1 \in 2..n /\ k - 1 = i - 2
          BY <3>3, <5>2
        <5>4. next[i] = calls[k]
          BY <5>3, <2>6 DEF n
        <5>5. next[i - 1].folder = calls[i - 2].folder
          <6>1. (i - 1) - 1 = i - 2
            BY <3>3
          <6>2. i - 1 \in 2..Len(next)
            BY <5>3 DEF n
          <6> QED BY <6>1, <6>2, <2>8
        <5> QED BY <5>3, <5>4, <5>5 DEF m
      <4>2. \A j \in 1..Len(next) : i < j => j - 1 \in 1..Len(calls) /\ k < j - 1 /\ next[j].folder = calls[j - 1].folder
        BY <3>3, <2>6, <2>8
      <4>3. NestedAt(calls, k, rows, of)
        BY <4>1 DEF Nested
      <4> HIDE DEF k
      <4> QED BY <4>1, <4>2, <4>3 DEF NestedAt
    <3> QED BY <3>1, <3>2, <3>3, <2>6
  <2> QED BY <2>6, <2>7, <2>11
<1> QED BY <1>1, <1>2

LEMMA PathsDoGrow ==
  ASSUME TablesAreTyped, TreeIsSound
  PROVE  PathsGrow(folders)
<1>1. \A f \in LiveFolders : folders[f].path \in Seq(Names)
  BY RootIsThere DEF FolderRow
<1>2. \A f \in LiveFolders \ {Root} :
        folders[f].parent \in LiveFolders /\ folders[f].path = Append(folders[folders[f].parent].path, folders[f].name)
  BY DEF TreeIsSound, FolderPath
<1>3. \A f \in LiveFolders : Len(folders[f].path) \in Nat
  BY <1>1
<1>4. ASSUME NEW f \in LiveFolders, f # Root
      PROVE  Len(folders[f].path) = Len(folders[folders[f].parent].path) + 1
  <2>1. folders[folders[f].parent].path \in Seq(Names) /\ folders[f].path = Append(folders[folders[f].parent].path, folders[f].name)
    BY <1>1, <1>2, <1>4
  <2> QED BY <2>1
<1> QED BY <1>3, <1>4 DEF PathsGrow, LiveFolders

LEMMA DeleteFolderBeginsStep ==
  ASSUME MemoryInv, NEW f \in Folders, NEW role, DeleteFolderBegins(f, role)
  PROVE  MemoryInv'
<1>1. /\ f \in LiveFolders /\ f # Root /\ deleting' = <<Deleting(f)>> /\ UNCHANGED <<folders, docs, fts>>
      /\ writes' \in Nat
  BY DEF DeleteFolderBegins, Writing, MemoryInv, TablesAreTyped
<1>2. Deleting(f) \in Deletion /\ Deleting(f).folder = f /\ Deleting(f).at = "documents" /\ Deleting(f).left = {}
  BY DEF Deleting, Deletion
<1>3. deleting' \in Seq(Deletion) /\ Len(deleting') = 1 /\ deleting'[1] = Deleting(f)
  BY <1>1, <1>2
<1>4. Nested(deleting, folders, docs)'
  BY <1>1, <1>2, <1>3 DEF Nested, NestedAt, LiveFolders
<1>5. TablesAreTyped'
  BY <1>1, <1>3 DEF MemoryInv, TablesAreTyped
<1>6. TreeIsSound' /\ IndexIsCurrent'
  BY <1>1 DEF MemoryInv, TreeIsSound, IndexIsCurrent, LiveFolders, LiveDocs, FolderPath, DocPath
<1> QED BY <1>4, <1>5, <1>6 DEF MemoryInv

LEMMA DeleteFolderCutStep ==
  ASSUME MemoryInv, DeleteFolderCut
  PROVE  MemoryInv'
<1>1. deleting' = << >> /\ UNCHANGED <<folders, docs, fts, writes>>
  BY DEF DeleteFolderCut
<1>2. Nested(deleting, folders, docs)'
  BY <1>1 DEF Nested
<1>3. TablesAreTyped'
  BY <1>1 DEF MemoryInv, TablesAreTyped
<1>4. TreeIsSound' /\ IndexIsCurrent'
  BY <1>1 DEF MemoryInv, TreeIsSound, IndexIsCurrent, LiveFolders, LiveDocs, FolderPath, DocPath
<1> QED BY <1>2, <1>3, <1>4 DEF MemoryInv

LEMMA DeleteDocumentsStep ==
  ASSUME MemoryInv, deleting # << >>, DeleteDocuments, UNCHANGED writes
  PROVE  MemoryInv'
<1> DEFINE call == Head(deleting)
           read == [call EXCEPT !.at = "children", !.left = Children(call.folder)]
           calls == <<read>> \o Tail(deleting)
           gone == {d \in LiveDocs : docs[d].folder = call.folder}
<1>1. deleting \in Seq(Deletion) /\ call = deleting[1] /\ call \in Deletion /\ Len(deleting) \in Nat \ {0}
  BY DEF MemoryInv, TablesAreTyped
<1>2. call.at = "documents" /\ Drop(gone) /\ deleting' = NextChild(calls) /\ UNCHANGED folders
  BY DEF DeleteDocuments
<1>3. read \in Deletion /\ read.folder = call.folder /\ read.at = "children" /\ read.left = Kids(folders, call.folder)
  <2>1. Children(call.folder) = Kids(folders, call.folder) /\ Children(call.folder) \subseteq Folders
    BY DEF Children, Kids, LiveFolders
  <2> HIDE DEF call
  <2> QED BY <1>1, <2>1 DEF Deletion
<1> HIDE DEF read
<1>4. /\ calls \in Seq(Deletion) /\ calls # << >> /\ calls[1] = read /\ Len(calls) = Len(deleting)
      /\ \A i \in 2..Len(calls) : calls[i] = deleting[i]
  <2>1. <<read>> \in Seq(Deletion) /\ Len(<<read>>) = 1
    BY <1>3
  <2>2. /\ Tail(deleting) \in Seq(Deletion) /\ Len(Tail(deleting)) = Len(deleting) - 1
        /\ \A i \in 1..Len(Tail(deleting)) : Tail(deleting)[i] = deleting[i + 1]
    BY <1>1
  <2>3. calls \in Seq(Deletion) /\ Len(calls) = 1 + Len(Tail(deleting)) /\ calls[1] = read
    BY <2>1, <2>2
  <2>4. \A i \in 2..Len(calls) : calls[i] = Tail(deleting)[i - 1]
    BY <2>1, <2>2, <2>3
  <2> QED BY <2>2, <2>3, <2>4, <1>1
<1> HIDE DEF calls
<1>5. \A i \in 1..Len(calls) : calls[i].folder = deleting[i].folder
  BY <1>1, <1>3, <1>4
<1>6. \A d \in Docs : docs'[d] # None => docs'[d] = docs[d] /\ docs[d].folder # call.folder
  BY <1>2 DEF Drop, LiveDocs
<1>7. Nested(calls, folders, docs')
  <2> SUFFICES ASSUME NEW i \in 1..Len(calls)
               PROVE  NestedAt(calls, i, folders, docs')
    BY DEF Nested
  <2>1. NestedAt(deleting, i, folders, docs)
    BY <1>4 DEF MemoryInv, Nested
  <2>2. CASE i = 1
    BY <2>1, <2>2, <1>1, <1>3, <1>4, <1>5, <1>6 DEF NestedAt
  <2>3. CASE i # 1
    <3> DEFINE k == i - 1
    <3>1. i > 1 /\ calls[i] = deleting[i] /\ k \in 1..Len(calls) /\ calls[k].folder = deleting[k].folder
      BY <2>3, <1>4, <1>5
    <3> HIDE DEF k
    <3> QED BY <2>1, <3>1, <1>4, <1>5, <1>6 DEF NestedAt
  <2> QED BY <2>2, <2>3
<1>8. PathsGrow(folders) /\ folders[Root].parent = None
  BY PathsDoGrow DEF MemoryInv, TablesAreTyped
<1>9. deleting' \in Seq(Deletion) /\ Nested(deleting', folders, docs')
  BY <1>2, <1>3, <1>4, <1>7, <1>8, NextChildNests
<1>10. TablesAreTyped' /\ TreeIsSound' /\ IndexIsCurrent'
  BY <1>2, <1>9, DropKeeps DEF MemoryInv, TablesAreTyped
<1> QED BY <1>2, <1>9, <1>10 DEF MemoryInv

LEMMA DeleteRowStep ==
  ASSUME MemoryInv, deleting # << >>, DeleteRow, UNCHANGED writes
  PROVE  MemoryInv'
<1> DEFINE call == Head(deleting)
           f == call.folder
           rest == Tail(deleting)
<1>0. deleting \in Seq(Deletion) /\ call = deleting[1] /\ call \in Deletion /\ Len(deleting) \in Nat \ {0}
  BY DEF MemoryInv, TablesAreTyped
<1>1. /\ deleting \in Seq(Deletion) /\ call = deleting[1] /\ call \in Deletion /\ Len(deleting) \in Nat \ {0}
      /\ f \in Folders
  <2> HIDE DEF call
  <2> QED BY <1>0 DEF Deletion
<1>2. /\ call.at = "children" /\ call.left = {} /\ folders' = [folders EXCEPT ![f] = None]
      /\ UNCHANGED <<docs, fts>> /\ deleting' = IF rest = << >> THEN << >> ELSE NextChild(rest)
  BY DEF DeleteRow
<1>3. /\ rest \in Seq(Deletion) /\ Len(rest) = Len(deleting) - 1
      /\ \A i \in 1..Len(rest) : rest[i] = deleting[i + 1]
  BY <1>1
<1> HIDE DEF rest
<1>4. /\ folders[f] # None /\ f # Root /\ \A g \in Folders : g \notin Kids(folders, f)
      /\ \A d \in LiveDocs : docs[d].folder # f
      /\ \A j \in 2..Len(deleting) : Len(folders[deleting[j].folder].path) < Len(folders[f].path)
  <2>1. NestedAt(deleting, 1, folders, docs)
    BY <1>1 DEF MemoryInv, Nested
  <2> QED BY <2>1, <1>1, <1>2 DEF NestedAt, LiveDocs
<1>5. PathsGrow(folders)
  BY PathsDoGrow DEF MemoryInv
<1> HIDE DEF call, f
<1>6. \A i \in 1..Len(rest) : rest[i].folder # f
  <2>1. Len(folders[f].path) \in Nat
    BY <1>1, <1>4, <1>5
  <2>2. \A j \in 2..Len(deleting) : deleting[j].folder # f
    BY <2>1, <1>4
  <2> QED BY <2>2, <1>1, <1>3
<1>7. /\ \A g \in Folders \ {f} : folders'[g] = folders[g]
      /\ folders'[f] = None
      /\ LiveFolders' = LiveFolders \ {f}
  BY <1>1, <1>2 DEF MemoryInv, TablesAreTyped, LiveFolders
<1>8. \A g \in Folders : Kids(folders', g) = Kids(folders, g) \ {f}
  BY <1>7 DEF Kids
<1>9. TreeIsSound'
  <2>1. \A g \in LiveFolders' \ {Root} :
          /\ g \in LiveFolders \ {Root} /\ folders[g].parent \in LiveFolders /\ folders[g].parent # f
          /\ folders[g].path = FolderPath(folders[g].parent, folders[g].name)
    BY <1>4, <1>7 DEF MemoryInv, TreeIsSound, Kids, LiveFolders
  <2>2. \A g \in LiveFolders' \ {Root} :
          folders'[g].parent \in LiveFolders' /\ folders'[g].path = FolderPath(folders[g].parent, folders[g].name)'
    BY <2>1, <1>2, <1>7 DEF FolderPath
  <2>3. \A d \in LiveDocs : docs[d].folder \in LiveFolders' /\ docs[d].path = DocPath(docs[d].folder, docs[d].title)'
    BY <1>2, <1>4, <1>7 DEF MemoryInv, TreeIsSound, DocPath
  <2> QED BY <2>2, <2>3, <1>2, <1>7 DEF MemoryInv, TreeIsSound, LiveDocs
<1>10. IndexIsCurrent'
  BY <1>2 DEF MemoryInv, IndexIsCurrent, LiveDocs
<1>11. CASE rest = << >>
  <2>1. deleting' = << >>
    BY <1>2, <1>11
  <2>2. TablesAreTyped'
    BY <2>1, <1>2, <1>4, <1>7 DEF MemoryInv, TablesAreTyped
  <2>3. Nested(deleting, folders, docs)'
    BY <2>1 DEF Nested
  <2> QED BY <2>2, <2>3, <1>9, <1>10 DEF MemoryInv
<1>12. CASE rest # << >>
  <2>1. Nested(rest, folders', docs)
    <3> SUFFICES ASSUME NEW i \in 1..Len(rest)
                 PROVE  NestedAt(rest, i, folders', docs)
      BY DEF Nested
    <3> DEFINE k == i + 1
    <3>1. k \in 2..Len(deleting) /\ rest[i] = deleting[k] /\ k - 1 = i /\ k > 1
      BY <1>1, <1>3
    <3>2. NestedAt(deleting, k, folders, docs)
      BY <3>1 DEF MemoryInv, Nested
    <3>3. rest[i].folder # f /\ rest[i].folder \in Folders /\ rest[i] \in Deletion
      <4>1. rest[i] \in Deletion
        BY <1>3
      <4> QED BY <4>1, <1>6 DEF Deletion
    <3>4. \A j \in 1..Len(rest) : i < j =>
            Len(folders'[rest[j].folder].path) < Len(folders'[rest[i].folder].path)
      <4>1. \A j \in 1..Len(rest) : folders'[rest[j].folder] = folders[rest[j].folder]
        <5>1. \A j \in 1..Len(rest) : rest[j] \in Deletion
          BY <1>3
        <5> QED BY <5>1, <1>6, <1>7 DEF Deletion
      <4>2. \A j \in 1..Len(rest) : i < j => j + 1 \in 1..Len(deleting) /\ k < j + 1 /\ rest[j] = deleting[j + 1]
        BY <1>1, <1>3
      <4> QED BY <3>1, <3>2, <4>1, <4>2 DEF NestedAt
    <3>5. CASE i = 1
      <4>1. deleting[k - 1].folder = f
        BY <3>1, <3>5, <1>1 DEF f
      <4> HIDE DEF k
      <4> QED BY <3>1, <3>2, <3>3, <3>4, <3>5, <4>1, <1>7, <1>8 DEF NestedAt
    <3>6. CASE i # 1
      <4>1. i > 1 /\ i - 1 \in 1..Len(rest) /\ deleting[k - 1] = rest[i - 1] /\ rest[i - 1].folder # f
        BY <3>6, <1>3, <1>6, <1>1
      <4>2. f \notin rest[i].left
        <5>1. rest[i].left \subseteq Kids(folders, rest[i].folder)
          BY <3>1, <3>2 DEF NestedAt
        <5>2. folders[f].parent = deleting[2].folder
          <6>1. NestedAt(deleting, 2, folders, docs)
            BY <3>1 DEF MemoryInv, Nested
          <6> QED BY <6>1, <1>1 DEF NestedAt, Kids, f
        <5>3. deleting[2].folder # rest[i].folder
          <6>1. rest[1] = deleting[2] /\ 1 \in 1..Len(rest) /\ 2 \in 1..Len(deleting) /\ 2 < k
            BY <4>1, <3>1, <1>3
          <6>2. NestedAt(deleting, 2, folders, docs)
            BY <6>1 DEF MemoryInv, Nested
          <6>3. Len(folders[deleting[k].folder].path) < Len(folders[deleting[2].folder].path)
            BY <6>1, <6>2, <3>1 DEF NestedAt
          <6>4. Len(folders[deleting[k].folder].path) \in Nat
            BY <3>1, <3>2, <3>3, <1>5
          <6> QED BY <6>3, <6>4, <3>1
        <5> QED BY <5>1, <5>2, <5>3 DEF Kids
      <4> HIDE DEF k
      <4> QED BY <3>1, <3>2, <3>3, <3>4, <4>1, <4>2, <1>7, <1>8 DEF NestedAt
    <3> QED BY <3>5, <3>6
  <2>2. PathsGrow(folders') /\ folders'[Root].parent = None
    <3>1. \A g \in Folders : folders'[g] # None => folders'[g] = folders[g] /\ g # f /\ (g # Root => folders[g].parent # f)
      BY <1>4, <1>7 DEF Kids
    <3>2. \A g \in LiveFolders \ {Root} : folders[g].parent \in Folders
      BY DEF MemoryInv, TreeIsSound, LiveFolders
    <3>3. PathsGrow(folders')
      <4> SUFFICES ASSUME NEW g \in Folders, folders'[g] # None
                   PROVE  /\ Len(folders'[g].path) \in Nat
                          /\ g # Root => Len(folders'[g].path) = Len(folders'[folders'[g].parent].path) + 1
        BY DEF PathsGrow
      <4>1. folders'[g] = folders[g] /\ folders[g] # None /\ (g # Root => folders[g].parent # f)
        BY <3>1
      <4>2. g # Root => folders'[folders[g].parent] = folders[folders[g].parent]
        BY <3>2, <4>1, <1>7 DEF LiveFolders
      <4> QED BY <4>1, <4>2, <1>5 DEF PathsGrow
    <3>4. folders'[Root] = folders[Root]
      BY <1>4, <1>7, MemoryAssumption
    <3> QED BY <3>3, <3>4 DEF MemoryInv, TablesAreTyped
  <2>3. rest[1].at = "children"
    <3>1. 2 \in 1..Len(deleting) /\ rest[1] = deleting[2] /\ NestedAt(deleting, 2, folders, docs)
      BY <1>1, <1>3, <1>12 DEF MemoryInv, Nested
    <3> QED BY <3>1 DEF NestedAt
  <2>4. deleting' \in Seq(Deletion) /\ Nested(deleting', folders', docs)
    BY <2>1, <2>2, <2>3, <1>2, <1>3, <1>12, NextChildNests
  <2>5. TablesAreTyped'
    BY <2>4, <1>2, <1>4, <1>7 DEF MemoryInv, TablesAreTyped
  <2> QED BY <2>4, <2>5, <1>2, <1>9, <1>10 DEF MemoryInv
<1> QED BY <1>11, <1>12

(* Requests about documents, and the server's steps together. ***************)

LEMMA CreateDocumentStep ==
  ASSUME MemoryInv, NEW d \in Docs, NEW f, NEW t \in Titles, NEW c \in Versions \cup {None}, NEW role,
         CreateDocument(d, f, t, c, role)
  PROVE  MemoryInv'
<1>1. deleting = << >> /\ writes' \in Nat /\ f \in LiveFolders
  BY DEF CreateDocument, Writing, MemoryInv, TablesAreTyped
<1> QED BY <1>1, PutKeeps DEF CreateDocument

LEMMA UpdateDocumentStep ==
  ASSUME MemoryInv, NEW d \in Docs, NEW f, NEW t \in Titles, NEW c \in Versions \cup {None}, NEW role,
         UpdateDocument(d, f, t, c, role)
  PROVE  MemoryInv'
<1>1. deleting = << >> /\ writes' \in Nat /\ f \in LiveFolders
  BY DEF UpdateDocument, Writing, MemoryInv, TablesAreTyped
<1> QED BY <1>1, PutKeeps DEF UpdateDocument

LEMMA DeleteDocumentStep ==
  ASSUME MemoryInv, NEW d, NEW role, DeleteDocument(d, role)
  PROVE  MemoryInv'
<1>1. deleting = << >> /\ deleting' = << >> /\ writes' \in Nat /\ Drop({d}) /\ UNCHANGED folders
  BY DEF DeleteDocument, Writing, MemoryInv, TablesAreTyped
<1>2. TablesAreTyped' /\ TreeIsSound' /\ IndexIsCurrent'
  BY <1>1, DropKeeps
<1>3. Nested(deleting, folders, docs)'
  BY <1>1 DEF Nested
<1> QED BY <1>2, <1>3 DEF MemoryInv

LEMMA MemoryStutters ==
  ASSUME MemoryInv, UNCHANGED memoryVars
  PROVE  MemoryInv'
BY DEF memoryVars, MemoryInv, TablesAreTyped, TreeIsSound, IndexIsCurrent, LiveFolders, LiveDocs,
    FolderPath, DocPath, NestedAt, Kids

LEMMA MemoryStep ==
  ASSUME MemoryInv, MemoryNext
  PROVE  MemoryInv'
<1>1. ASSUME NEW f \in Folders, NEW p \in Folders, NEW n \in Names, NEW v \in Visibilities, NEW role \in Roles,
             CreateFolder(f, n, p, v, role)
      PROVE  MemoryInv'
  BY <1>1, CreateFolderStep
<1>2. ASSUME DeleteStatement
      PROVE  MemoryInv'
  BY <1>2, DeleteDocumentsStep, DeleteRowStep DEF DeleteStatement
<1>3. ASSUME NEW f \in Folders, NEW v \in Visibilities, NEW role \in Roles, UpdateFolder(f, v, role)
      PROVE  MemoryInv'
  BY <1>3, UpdateFolderStep
<1>4. ASSUME NEW f \in Folders, NEW role \in Roles, DeleteFolderBegins(f, role)
      PROVE  MemoryInv'
  BY <1>4, DeleteFolderBeginsStep
<1>5. CASE DeleteFolderCut
  BY <1>5, DeleteFolderCutStep
<1>6. ASSUME NEW d \in Docs, NEW f \in Folders, NEW t \in Titles, NEW c \in Versions, NEW role \in Roles,
             CreateDocument(d, f, t, c, role) \/ UpdateDocument(d, f, t, c, role)
      PROVE  MemoryInv'
  BY <1>6, CreateDocumentStep, UpdateDocumentStep
<1>7. ASSUME NEW d \in Docs, NEW role \in Roles, DeleteDocument(d, role)
      PROVE  MemoryInv'
  BY <1>7, DeleteDocumentStep
<1> QED BY <1>1, <1>2, <1>3, <1>4, <1>5, <1>6, <1>7 DEF MemoryNext, FolderEvent, NoEvent,
    DocumentEvent, DocumentDeletedEvent, DeleteFolderEnds, DeleteFolderGoesOn

LEMMA MemoryInitial ==
  ASSUME MemoryInit
  PROVE  MemoryInv
<1> DEFINE row == [name |-> None, parent |-> None, visibility |-> "shared", path |-> << >>]
<1>1. row \in FolderRow /\ row # None /\ row.parent = None
  <2>1. << >> \in Seq(Names) /\ "shared" \in Visibilities /\ None \notin FolderRow
    BY MemoryAssumption
  <2>2. row \in FolderRow
    BY <2>1 DEF FolderRow
  <2> QED BY <2>1, <2>2
<1>2. folders = [f \in Folders |-> IF f = Root THEN row ELSE None]
  BY DEF MemoryInit
<1> HIDE DEF row
<1>3. LiveFolders = {Root}
  BY <1>1, <1>2, MemoryAssumption DEF LiveFolders
<1>4. LiveDocs = {}
  BY DEF MemoryInit, LiveDocs
<1>5. TablesAreTyped
  BY <1>1, <1>2, MemoryAssumption DEF MemoryInit, TablesAreTyped
<1>6. TreeIsSound
  BY <1>3, <1>4 DEF TreeIsSound
<1>7. IndexIsCurrent
  BY <1>4 DEF MemoryInit, IndexIsCurrent
<1>8. Nested(deleting, folders, docs)
  BY DEF MemoryInit, Nested
<1> QED BY <1>5, <1>6, <1>7, <1>8 DEF MemoryInv

(***************************************************************************)
(* The page and the panel.                                                 *)
(***************************************************************************)

Fields == [from : Docs \cup {None}, content : Versions \cup {None}]
PageHash ==
  [to : {"folder"}, id : Folders] \cup [to : {"doc"}, id : Docs \cup {None}] \cup [to : {"search"}, id : Titles]

PageType ==
  [hash : PageHash, changed : BOOLEAN, view : {"list", "search", "doc", "edit"}, folder : Folders,
   doc : Docs \cup {None}, editing : Docs \cup {None}, fields : Fields, list : SUBSET Docs,
   shown : Docs \cup {None}]

PageTypes == docPage \in PageType /\ \A c \in pageCalls : c.of = "save" => c.fields \in Fields

\* What is loaded into the editor is of the document that is edited, and once
\* nothing is on its way the fields are of it.
EditorIsAnswered ==
  /\ \A c \in Under("edit") : c.id = docPage.editing
  /\ Under("edit") = {} => docPage.fields.from = docPage.editing

\* The same for the document that is shown.
DocumentIsAnswered ==
  /\ docPage.doc # None => \A c \in Under("doc") : c.id = docPage.doc
  /\ docPage.doc # None /\ docPage.view = "doc" /\ Under("doc") = {} => docPage.shown = docPage.doc

PageInv ==
  /\ PageTypes
  /\ ~disturbed => EditorIsAnswered /\ DocumentIsAnswered /\ ActsOnWhatItShowsUnlessDisturbed

\* What the panel asks for: a list, or a document.
List == [of : {"list"}, id : Folders \cup {None}] \cup [of : {"search"}, id : Titles] \cup [of : {"load"}, id : {None}]
One  == [of : {"doc"}, id : Docs]

PanelType ==
  [selected : Folders \cup {None}, doc : Docs \cup {None}, list : SUBSET Docs, shows : List \cup {None},
   loading : BOOLEAN, asked : List \cup One \cup {None}, overlapped : BOOLEAN, error : BOOLEAN]

ShowsAsked(p) ==
  CASE p.asked.of = "doc" -> p.doc \in {p.asked.id, None}
    [] p.asked.of = "load" -> p.shows = p.asked
    [] OTHER -> p.doc = None /\ p.shows = p.asked

\* Unless answers overlapped, what was asked last is all that is under way.
PanelInv ==
  /\ panel \in PanelType /\ panelCalls \subseteq List \cup One
  /\ ~panel.overlapped =>
       /\ panelCalls \subseteq {panel.asked}
       /\ panelCalls # {} /\ panel.asked.of \in {"list", "search"} => panel.doc = None
       /\ panelCalls = {} /\ ~panel.error /\ panel.asked # None => ShowsAsked(panel)

PagesInv == MemoryInv /\ PageInv /\ PanelInv

(* The page. ****************************************************************)

LEMMA NavigatedTurns ==
  ASSUME NEW p \in PageType, NEW hash \in PageHash
  PROVE  /\ Navigated(p, hash) \in PageType
         /\ LET q == Navigated(p, hash)
            IN q.view = p.view /\ q.doc = p.doc /\ q.editing = p.editing /\ q.fields = p.fields /\ q.shown = p.shown
BY DEF Navigated, PageType

LEMMA HashesAre ==
  /\ \A f \in Folders : FolderHash(f) \in PageHash
  /\ \A d \in Docs \cup {None} : DocHash(d) \in PageHash
  /\ \A t \in Titles : SearchHash(t) \in PageHash
BY DEF FolderHash, DocHash, SearchHash, PageHash

\* A step that leaves to the editor and the document what they are, and asks for
\* neither, keeps the invariant.
LEMMA PageStays ==
  ASSUME PageInv, docPage' \in PageType, UNCHANGED disturbed,
         docPage'.view = docPage.view \/ docPage'.view # "doc",
         docPage'.doc = docPage.doc \/ docPage'.doc = None, docPage'.editing = docPage.editing,
         docPage'.fields.from = docPage.fields.from, docPage'.shown = docPage.shown,
         \A c \in pageCalls' : c \in pageCalls \/ c.of \in {"tree", "list", "search"},
         \A c \in pageCalls : c \in pageCalls' \/ c.of \notin {"edit", "doc"}
  PROVE  PageInv'
<1>1. PageTypes'
  BY DEF PageInv, PageTypes
<1>2. Under("edit")' = Under("edit") /\ Under("doc")' = Under("doc")
  BY DEF Under
<1>3. ~disturbed' => EditorIsAnswered'
  BY <1>2 DEF PageInv, EditorIsAnswered
<1>4. ~disturbed' => DocumentIsAnswered'
  BY <1>2 DEF PageInv, DocumentIsAnswered
<1>5. ~disturbed' => ActsOnWhatItShowsUnlessDisturbed'
  BY DEF PageInv, ActsOnWhatItShowsUnlessDisturbed
<1> QED BY <1>1, <1>3, <1>4, <1>5 DEF PageInv

\* So does one that only goes to another hash.
LEMMA PageTurns ==
  ASSUME PageInv, NEW hash \in PageHash, docPage' = Navigated(docPage, hash), UNCHANGED disturbed,
         pageCalls' \subseteq pageCalls, \A c \in pageCalls \ pageCalls' : c.of \notin {"edit", "doc"}
  PROVE  PageInv'
<1>1. docPage \in PageType
  BY DEF PageInv, PageTypes
<1> QED BY <1>1, NavigatedTurns, PageStays

LEMMA HashChangedStep ==
  ASSUME PageInv, HashChanged
  PROVE  PageInv'
<1>0. docPage \in PageType /\ docPage.hash \in PageHash
  BY DEF PageInv, PageTypes, PageType
<1>1. CASE docPage.hash.to = "folder" /\ ShowFolder(docPage.hash.id)
  <2> DEFINE f == docPage.hash.id
             new == Call("tree", f)
  <2>1. f \in Folders
    BY <1>0, <1>1 DEF PageHash
  <2>2. new.of = "tree"
    BY DEF Call
  <2>3. /\ docPage' = [docPage EXCEPT !.changed = FALSE, !.folder = f, !.doc = None]
        /\ pageCalls' = pageCalls \cup {new} /\ UNCHANGED disturbed
    BY <1>1 DEF ShowFolder
  <2> HIDE DEF new, f
  <2>4. /\ docPage' \in PageType /\ docPage'.view = docPage.view /\ docPage'.doc = None
        /\ docPage'.editing = docPage.editing /\ docPage'.fields = docPage.fields /\ docPage'.shown = docPage.shown
    BY <1>0, <2>1, <2>3 DEF PageType
  <2> QED BY <2>2, <2>3, <2>4, PageStays
<1>2. CASE docPage.hash.to = "doc" /\ ShowDocument(docPage.hash.id)
  <2> DEFINE d == docPage.hash.id
             new == Call("doc", d)
  <2>1. d \in Docs \cup {None}
    BY <1>0, <1>2 DEF PageHash
  <2>2. new.of = "doc" /\ new.id = d
    BY DEF Call
  <2>3. /\ docPage' = [docPage EXCEPT !.changed = FALSE, !.doc = d]
        /\ pageCalls' = pageCalls \cup {new} /\ disturbed' = (disturbed \/ Under("doc") # {})
    BY <1>2 DEF ShowDocument
  <2> HIDE DEF new, d
  <2>4. /\ docPage' \in PageType /\ docPage'.doc = d
        /\ docPage'.editing = docPage.editing /\ docPage'.fields = docPage.fields
    BY <1>0, <2>1, <2>3 DEF PageType
  <2>5. Under("edit")' = Under("edit") /\ Under("doc")' = Under("doc") \cup {new}
    BY <2>2, <2>3 DEF Under
  <2>6. PageTypes'
    BY <2>2, <2>3, <2>4 DEF PageInv, PageTypes
  <2>7. ~disturbed' => ~disturbed /\ EditorIsAnswered'
    BY <2>3, <2>4, <2>5 DEF PageInv, EditorIsAnswered
  <2>8. ~disturbed' => DocumentIsAnswered'
    BY <2>2, <2>3, <2>4, <2>5 DEF DocumentIsAnswered
  <2>9. ~disturbed' => ActsOnWhatItShowsUnlessDisturbed'
    BY <2>2, <2>3, <2>7 DEF PageInv, ActsOnWhatItShowsUnlessDisturbed
  <2> QED BY <2>6, <2>7, <2>8, <2>9 DEF PageInv
<1>3. CASE docPage.hash.to = "search" /\ ShowSearch(docPage.hash.id)
  <2> DEFINE new == Call("search", docPage.hash.id)
  <2>1. new.of = "search"
    BY DEF Call
  <2>2. docPage' = [docPage EXCEPT !.changed = FALSE] /\ pageCalls' = pageCalls \cup {new} /\ UNCHANGED disturbed
    BY <1>3 DEF ShowSearch
  <2> HIDE DEF new
  <2>3. /\ docPage' \in PageType /\ docPage'.view = docPage.view /\ docPage'.doc = docPage.doc
        /\ docPage'.editing = docPage.editing /\ docPage'.fields = docPage.fields /\ docPage'.shown = docPage.shown
    BY <1>0, <2>2 DEF PageType
  <2> QED BY <2>1, <2>2, <2>3, PageStays
<1> QED BY <1>1, <1>2, <1>3 DEF HashChanged

\* Clicks that go somewhere, and those that only change a field.
LEMMA ClicksStep ==
  ASSUME PageInv,
         \/ \E f \in LiveFolders : Browse(FolderHash(f))
         \/ \E d \in Docs : Browse(DocHash(d)) \/ GoTo(d)
         \/ \E t \in Titles : Browse(SearchHash(t))
         \/ ClickCancel \/ ClickBack \/ SetToken \/ \E v \in Versions : Type(v)
  PROVE  PageInv'
<1>0. docPage \in PageType /\ docPage.folder \in Folders /\ docPage.editing \in Docs \cup {None}
  BY DEF PageInv, PageTypes, PageType
<1>1. ASSUME NEW hash \in PageHash, docPage' = Navigated(docPage, hash), UNCHANGED <<pageCalls, disturbed>>
      PROVE  PageInv'
  BY <1>1, PageTurns
<1>2. ASSUME NEW f \in LiveFolders, Browse(FolderHash(f))
      PROVE  PageInv'
  BY <1>1, <1>2, HashesAre DEF Browse, LiveFolders
<1>3. ASSUME NEW d \in Docs, Browse(DocHash(d)) \/ GoTo(d)
      PROVE  PageInv'
  BY <1>1, <1>3, HashesAre DEF Browse, GoTo
<1>4. ASSUME NEW t \in Titles, Browse(SearchHash(t))
      PROVE  PageInv'
  BY <1>1, <1>4, HashesAre DEF Browse
<1>5. CASE ClickCancel
  BY <1>0, <1>1, <1>5, HashesAre DEF ClickCancel
<1>6. CASE ClickBack
  BY <1>0, <1>1, <1>6, HashesAre DEF ClickBack
<1>7. CASE SetToken
  <2>1. docPage' = [docPage EXCEPT !.changed = TRUE] /\ UNCHANGED <<pageCalls, disturbed>>
    BY <1>7 DEF SetToken
  <2>2. /\ docPage' \in PageType /\ docPage'.view = docPage.view /\ docPage'.doc = docPage.doc
        /\ docPage'.editing = docPage.editing /\ docPage'.fields = docPage.fields /\ docPage'.shown = docPage.shown
    BY <1>0, <2>1 DEF PageType
  <2> QED BY <2>1, <2>2, PageStays
<1>8. ASSUME NEW v \in Versions, Type(v)
      PROVE  PageInv'
  <2> DEFINE fields == [docPage.fields EXCEPT !.content = v]
  <2>1. docPage' = [docPage EXCEPT !.fields = fields] /\ UNCHANGED <<pageCalls, disturbed>>
    BY <1>8, <1>0 DEF Type
  <2>2. fields \in Fields /\ fields.from = docPage.fields.from
    BY <1>0 DEF PageType, Fields
  <2> HIDE DEF fields
  <2>3. /\ docPage' \in PageType /\ docPage'.view = docPage.view /\ docPage'.doc = docPage.doc
        /\ docPage'.editing = docPage.editing /\ docPage'.fields = fields /\ docPage'.shown = docPage.shown
    BY <1>0, <2>1, <2>2 DEF PageType
  <2> QED BY <2>1, <2>2, <2>3, PageStays
<1> QED BY <1>2, <1>3, <1>4, <1>5, <1>6, <1>7, <1>8

LEMMA ShowEditStep ==
  ASSUME PageInv, NEW x \in Docs \cup {None}, ShowEdit(x)
  PROVE  PageInv'
<1> DEFINE fields == IF x = None THEN Blank ELSE docPage.fields
           new == Call("edit", x)
<1>0. docPage \in PageType /\ docPage.fields \in Fields
  BY DEF PageInv, PageTypes, PageType
<1>1. fields \in Fields /\ (x = None => fields.from = None)
  BY <1>0 DEF Blank, Fields
<1>2. new.of = "edit" /\ new.id = x
  BY DEF Call
<1>3. /\ docPage' = [docPage EXCEPT !.view = "edit", !.editing = x, !.fields = fields]
      /\ pageCalls' = IF x = None THEN pageCalls ELSE pageCalls \cup {new}
      /\ disturbed' = (disturbed \/ Under("edit") # {})
  BY <1>0 DEF ShowEdit
<1> HIDE DEF fields, new
<1>4. docPage' \in PageType /\ docPage'.view = "edit" /\ docPage'.editing = x /\ docPage'.fields = fields
      /\ docPage'.doc = docPage.doc
  BY <1>0, <1>1, <1>3 DEF PageType
<1>5. Under("edit")' = (IF x = None THEN Under("edit") ELSE Under("edit") \cup {new}) /\ Under("doc")' = Under("doc")
  BY <1>2, <1>3 DEF Under
<1>6. PageTypes'
  BY <1>2, <1>3, <1>4 DEF PageInv, PageTypes
<1>7. ~disturbed' => ~disturbed /\ EditorIsAnswered'
  BY <1>1, <1>2, <1>3, <1>4, <1>5 DEF EditorIsAnswered
<1>8. ~disturbed' => DocumentIsAnswered'
  BY <1>3, <1>4, <1>5, <1>7 DEF PageInv, DocumentIsAnswered
<1>9. ~disturbed' => ActsOnWhatItShowsUnlessDisturbed'
  BY <1>2, <1>3, <1>7 DEF PageInv, ActsOnWhatItShowsUnlessDisturbed
<1> QED BY <1>6, <1>7, <1>8, <1>9 DEF PageInv

\* What is saved has the fields of a document that has come.
LEMMA ClickSaveStep ==
  ASSUME PageInv, ClickSave
  PROVE  PageInv'
<1> DEFINE new == [of |-> "save", id |-> docPage.editing, fields |-> docPage.fields, folder |-> docPage.folder]
<1>0. docPage \in PageType /\ docPage.fields \in Fields
  BY DEF PageInv, PageTypes, PageType
<1>1. new.of = "save" /\ new.id = docPage.editing /\ new.fields = docPage.fields
  OBVIOUS
<1>2. /\ pageCalls' = pageCalls \cup {new} /\ disturbed' = (disturbed \/ Under("edit") # {}) /\ UNCHANGED docPage
  BY DEF ClickSave
<1> HIDE DEF new
<1>3. Under("edit")' = Under("edit") /\ Under("doc")' = Under("doc")
  BY <1>1, <1>2 DEF Under
<1>4. PageTypes'
  BY <1>0, <1>1, <1>2 DEF PageInv, PageTypes
<1>5. ~disturbed' => ~disturbed /\ EditorIsAnswered' /\ DocumentIsAnswered'
  BY <1>2, <1>3 DEF PageInv, EditorIsAnswered, DocumentIsAnswered
<1>6. ~disturbed' => ActsOnWhatItShowsUnlessDisturbed'
  BY <1>1, <1>2, <1>5 DEF PageInv, EditorIsAnswered, ActsOnWhatItShowsUnlessDisturbed
<1> QED BY <1>4, <1>5, <1>6 DEF PageInv

\* What is deleted has come, too.
LEMMA ClickDeleteStep ==
  ASSUME PageInv, ClickDelete
  PROVE  PageInv'
<1> DEFINE new == [of |-> "delete", id |-> docPage.doc, seen |-> docPage.shown]
<1>1. new.of = "delete" /\ new.id = docPage.doc /\ new.seen = docPage.shown
  OBVIOUS
<1>2. /\ pageCalls' = pageCalls \cup {new} /\ disturbed' = (disturbed \/ Under("doc") # {}) /\ UNCHANGED docPage
      /\ docPage.view = "doc" /\ docPage.doc # None
  BY DEF ClickDelete
<1> HIDE DEF new
<1>3. Under("edit")' = Under("edit") /\ Under("doc")' = Under("doc")
  BY <1>1, <1>2 DEF Under
<1>4. PageTypes'
  BY <1>1, <1>2 DEF PageInv, PageTypes
<1>5. ~disturbed' => ~disturbed /\ EditorIsAnswered' /\ DocumentIsAnswered'
  BY <1>2, <1>3 DEF PageInv, EditorIsAnswered, DocumentIsAnswered
<1>6. ~disturbed' => ActsOnWhatItShowsUnlessDisturbed'
  BY <1>1, <1>2, <1>5 DEF PageInv, DocumentIsAnswered, ActsOnWhatItShowsUnlessDisturbed
<1> QED BY <1>4, <1>5, <1>6 DEF PageInv

LEMMA DocAnsweredStep ==
  ASSUME PageInv, NEW d \in Docs \cup {None}, DocAnswered(d)
  PROVE  PageInv'
<1> DEFINE call == Call("doc", d)
<1>0. docPage \in PageType
  BY DEF PageInv, PageTypes
<1>1. call.of = "doc" /\ call.id = d
  BY DEF Call
<1>2. call \in pageCalls /\ pageCalls' = pageCalls \ {call} /\ UNCHANGED disturbed
  BY DEF DocAnswered, Answer
<1> HIDE DEF call
<1>3. call \in Under("doc") /\ Under("edit")' = Under("edit") /\ Under("doc")' \subseteq Under("doc")
  BY <1>1, <1>2 DEF Under
<1>4. \/ docPage' = [docPage EXCEPT !.view = "doc", !.shown = d]
      \/ docPage' = [docPage EXCEPT !.view = "list"]
  BY DEF DocAnswered
<1>5. /\ docPage' \in PageType /\ docPage'.doc = docPage.doc /\ docPage'.editing = docPage.editing
      /\ docPage'.fields = docPage.fields
      /\ docPage'.view = "doc" => docPage'.shown = d
  BY <1>0, <1>4 DEF PageType
<1>6. PageTypes'
  BY <1>2, <1>5 DEF PageInv, PageTypes
<1>7. ~disturbed' => EditorIsAnswered'
  BY <1>2, <1>3, <1>5 DEF PageInv, EditorIsAnswered
<1>8. ~disturbed' => DocumentIsAnswered'
  BY <1>1, <1>2, <1>3, <1>5 DEF PageInv, DocumentIsAnswered
<1>9. ~disturbed' => ActsOnWhatItShowsUnlessDisturbed'
  BY <1>2 DEF PageInv, ActsOnWhatItShowsUnlessDisturbed
<1> QED BY <1>6, <1>7, <1>8, <1>9 DEF PageInv

LEMMA EditAnsweredStep ==
  ASSUME PageInv, MemoryInv, NEW d \in Docs, EditAnswered(d)
  PROVE  PageInv'
<1> DEFINE call == Call("edit", d)
           fields == [from |-> d, content |-> docs[d].content]
<1>0. docPage \in PageType
  BY DEF PageInv, PageTypes
<1>1. call.of = "edit" /\ call.id = d
  BY DEF Call
<1>2. call \in pageCalls /\ pageCalls' = pageCalls \ {call}
  BY DEF EditAnswered, Answer
<1> HIDE DEF call
<1>3. call \in Under("edit") /\ Under("edit")' \subseteq Under("edit") /\ Under("doc")' = Under("doc")
  BY <1>1, <1>2 DEF Under
<1>4. CASE d \in LiveDocs /\ UNCHANGED disturbed /\ docPage' = [docPage EXCEPT !.fields = fields]
  <2>1. docs[d] \in DocRow
    BY <1>4, RootIsThere DEF MemoryInv
  <2>2. fields \in Fields /\ fields.from = d
    BY <2>1 DEF DocRow, Fields
  <2> HIDE DEF fields
  <2>3. /\ docPage' \in PageType /\ docPage'.doc = docPage.doc /\ docPage'.editing = docPage.editing
        /\ docPage'.fields = fields /\ docPage'.view = docPage.view /\ docPage'.shown = docPage.shown
    BY <1>0, <1>4, <2>2 DEF PageType
  <2>4. PageTypes'
    BY <1>2, <2>3 DEF PageInv, PageTypes
  <2>5. ~disturbed' => EditorIsAnswered'
    BY <1>1, <1>3, <1>4, <2>2, <2>3 DEF PageInv, EditorIsAnswered
  <2>6. ~disturbed' => DocumentIsAnswered'
    BY <1>3, <1>4, <2>3 DEF PageInv, DocumentIsAnswered
  <2>7. ~disturbed' => ActsOnWhatItShowsUnlessDisturbed'
    BY <1>2, <1>4 DEF PageInv, ActsOnWhatItShowsUnlessDisturbed
  <2> QED BY <2>4, <2>5, <2>6, <2>7 DEF PageInv
<1>5. CASE UNCHANGED docPage /\ disturbed' = TRUE
  BY <1>2, <1>5 DEF PageInv, PageTypes
<1> QED BY <1>4, <1>5 DEF EditAnswered

\* The other answers show a list, or go somewhere.
LEMMA ListsStep ==
  ASSUME PageInv, MemoryInv,
         \/ \E f \in Folders : TreeAnswered(f) \/ ListAnswered(f)
         \/ \E t \in Titles : SearchAnswered(t)
  PROVE  PageInv'
<1>0. docPage \in PageType
  BY DEF PageInv, PageTypes
<1>1. ASSUME NEW f \in Folders, TreeAnswered(f)
      PROVE  PageInv'
  <2>1. Call("tree", f).of = "tree" /\ Call("list", f).of = "list"
    BY DEF Call
  <2> QED BY <1>0, <1>1, <2>1, PageStays DEF TreeAnswered
<1>2. ASSUME NEW f \in Folders, ListAnswered(f)
      PROVE  PageInv'
  <2>1. Call("list", f).of = "list" /\ Listed(f, "admin") \in SUBSET Docs
    BY DEF Call, Listed, LiveDocs
  <2>2. PICK list \in {Listed(f, "admin"), {}} : docPage' = [docPage EXCEPT !.view = "list", !.list = list]
    BY <1>2 DEF ListAnswered
  <2>3. pageCalls' = pageCalls \ {Call("list", f)} /\ UNCHANGED disturbed
    BY <1>2 DEF ListAnswered
  <2>4. list \in SUBSET Docs
    BY <2>1, <2>2
  <2>5. /\ docPage' \in PageType /\ docPage'.view # "doc" /\ docPage'.doc = docPage.doc
        /\ docPage'.editing = docPage.editing /\ docPage'.fields = docPage.fields /\ docPage'.shown = docPage.shown
    BY <1>0, <2>2, <2>4 DEF PageType
  <2> QED BY <2>1, <2>3, <2>5, PageStays
<1>3. ASSUME NEW t \in Titles, SearchAnswered(t)
      PROVE  PageInv'
  <2>1. Call("search", t).of = "search" /\ Found(t, "admin") \in SUBSET Docs
    BY DEF Call, Found, ListedAll, LiveDocs
  <2>2. PICK list \in {Found(t, "admin"), {}} : docPage' = [docPage EXCEPT !.view = "search", !.list = list]
    BY <1>3 DEF SearchAnswered
  <2>3. pageCalls' = pageCalls \ {Call("search", t)} /\ UNCHANGED disturbed
    BY <1>3 DEF SearchAnswered
  <2>4. list \in SUBSET Docs
    BY <2>1, <2>2
  <2>5. /\ docPage' \in PageType /\ docPage'.view # "doc" /\ docPage'.doc = docPage.doc
        /\ docPage'.editing = docPage.editing /\ docPage'.fields = docPage.fields /\ docPage'.shown = docPage.shown
    BY <1>0, <2>2, <2>4 DEF PageType
  <2> QED BY <2>1, <2>3, <2>5, PageStays
<1> QED BY <1>1, <1>2, <1>3

LEMMA WritesStep ==
  ASSUME PagesInv, NEW c \in pageCalls, SaveAnswered(c) \/ DeleteAnswered(c)
  PROVE  MemoryInv' /\ PageInv'
<1>0. MemoryInv /\ PageInv /\ docPage \in PageType /\ docPage.folder \in Folders /\ docPage.editing \in Docs \cup {None}
  BY DEF PagesInv, PageInv, PageTypes, PageType
<1>1. c.of \in {"save", "delete"} /\ pageCalls' = pageCalls \ {c} /\ UNCHANGED disturbed
  BY DEF SaveAnswered, DeleteAnswered
<1>2. ASSUME NEW hash \in PageHash, docPage' = Navigated(docPage, hash)
      PROVE  PageInv'
  BY <1>0, <1>1, <1>2, PageTurns
<1>3. CASE UNCHANGED <<memoryVars, docPage>>
  <2>1. PageInv'
    BY <1>0, <1>1, <1>3, PageStays
  <2> QED BY <1>0, <1>3, <2>1, MemoryStutters
<1>4. CASE SaveAnswered(c) /\ SavedOld(c)
  <2>1. /\ c.id \in LiveDocs /\ docPage' = Navigated(docPage, DocHash(docPage.editing))
        /\ UpdateDocument(c.id, docs[c.id].folder, docs[c.id].title, c.fields.content, "admin")
    BY <1>4 DEF SavedOld
  <2>2. c.fields \in Fields
    BY <1>0, <1>4 DEF SaveAnswered, PageInv, PageTypes
  <2>3. docs[c.id] \in DocRow /\ c.id \in Docs
    BY <1>0, <2>1, RootIsThere DEF MemoryInv, LiveDocs
  <2>4. docs[c.id].title \in Titles /\ c.fields.content \in Versions \cup {None}
    BY <2>2, <2>3 DEF Fields, DocRow
  <2>5. MemoryInv'
    BY <1>0, <2>1, <2>3, <2>4, UpdateDocumentStep
  <2> QED BY <1>0, <1>2, <2>1, <2>5, HashesAre
<1>5. CASE SaveAnswered(c) /\ SavedNew(c)
  <2>1. PICK d \in Docs, t \in Titles :
          CreateDocument(d, c.folder, t, c.fields.content, "admin") /\ docPage' = Navigated(docPage, DocHash(d))
    BY <1>5 DEF SavedNew
  <2>2. c.fields \in Fields
    BY <1>0, <1>5 DEF SaveAnswered, PageInv, PageTypes
  <2>3. c.fields.content \in Versions \cup {None}
    BY <2>2 DEF Fields
  <2>4. MemoryInv'
    BY <1>0, <2>1, <2>3, CreateDocumentStep
  <2> QED BY <1>2, <2>1, <2>4, HashesAre
<1>6. CASE DeleteDocument(c.id, "admin") /\ docPage' = Navigated(docPage, FolderHash(docPage.folder))
  <2>1. MemoryInv'
    BY <1>0, <1>6, DeleteDocumentStep
  <2> QED BY <1>0, <1>2, <1>6, <2>1, HashesAre
<1> QED BY <1>3, <1>4, <1>5, <1>6 DEF SaveAnswered, DeleteAnswered

(* The panel. ***************************************************************)

\* What is asked becomes all that is under way, unless something was.
LEMMA AskingStep ==
  ASSUME PanelInv, NEW c \in List \cup One, NEW p \in PanelType, Asking(c, p), p.overlapped = panel.overlapped,
         c.of \in {"list", "search"} => p.doc = None
  PROVE  PanelInv'
<1>1. /\ panelCalls' = panelCalls \cup {c}
      /\ panel' = [p EXCEPT !.loading = TRUE, !.asked = c, !.overlapped = p.overlapped \/ panelCalls # {}]
  BY DEF Asking
<1>2. /\ panel' \in PanelType /\ panel'.asked = c /\ panel'.doc = p.doc
      /\ panel'.overlapped = (p.overlapped \/ panelCalls # {})
  BY <1>1 DEF PanelType
<1> QED BY <1>1, <1>2 DEF PanelInv

LEMMA PanelAnsweredStep ==
  ASSUME PanelInv, NEW c \in panelCalls, PanelAnswered(c)
  PROVE  PanelInv'
<1>0. panel \in PanelType /\ c \in List \cup One /\ panelCalls' = panelCalls \ {c}
  BY DEF PanelInv, PanelAnswered
<1>1. ~panel.overlapped => panel.asked = c /\ panelCalls' = {}
  BY <1>0 DEF PanelInv
<1>2. c \in One => c.of = "doc" /\ c.id \in Docs
  BY DEF One
<1>3. c \in List => c.of \in {"list", "search", "load"}
  BY DEF List
<1>4. ~panel.overlapped /\ c.of \in {"list", "search"} => panel.doc = None
  BY <1>1 DEF PanelInv
<1>5. ASSUME NEW list \in SUBSET Docs, c.of \in {"list", "search", "load"}, panel' = PanelList(c, list)
      PROVE  PanelInv'
  <2>1. /\ panel' \in PanelType /\ panel'.asked = panel.asked /\ panel'.doc = panel.doc /\ panel'.shows = c
        /\ panel'.overlapped = panel.overlapped
    BY <1>0, <1>2, <1>5 DEF PanelType, PanelList
  <2>2. panelCalls' \subseteq List \cup One
    BY <1>0 DEF PanelInv
  <2>3. ~panel.overlapped => ShowsAsked(panel')
    BY <1>1, <1>4, <1>5, <2>1 DEF ShowsAsked
  <2> QED BY <1>1, <2>1, <2>2, <2>3 DEF PanelInv
<1>6. ASSUME c.of # "doc", NEW found \in {Asked(c), {}}, panel' = PanelList(c, found)
      PROVE  PanelInv'
  <2>1. Asked(c) \in SUBSET Docs
    BY DEF Asked, Found, ListedAll, Listed, LiveDocs
  <2>2. c.of \in {"list", "search", "load"}
    BY <1>0, <1>2, <1>3, <1>6
  <2> QED BY <1>5, <1>6, <2>1, <2>2
<1>7. ASSUME c.of = "doc", NEW shown \in ({c.id} \cap LiveDocs) \cup {None}, panel' = [panel EXCEPT !.loading = FALSE, !.doc = shown]
      PROVE  PanelInv'
  <2>1. shown \in {c.id, None} /\ shown \in Docs \cup {None}
    BY <1>7 DEF LiveDocs
  <2>2. /\ panel' \in PanelType /\ panel'.asked = panel.asked /\ panel'.doc = shown
        /\ panel'.overlapped = panel.overlapped
    BY <1>0, <1>7, <2>1 DEF PanelType
  <2>3. panelCalls' \subseteq List \cup One
    BY <1>0 DEF PanelInv
  <2>4. ~panel.overlapped => ShowsAsked(panel')
    BY <1>1, <1>7, <2>1, <2>2 DEF ShowsAsked
  <2> QED BY <1>1, <2>2, <2>3, <2>4 DEF PanelInv
<1>8. CASE panel' = [panel EXCEPT !.loading = FALSE, !.error = TRUE]
  <2>1. /\ panel' \in PanelType /\ panel'.asked = panel.asked /\ panel'.error /\ panel'.overlapped = panel.overlapped
    BY <1>0, <1>8 DEF PanelType
  <2>2. panelCalls' \subseteq List \cup One
    BY <1>0 DEF PanelInv
  <2> QED BY <1>1, <2>1, <2>2 DEF PanelInv
<1> QED BY <1>6, <1>7, <1>8 DEF PanelAnswered

LEMMA PanelStep ==
  ASSUME PanelInv, PanelNext
  PROVE  PanelInv'
<1>0. panel \in PanelType
  BY DEF PanelInv
<1>1. ASSUME NEW f \in LiveFolders, PanelFolder(f)
      PROVE  PanelInv'
  <2> DEFINE p == [panel EXCEPT !.selected = f, !.doc = None]
  <2>1. p \in PanelType /\ p.overlapped = panel.overlapped /\ p.doc = None
    BY <1>0 DEF PanelType, LiveFolders
  <2>2. Call("list", f) \in List
    BY DEF Call, List, LiveFolders
  <2> HIDE DEF p
  <2> QED BY <1>1, <2>1, <2>2, AskingStep DEF PanelFolder, p
<1>2. ASSUME NEW t \in Titles, PanelSearch(t)
      PROVE  PanelInv'
  <2> DEFINE p == [panel EXCEPT !.doc = None]
  <2>1. p \in PanelType /\ p.overlapped = panel.overlapped /\ p.doc = None
    BY <1>0 DEF PanelType
  <2>2. Call("search", t) \in List
    BY DEF Call, List
  <2> HIDE DEF p
  <2> QED BY <1>2, <2>1, <2>2, AskingStep DEF PanelSearch, p
<1>3. ASSUME NEW d \in Docs, PanelDoc(d)
      PROVE  PanelInv'
  <2>1. Call("doc", d) \in One /\ Call("doc", d).of = "doc"
    BY DEF Call, One
  <2> QED BY <1>0, <1>3, <2>1, AskingStep DEF PanelDoc
<1>4. CASE PanelAll
  <2> DEFINE p == [panel EXCEPT !.selected = None, !.doc = None]
  <2>1. p \in PanelType /\ p.overlapped = panel.overlapped /\ p.doc = None
    BY <1>0 DEF PanelType
  <2>2. Call("list", None) \in List
    BY DEF Call, List
  <2> HIDE DEF p
  <2> QED BY <1>4, <2>1, <2>2, AskingStep DEF PanelAll, p
<1>5. CASE PanelLoad
  <2> DEFINE p == [panel EXCEPT !.error = FALSE]
  <2>1. p \in PanelType /\ p.overlapped = panel.overlapped
    BY <1>0 DEF PanelType
  <2>2. Call("load", None) \in List /\ Call("load", None).of = "load"
    BY DEF Call, List
  <2> HIDE DEF p
  <2> QED BY <1>5, <2>1, <2>2, AskingStep DEF PanelLoad, p
<1>6. CASE PanelBack
  <2>1. /\ UNCHANGED panelCalls
        /\ panel' = [panel EXCEPT !.doc = None, !.asked = panel.shows, !.overlapped = panel.overlapped \/ panelCalls # {}]
    BY <1>6 DEF PanelBack
  <2>2. panel.shows \in List \cup {None}
    BY <1>0 DEF PanelType
  <2>3. /\ panel' \in PanelType /\ panel'.doc = None /\ panel'.asked = panel.shows /\ panel'.shows = panel.shows
        /\ panel'.overlapped = (panel.overlapped \/ panelCalls # {})
    BY <1>0, <2>1, <2>2 DEF PanelType
  <2>4. panel.shows # None => panel.shows.of \in {"list", "search", "load"}
    BY <2>2 DEF List
  <2>5. panel.shows # None => ShowsAsked(panel')
    BY <2>3, <2>4 DEF ShowsAsked
  <2> QED BY <2>1, <2>3, <2>5 DEF PanelInv
<1>7. ASSUME NEW c \in panelCalls, PanelAnswered(c)
      PROVE  PanelInv'
  BY <1>7, PanelAnsweredStep
<1> QED BY <1>1, <1>2, <1>3, <1>4, <1>5, <1>6, <1>7 DEF PanelNext

(* All steps. ***************************************************************)

LEMMA ViewsStutter ==
  /\ PageInv /\ UNCHANGED <<docPage, pageCalls, disturbed>> => PageInv'
  /\ PanelInv /\ UNCHANGED <<panel, panelCalls>> => PanelInv'
BY DEF PageInv, PageTypes, EditorIsAnswered, DocumentIsAnswered, ActsOnWhatItShowsUnlessDisturbed,
    Under, PanelInv

LEMMA PageStep ==
  ASSUME PagesInv, PageNext
  PROVE  PagesInv'
<1>0. MemoryInv /\ PageInv /\ PanelInv
  BY DEF PagesInv
<1>1. UNCHANGED <<panel, panelCalls>> /\ (UNCHANGED memoryVars \/ ClickNewFolder)
  BY DEF PageNext, Browse, GoTo, HashChanged, SetToken, ClickNew, ClickEdit, ClickSave,
      ClickCancel, ClickBack, ClickDelete, ClickNewFolder, Type, Clicked
<1>2. PanelInv'
  BY <1>0, <1>1, ViewsStutter
<1>3. CASE ClickNewFolder
  <2>1. PICK f \in Folders, n \in Names : CreateFolder(f, n, docPage.folder, "shared", "admin")
    BY <1>3 DEF ClickNewFolder
  <2>2. MemoryInv'
    BY <1>0, <2>1, CreateFolderStep, MemoryAssumption
  <2>3. PageInv'
    BY <1>0, <1>3, ViewsStutter DEF ClickNewFolder
  <2> QED BY <1>2, <2>2, <2>3 DEF PagesInv
<1>4. CASE ~ClickNewFolder
  <2>1. MemoryInv'
    BY <1>0, <1>1, <1>4, MemoryStutters
  <2>2. ASSUME ClickNew \/ ClickEdit
        PROVE  PageInv'
    <3>1. docPage.doc \in Docs \cup {None}
      BY <1>0 DEF PageInv, PageTypes, PageType
    <3> QED BY <1>0, <2>2, <3>1, ShowEditStep DEF ClickNew, ClickEdit
  <2>3. PageInv'
    BY <1>0, <1>4, <2>2, HashChangedStep, ClicksStep, ClickSaveStep, ClickDeleteStep DEF PageNext
  <2> QED BY <1>2, <2>1, <2>3 DEF PagesInv
<1> QED BY <1>3, <1>4

LEMMA AnswersStep ==
  ASSUME PagesInv, PageAnswered
  PROVE  PagesInv'
<1>0. MemoryInv /\ PageInv /\ PanelInv
  BY DEF PagesInv
<1>1. UNCHANGED <<panel, panelCalls>>
  BY DEF PageAnswered, TreeAnswered, ListAnswered, DocAnswered, EditAnswered, SearchAnswered,
      SaveAnswered, DeleteAnswered, Answer
<1>2. PanelInv'
  BY <1>0, <1>1, ViewsStutter
<1>3. CASE \E c \in pageCalls : SaveAnswered(c) \/ DeleteAnswered(c)
  BY <1>2, <1>3, WritesStep DEF PagesInv
<1>4. CASE ~ \E c \in pageCalls : SaveAnswered(c) \/ DeleteAnswered(c)
  <2>1. UNCHANGED memoryVars
    BY <1>4 DEF PageAnswered, TreeAnswered, ListAnswered, DocAnswered, EditAnswered, SearchAnswered
  <2>2. PageInv'
    BY <1>0, <1>4, DocAnsweredStep, EditAnsweredStep, ListsStep DEF PageAnswered
  <2> QED BY <1>0, <1>2, <2>1, <2>2, MemoryStutters DEF PagesInv
<1> QED BY <1>3, <1>4

LEMMA PagesStep ==
  ASSUME PagesInv, [PagesNext]_pagesVars
  PROVE  PagesInv'
<1>0. MemoryInv /\ PageInv /\ PanelInv
  BY DEF PagesInv
<1>1. CASE PageNext
  BY <1>1, PageStep
<1>2. CASE PageAnswered
  BY <1>2, AnswersStep
<1>3. CASE PanelNext
  <2>1. UNCHANGED <<memoryVars, docPage, pageCalls, disturbed>>
    BY <1>3 DEF PanelNext, PanelFolder, PanelAll, PanelSearch, PanelLoad, PanelDoc, PanelBack,
        PanelAnswered, PanelClicked
  <2> QED BY <1>0, <1>3, <2>1, PanelStep, MemoryStutters, ViewsStutter DEF PagesInv
<1>4. CASE MemoryNext /\ UNCHANGED viewsVars
  BY <1>0, <1>4, MemoryStep, ViewsStutter DEF PagesInv, viewsVars
<1>5. CASE UNCHANGED pagesVars
  BY <1>0, <1>5, MemoryStutters, ViewsStutter DEF PagesInv, pagesVars, viewsVars
<1> QED BY <1>1, <1>2, <1>3, <1>4, <1>5 DEF PagesNext

LEMMA PagesInitial ==
  ASSUME PagesInit
  PROVE  PagesInv
<1>1. MemoryInv
  BY MemoryInitial DEF PagesInit
<1>2. PageInv
  <2>1. Blank \in Fields /\ Blank.from = None
    BY DEF Blank, Fields
  <2>2. FolderHash(Root) \in PageHash
    BY HashesAre, MemoryAssumption
  <2>3. docPage \in PageType /\ docPage.fields = Blank /\ docPage.editing = None /\ docPage.doc = None
    BY <2>1, <2>2, MemoryAssumption DEF PagesInit, ViewsInit, InitialPage, PageType
  <2>4. pageCalls = {} /\ Under("edit") = {}
    BY DEF PagesInit, ViewsInit, Under
  <2> QED BY <2>1, <2>3, <2>4 DEF PageInv, PageTypes, EditorIsAnswered, DocumentIsAnswered,
      ActsOnWhatItShowsUnlessDisturbed
<1>3. PanelInv
  BY DEF PagesInit, ViewsInit, PanelInv, PanelType
<1> QED BY <1>1, <1>2, <1>3 DEF PagesInv

\* Whatever clients write, and wherever a deletion of nested folders is cut, each
\* document is in a folder that exists, paths are what folders and titles say and
\* are of one alone, and the search index says what the documents do
\* (memory-storage.ts: createFolder, deleteFolder, the triggers of the index).
THEOREM MemoryStaysSound == PagesSpec => []MemoryIsSound
<1>1. PagesInv => MemoryIsSound
  BY DEF PagesInv, MemoryInv, MemoryIsSound
<1> QED BY <1>1, PagesInitial, PagesStep, PTL DEF PagesSpec

\* However answers and clicks interleave: unless an answer was overtaken or
\* failed, or a click came before it, the page saves to the document its fields
\* came from and deletes the one it shows (static/app.js), and the panel shows
\* what was asked for last (MemoryView.tsx).
THEOREM PagesStayTrue == PagesSpec => []PagesAreTrueUnlessDisturbed
<1>1. PagesInv => PagesAreTrueUnlessDisturbed
  <2>1. PanelInv => PanelShowsTheLastAsked
    BY DEF PanelInv, PanelShowsTheLastAsked, ShowsAsked
  <2> QED BY <2>1 DEF PagesInv, PageInv, PagesAreTrueUnlessDisturbed,
      ActsOnWhatItShowsUnlessDisturbed
<1> QED BY <1>1, PagesInitial, PagesStep, PTL DEF PagesSpec

(* Documents and the wiki. **************************************************)

\* Where a sync that has a document in hand has fetched it, and where it writes.
Past    == {"tree", "folders", "decide", "clear", "create", "write", "record"}
OnAPage == {"clear", "write", "record"}
Fetched(j, d) == Holds(j, d) /\ jobs[j].pc \in Past
Writes(j, d)  == Holds(j, d) /\ jobs[j].pc \in {"write", "record"}

SyncTypes ==
  /\ pendingDocs \subseteq Docs /\ pendingFolders \in BOOLEAN
  /\ jobs \in [Jobs -> Job \cup {None}]
  /\ docMap \in [Docs -> MapRow \cup {None}]
  /\ pages \in [Pages -> PageRow \cup {None}]
  /\ born \subseteq Docs /\ LiveDocs \subseteq born

\* What a sync has at which of its calls.
Shape(j, job) ==
  /\ job.doc = None <=> job.pc \in (IF j = "full" THEN {"space", "tree", "folders", "next", "cleanup"} ELSE {"next"})
  /\ job.doc # None /\ job.pc \in Past => job.hash # None
  /\ job.pc \in OnAPage => job.page # None
  /\ job.pc = "cleanup" => j = "full" /\ job.lists = {}

JobsAreShaped == \A j \in Jobs : Busy(j) => Shape(j, jobs[j])

IsOf(p, d) == pages[p] # None /\ pages[p].of = d

\* A page that is written to or mapped is one of its document.
PagesAreKnown ==
  /\ \A j \in Jobs : Busy(j) /\ jobs[j].pc \in OnAPage => IsOf(jobs[j].page, jobs[j].doc)
  /\ \A d \in Docs : docMap[d] # None => IsOf(docMap[d].page, d)

\* One sync at most has the document; once it has fetched it, it lives.
HeldWell(d) ==
  /\ \A i, j \in Jobs : Holds(i, d) /\ Holds(j, d) => i = j
  /\ \A j \in Jobs : Fetched(j, d) => d \in LiveDocs

\* Its one page is mapped or about to be; a document still to come has none.
PagedWell(d) ==
  /\ \A p, q \in Pages : IsOf(p, d) /\ IsOf(q, d) => p = q
  /\ \A p \in Pages : IsOf(p, d) => d \in born
  /\ \A p \in Pages : IsOf(p, d) /\ d \in LiveDocs =>
       \/ docMap[d] # None /\ docMap[d].page = p
       \/ \E j \in Jobs : Writes(j, d) /\ jobs[j].page = p
  /\ \A j \in Jobs : Holds(j, d) /\ jobs[j].pc = "create" => docMap[d] = None
  /\ \A j \in Jobs : Holds(j, d) /\ jobs[j].pc \in OnAPage /\ docMap[d] # None => docMap[d].page = jobs[j].page

\* What the page says between the calls of a sync.
SaysWell(d) ==
  /\ docMap[d] # None /\ (\A j \in Jobs : ~Writes(j, d)) => pages[docMap[d].page].has = {docMap[d].hash}
  /\ \A j \in Jobs : Holds(j, d) /\ jobs[j].pc = "write" => pages[jobs[j].page].has = {}
  /\ \A j \in Jobs : Holds(j, d) /\ jobs[j].pc = "record" => pages[jobs[j].page].has = {jobs[j].hash}

WillList(d) == Syncing /\ (jobs["full"].pc \in {"space", "tree"} \/ docs[d].folder \in jobs["full"].lists)

\* A living document is still to be synced, again if it is in hand.
Noted(d) ==
  \/ d \in pendingDocs \/ pendingFolders
  \/ \E j \in Jobs : Busy(j) /\ jobs[j].pc # "cleanup" /\ d \in jobs[j].todo
  \/ WillList(d)

\* The mapping of a document that is gone will be found.
WillBeForgotten(d) ==
  \/ deleting # << >> \/ pendingFolders
  \/ Syncing /\ (jobs["full"].pc # "cleanup" \/ d \in jobs["full"].todo)

FollowedWell(d) ==
  /\ d \in LiveDocs /\ Stale(d) => Noted(d) \/ \E j \in Jobs : Holds(j, d)
  /\ \A j \in Jobs : Fetched(j, d) /\ jobs[j].hash # Hash(d) => Noted(d)
  /\ d \notin LiveDocs /\ docMap[d] # None => WillBeForgotten(d)

SyncInv ==
  /\ MemoryInv /\ SyncTypes /\ JobsAreShaped /\ PagesAreKnown
  /\ \A d \in Docs \ syncDisturbed : HeldWell(d) /\ PagedWell(d) /\ SaysWell(d) /\ FollowedWell(d)

\* A property of the synchronisation holds of each document apart.
WellKept(d) == HeldWell(d) /\ PagedWell(d) /\ SaysWell(d) /\ FollowedWell(d)

LEMMA DocumentsAreWellKept ==
  ASSUME SyncInv, NEW d \in Docs \ syncDisturbed
  PROVE  WellKept(d)
BY DEF SyncInv, WellKept

\* What requests and statements of the memory do to the documents.
LEMMA MemoryEvents ==
  ASSUME TablesAreTyped
  PROVE  /\ FolderEvent => \A d \in Docs : docs'[d] \in {docs[d], None}
         /\ \A d \in Docs : DocumentEvent(d) =>
              /\ docs'[d] # None /\ deleting = << >>
              /\ \A e \in Docs \ {d} : docs'[e] = docs[e]
         /\ \A d \in Docs : DocumentDeletedEvent(d) =>
              /\ docs'[d] = None /\ deleting = << >>
              /\ \A e \in Docs \ {d} : docs'[e] = docs[e]
         /\ NoEvent =>
              /\ \A d \in Docs : docs'[d] \in {docs[d], None}
              /\ docs' # docs \/ deleting # << >> => deleting' # << >>
<1>1. ASSUME DeleteStatement
      PROVE  \A d \in Docs : docs'[d] \in {docs[d], None}
  BY <1>1 DEF DeleteStatement, DeleteDocuments, DeleteRow, Drop, TablesAreTyped
<1>2. FolderEvent => \A d \in Docs : docs'[d] \in {docs[d], None}
  BY <1>1 DEF FolderEvent, CreateFolder, DeleteFolderEnds
<1>3. ASSUME NEW d \in Docs, DocumentEvent(d)
      PROVE  /\ docs'[d] # None /\ deleting = << >>
             /\ \A e \in Docs \ {d} : docs'[e] = docs[e]
  <2>1. PICK f \in Folders, t \in Titles, c \in Versions, role \in Roles :
          CreateDocument(d, f, t, c, role) \/ UpdateDocument(d, f, t, c, role)
    BY <1>3 DEF DocumentEvent
  <2> DEFINE row == [folder |-> f, title |-> t, content |-> c, path |-> DocPath(f, t)]
  <2>2. docs' = [docs EXCEPT ![d] = row] /\ deleting = << >> /\ f \in LiveFolders
    BY <2>1 DEF CreateDocument, UpdateDocument, Put, Writing
  <2>3. row \in DocRow
    <3>1. folders[f].path \in Seq(Names)
      BY <2>2, RootIsThere DEF FolderRow
    <3>2. DocPath(f, t) \in Seq(Names \cup Titles)
      <4>1. folders[f].path \in Seq(Names \cup Titles)
        BY <3>1
      <4> QED BY <4>1, AppendProperties DEF DocPath
    <3> QED BY <3>2 DEF DocRow
  <2> HIDE DEF row
  <2> QED BY <2>2, <2>3, MemoryAssumption DEF TablesAreTyped
<1>4. ASSUME NEW d \in Docs, DocumentDeletedEvent(d)
      PROVE  /\ docs'[d] = None /\ deleting = << >>
             /\ \A e \in Docs \ {d} : docs'[e] = docs[e]
  BY <1>4 DEF DocumentDeletedEvent, DeleteDocument, Drop, Writing
<1>5. NoEvent => /\ \A d \in Docs : docs'[d] \in {docs[d], None}
                 /\ docs' # docs \/ deleting # << >> => deleting' # << >>
  BY <1>1 DEF NoEvent, UpdateFolder, DeleteFolderBegins, DeleteFolderGoesOn, Writing
<1> QED BY <1>2, <1>3, <1>4, <1>5

\* A change of the memory: who was deleted in a sync's hands is disturbed, who
\* is new has no page, and what has changed is noted.
LEMMA ChangesStep ==
  ASSUME SyncInv, Changes
  PROVE  SyncInv'
<1>0. TablesAreTyped /\ MemoryInv /\ SyncTypes
  BY DEF SyncInv, MemoryInv
<1>1. MemoryInv'
  <2>1. MemoryNext
    BY DEF Changes, MemoryNext
  <2> QED BY <1>0, <2>1, MemoryStep
<1>2. /\ jobs' = jobs /\ pages' = pages /\ born' = born \cup LiveDocs'
      /\ \A d \in Docs \ syncDisturbed' : d \in LiveDocs /\ d \notin LiveDocs' => \A j \in Jobs : ~Holds(j, d)
      /\ Docs \ syncDisturbed' \subseteq Docs \ syncDisturbed
  BY DEF Changes, Ghosts, LiveDocs
<1>3. /\ pendingDocs \subseteq pendingDocs' /\ pendingDocs' \subseteq Docs
      /\ pendingFolders' \in BOOLEAN /\ (pendingFolders => pendingFolders')
      /\ docMap' \in [Docs -> MapRow \cup {None}]
      /\ \A d \in Docs : docMap'[d] = docMap[d] \/ (docMap'[d] = None /\ d \notin LiveDocs')
  BY <1>0, MemoryEvents DEF Changes, FolderHeard, DocumentHeard, DeletionHeard, Untold, SyncTypes, LiveDocs
<1>4. \A d \in Docs :
        \/ docs'[d] = docs[d]
        \/ docs'[d] = None
        \/ d \in pendingDocs' /\ (d \in LiveDocs \/ d \notin born)
  BY <1>0, MemoryEvents DEF Changes, DocumentHeard, LiveDocs
<1>5. \A d \in Docs :
        docMap'[d] # None /\ docs'[d] = None /\ (docs[d] # None \/ deleting # << >>) =>
          pendingFolders' \/ deleting' # << >>
  <2>1. CASE FolderEvent /\ FolderHeard
    BY <2>1 DEF FolderHeard
  <2>2. ASSUME NEW d \in Docs, DocumentEvent(d), DocumentHeard(d)
        PROVE  \A e \in Docs : ~(docs'[e] = None /\ (docs[e] # None \/ deleting # << >>))
    BY <1>0, <2>2, MemoryEvents
  <2>3. ASSUME NEW d \in Docs, DocumentDeletedEvent(d), DeletionHeard(d)
        PROVE  \A e \in Docs :
                 docMap'[e] # None => ~(docs'[e] = None /\ (docs[e] # None \/ deleting # << >>))
    BY <1>0, <2>3, MemoryEvents DEF DeletionHeard, SyncTypes
  <2>4. CASE NoEvent /\ Untold
    BY <1>0, <2>4, MemoryEvents
  <2> QED BY <2>1, <2>2, <2>3, <2>4 DEF Changes
<1>6. SyncTypes'
  BY <1>0, <1>2, <1>3 DEF SyncTypes, LiveDocs
<1>7. JobsAreShaped' /\ PagesAreKnown'
  BY <1>2, <1>3 DEF SyncInv, JobsAreShaped, Busy, Shape, PagesAreKnown, IsOf
<1>8. ASSUME NEW d \in Docs \ syncDisturbed'
      PROVE  WellKept(d)'
  <2>0. WellKept(d) /\ d \in Docs
    BY <1>2, DocumentsAreWellKept
  <2>1. HeldWell(d)'
    BY <1>2, <2>0 DEF WellKept, HeldWell, Holds, Fetched, Busy, LiveDocs
  <2>2. d \in LiveDocs' => d \in LiveDocs \/ d \notin born
    BY <1>4, <2>0 DEF LiveDocs
  <2>3. PagedWell(d)'
    BY <1>2, <1>3, <2>0, <2>2 DEF WellKept, PagedWell, Holds, Writes, Busy, IsOf
  <2>4. SaysWell(d)'
    BY <1>2, <1>3, <2>0 DEF WellKept, SaysWell, Holds, Writes, Busy
  <2>5. FollowedWell(d)'
    <3>1. CASE d \in pendingDocs' /\ d \in LiveDocs'
      BY <3>1 DEF FollowedWell, Noted
    <3>2. CASE d \in LiveDocs' /\ d \notin pendingDocs'
      <4>1. docs'[d] = docs[d] /\ docMap'[d] = docMap[d] /\ d \in LiveDocs
        BY <1>3, <1>4, <2>0, <3>2 DEF LiveDocs
      <4>2. Noted(d) => Noted(d)'
        BY <1>2, <1>3, <4>1 DEF Noted, WillList, Syncing, Busy
      <4>3. (Stale(d)' <=> Stale(d)) /\ Hash(d)' = Hash(d)
        BY <3>2, <4>1 DEF Stale, Hash
      <4> QED BY <1>2, <2>0, <3>2, <4>1, <4>2, <4>3 DEF WellKept, FollowedWell, Holds, Fetched, Busy
    <3>3. CASE d \notin LiveDocs'
      <4>1. \A j \in Jobs : ~Fetched(j, d)'
        BY <2>1, <3>3 DEF HeldWell
      <4>2. ASSUME docMap'[d] # None
            PROVE  WillBeForgotten(d)'
        <5>1. CASE docs[d] # None \/ deleting # << >>
          BY <1>5, <2>0, <3>3, <4>2, <5>1 DEF WillBeForgotten, LiveDocs
        <5>2. CASE docs[d] = None /\ deleting = << >>
          <6>1. docMap[d] # None /\ d \notin LiveDocs
            BY <1>3, <2>0, <4>2, <5>2 DEF LiveDocs
          <6> QED BY <1>2, <1>3, <2>0, <5>2, <6>1 DEF WellKept, FollowedWell, WillBeForgotten, Syncing, Busy
        <5> QED BY <5>1, <5>2
      <4> QED BY <3>3, <4>1, <4>2 DEF FollowedWell
    <3> QED BY <3>1, <3>2, <3>3
  <2> QED BY <2>1, <2>3, <2>4, <2>5 DEF WellKept
<1> QED BY <1>1, <1>6, <1>7, <1>8 DEF SyncInv, WellKept

(* One step of a sync. ******************************************************)

\* A step of the sync of one document is nothing to another.
LEMMA OtherDocument ==
  ASSUME SyncInv, NEW j \in Jobs, \A i \in Jobs \ {j} : jobs'[i] = jobs[i],
         NEW d \in Docs \ syncDisturbed, ~Holds(j, d), ~Holds(j, d)',
         UNCHANGED <<docs, born>>, docMap'[d] = docMap[d],
         \A p \in Pages : (IsOf(p, d)' <=> IsOf(p, d)) /\ (IsOf(p, d) => pages'[p] = pages[p]),
         d \in LiveDocs /\ Noted(d) => Noted(d)',
         d \notin LiveDocs /\ docMap[d] # None /\ WillBeForgotten(d) => WillBeForgotten(d)'
  PROVE  WellKept(d)'
<1>0. WellKept(d) /\ (LiveDocs' = LiveDocs) /\ (Hash(d)' = Hash(d)) /\ (Stale(d)' <=> Stale(d))
  BY DocumentsAreWellKept DEF LiveDocs, Hash, Stale
<1>1. \A i \in Jobs : Holds(i, d)' <=> Holds(i, d)
  BY DEF Holds, Busy
<1>2. \A i \in Jobs : Holds(i, d) => jobs'[i] = jobs[i]
  OBVIOUS
<1>3. \A i \in Jobs : (Fetched(i, d)' <=> Fetched(i, d)) /\ (Writes(i, d)' <=> Writes(i, d))
  BY <1>1, <1>2 DEF Fetched, Writes
<1>4. HeldWell(d)'
  BY <1>0, <1>1, <1>3 DEF WellKept, HeldWell
<1>5. PagedWell(d)'
  <2>0. PagedWell(d) /\ born' = born /\ docMap'[d] = docMap[d] /\ \A p \in Pages : IsOf(p, d)' <=> IsOf(p, d)
    BY <1>0 DEF WellKept
  <2>1. \A p \in Pages : IsOf(p, d)' /\ d \in LiveDocs' =>
          \/ docMap'[d] # None /\ docMap'[d].page = p
          \/ \E i \in Jobs : Writes(i, d)' /\ jobs'[i].page = p
    BY <1>0, <1>2, <1>3, <2>0 DEF PagedWell, Writes
  <2>2. \A i \in Jobs : Holds(i, d)' /\ jobs'[i].pc = "create" => docMap'[d] = None
    BY <1>1, <1>2, <2>0 DEF PagedWell
  <2>3. \A i \in Jobs :
          Holds(i, d)' /\ jobs'[i].pc \in OnAPage /\ docMap'[d] # None => docMap'[d].page = jobs'[i].page
    BY <1>1, <1>2, <2>0 DEF PagedWell
  <2>4. \A p, q \in Pages : IsOf(p, d)' /\ IsOf(q, d)' => p = q
    BY <2>0 DEF PagedWell
  <2>5. \A p \in Pages : IsOf(p, d)' => d \in born'
    BY <2>0 DEF PagedWell
  <2> QED BY <2>1, <2>2, <2>3, <2>4, <2>5 DEF PagedWell
<1>6. SaysWell(d)'
  <2>1. \A i \in Jobs : Writes(i, d) => jobs[i].page \in Pages /\ IsOf(jobs[i].page, d)
    BY DEF SyncInv, PagesAreKnown, SyncTypes, Job, JobsAreShaped, Shape, Writes, Holds, OnAPage, Busy
  <2>2. docMap[d] # None => docMap[d].page \in Pages /\ IsOf(docMap[d].page, d)
    BY DEF SyncInv, PagesAreKnown, SyncTypes, MapRow
  <2> QED BY <1>0, <1>1, <1>2, <1>3, <2>1, <2>2 DEF WellKept, SaysWell, Writes
<1>7. FollowedWell(d)'
  <2>0. FollowedWell(d)
    BY <1>0 DEF WellKept
  <2>1. d \in LiveDocs' /\ Stale(d)' => Noted(d)' \/ \E i \in Jobs : Holds(i, d)'
    BY <1>0, <1>1, <2>0 DEF FollowedWell
  <2>2. ASSUME NEW i \in Jobs, Fetched(i, d)', jobs'[i].hash # Hash(d)'
        PROVE  Noted(d)'
    <3>1. Fetched(i, d) /\ jobs'[i] = jobs[i] /\ d \in LiveDocs
      BY <1>0, <1>2, <1>3, <2>2 DEF Fetched, WellKept, HeldWell
    <3> QED BY <1>0, <2>0, <2>2, <3>1 DEF FollowedWell
  <2>3. d \notin LiveDocs' /\ docMap'[d] # None => WillBeForgotten(d)'
    BY <1>0, <2>0 DEF FollowedWell
  <2> QED BY <2>1, <2>2, <2>3 DEF FollowedWell
<1> QED BY <1>4, <1>5, <1>6, <1>7 DEF WellKept

\* A sync that moves on.
LEMMA JobMoves ==
  ASSUME SyncTypes, NEW j \in Jobs, NEW job \in Job, Becomes(j, job)
  PROVE  /\ jobs' \in [Jobs -> Job \cup {None}] /\ jobs'[j] = job /\ job # None
         /\ \A i \in Jobs \ {j} : jobs'[i] = jobs[i]
BY SyncAssumption DEF Becomes, SyncTypes

\* What a sync has still to come to stays noted while it goes on.
Keeps(j, job) ==
  /\ job.todo = jobs[j].todo /\ job.lists = jobs[j].lists
  /\ job.pc = "cleanup" <=> jobs[j].pc = "cleanup"
  /\ j = "full" /\ jobs[j].pc \in {"space", "tree"} => job.pc \in {"space", "tree"}

LEMMA NotesAreKept ==
  ASSUME SyncTypes, NEW j \in Jobs, Busy(j), NEW job \in Job, Becomes(j, job), Keeps(j, job), NEW d \in Docs,
         UNCHANGED <<docs, deleting, pendingDocs, pendingFolders>>
  PROVE  (Noted(d) => Noted(d)') /\ (WillBeForgotten(d) => WillBeForgotten(d)')
<1>1. \A i \in Jobs : (Busy(i)' <=> Busy(i)) /\ (Busy(i) =>
        /\ jobs'[i].todo = jobs[i].todo /\ jobs'[i].lists = jobs[i].lists
        /\ jobs'[i].pc = "cleanup" <=> jobs[i].pc = "cleanup"
        /\ i = "full" /\ jobs[i].pc \in {"space", "tree"} => jobs'[i].pc \in {"space", "tree"})
  BY JobMoves DEF Keeps, Busy
<1>2. "full" \in Jobs
  BY DEF Jobs
<1> QED BY <1>1, <1>2 DEF Noted, WillList, WillBeForgotten, Syncing

\* One step of a sync.  What is left to show of it: where its job is, that the
\* pages it knows are of their documents, and what becomes of the document in hand.
LEMMA StepOfASync ==
  ASSUME SyncInv, NEW j \in Jobs, NEW job \in Job, Becomes(j, job), Shape(j, job),
         UNCHANGED <<memoryVars, pendingDocs, pendingFolders, born>>,
         docMap' \in [Docs -> MapRow \cup {None}], pages' \in [Pages -> PageRow \cup {None}],
         job.pc \in OnAPage => IsOf(job.page, job.doc)',
         \A p \in Pages, d \in Docs : IsOf(p, d) => IsOf(p, d)',
         \A d \in Docs : docMap'[d] # None /\ docMap'[d] # docMap[d] => IsOf(docMap[d].page, d)',
         syncDisturbed \subseteq syncDisturbed',
         \A d \in Docs \ syncDisturbed' : WellKept(d)'
  PROVE  SyncInv'
<1>0. MemoryInv /\ SyncTypes /\ JobsAreShaped /\ PagesAreKnown
  BY DEF SyncInv
<1>1. MemoryInv'
  BY <1>0, MemoryStutters
<1>2. /\ jobs' \in [Jobs -> Job \cup {None}] /\ jobs'[j] = job /\ job # None
      /\ \A i \in Jobs \ {j} : jobs'[i] = jobs[i]
  BY <1>0, JobMoves
<1>3. SyncTypes'
  BY <1>0, <1>2 DEF SyncTypes, LiveDocs, memoryVars
<1>4. JobsAreShaped'
  BY <1>0, <1>2 DEF JobsAreShaped, Busy, Shape
<1>5. PagesAreKnown'
  <2>1. ASSUME NEW i \in Jobs, Busy(i)', jobs'[i].pc \in OnAPage
        PROVE  IsOf(jobs[i].page, jobs[i].doc)'
    <3>1. CASE i = j
      BY <1>2, <2>1, <3>1
    <3>2. CASE i # j
      <4>1. jobs'[i] = jobs[i] /\ Busy(i) /\ jobs[i] \in Job
        BY <1>0, <1>2, <2>1, <3>2 DEF Busy, SyncTypes
      <4>2. jobs[i].page \in Pages /\ jobs[i].doc \in Docs
        BY <1>0, <2>1, <4>1 DEF JobsAreShaped, Shape, Job, OnAPage
      <4> QED BY <1>0, <2>1, <4>1, <4>2 DEF PagesAreKnown
    <3> QED BY <3>1, <3>2
  <2>2. ASSUME NEW d \in Docs, docMap'[d] # None
        PROVE  IsOf(docMap[d].page, d)'
    <3>1. CASE docMap'[d] = docMap[d]
      <4>1. docMap[d].page \in Pages
        BY <1>0, <2>2, <3>1 DEF SyncTypes, MapRow
      <4> QED BY <1>0, <2>2, <3>1, <4>1 DEF PagesAreKnown
    <3> QED BY <2>2, <3>1
  <2> QED BY <2>1, <2>2 DEF PagesAreKnown
<1> QED BY <1>1, <1>3, <1>4, <1>5 DEF SyncInv, WellKept

\* Only one sync holds an undisturbed document.
LEMMA OneHolder ==
  ASSUME SyncInv, NEW j \in Jobs, NEW job \in Job, Becomes(j, job), NEW d \in Docs \ syncDisturbed, Holds(j, d)
  PROVE  /\ \A i \in Jobs : Holds(i, d) <=> i = j
         /\ \A i \in Jobs : Holds(i, d)' <=> i = j /\ job.doc = d
         /\ \A i \in Jobs : Fetched(i, d) <=> i = j /\ jobs[j].pc \in Past
         /\ \A i \in Jobs : Fetched(i, d)' <=> i = j /\ job.doc = d /\ job.pc \in Past
         /\ \A i \in Jobs : Writes(i, d) <=> i = j /\ jobs[j].pc \in {"write", "record"}
         /\ \A i \in Jobs : Writes(i, d)' <=> i = j /\ job.doc = d /\ job.pc \in {"write", "record"}
         /\ jobs'[j] = job
<1>1. \A i \in Jobs : Holds(i, d) <=> i = j
  BY DocumentsAreWellKept DEF WellKept, HeldWell
<1>2. jobs'[j] = job /\ job # None /\ \A i \in Jobs \ {j} : jobs'[i] = jobs[i]
  BY JobMoves DEF SyncInv
<1>3. \A i \in Jobs : Holds(i, d)' <=> i = j /\ job.doc = d
  BY <1>1, <1>2 DEF Holds, Busy
<1> QED BY <1>1, <1>2, <1>3 DEF Fetched, Writes

\* What a sync has.
LEMMA JobInHand ==
  ASSUME SyncInv, NEW j \in Jobs, Busy(j)
  PROVE  jobs[j] \in Job /\ Shape(j, jobs[j])
BY DEF SyncInv, SyncTypes, JobsAreShaped, Busy

\* A sync that goes on, with the document it has in hand or done with it.
LEMMA GoesOn ==
  ASSUME SyncInv, NEW j \in Jobs, Busy(j), NEW job \in Job, Becomes(j, job), Shape(j, job), Keeps(j, job),
         UNCHANGED <<memoryVars, pendingDocs, pendingFolders, born>>,
         docMap' \in [Docs -> MapRow \cup {None}], pages' \in [Pages -> PageRow \cup {None}],
         syncDisturbed \subseteq syncDisturbed', job.doc \in {jobs[j].doc, None},
         job.pc \in OnAPage => IsOf(job.page, job.doc)',
         \A d \in Docs : docMap'[d] # None /\ docMap'[d] # docMap[d] => IsOf(docMap[d].page, d)',
         \A p \in Pages, d \in Docs : IsOf(p, d) => IsOf(p, d)',
         \A d \in Docs \ {jobs[j].doc} :
           /\ docMap'[d] = docMap[d]
           /\ \A p \in Pages : (IsOf(p, d)' <=> IsOf(p, d)) /\ (IsOf(p, d) => pages'[p] = pages[p]),
         \A d \in Docs \ syncDisturbed' : Holds(j, d) => WellKept(d)'
  PROVE  SyncInv'
<1>0. SyncTypes /\ UNCHANGED <<docs, deleting>>
  BY DEF SyncInv, memoryVars
<1>1. jobs'[j] = job /\ \A i \in Jobs \ {j} : jobs'[i] = jobs[i]
  BY <1>0, JobMoves
<1>2. ASSUME NEW d \in Docs \ syncDisturbed'
      PROVE  WellKept(d)'
  <2>1. CASE ~Holds(j, d)
    <3>1. ~Holds(j, d)' /\ d # jobs[j].doc
      BY <1>1, <2>1, MemoryAssumption DEF Holds
    <3>2. (Noted(d) => Noted(d)') /\ (WillBeForgotten(d) => WillBeForgotten(d)')
      BY <1>0, NotesAreKept
    <3> QED BY <1>0, <1>1, <2>1, <3>1, <3>2, OtherDocument
  <2> QED BY <2>1
<1> QED BY <1>2, StepOfASync

\* Before it writes, all that changes of the document in hand is how far it is.
LEMMA InHand ==
  ASSUME SyncInv, NEW j \in Jobs, Busy(j), NEW job \in Job, Becomes(j, job), Keeps(j, job),
         UNCHANGED <<memoryVars, pendingDocs, pendingFolders, born>>,
         NEW d \in Docs \ syncDisturbed, Holds(j, d), docMap'[d] = docMap[d],
         \A p \in Pages : (IsOf(p, d)' <=> IsOf(p, d)) /\ (IsOf(p, d) => pages'[p] = pages[p]),
         job.doc = d, jobs[j].pc \notin {"write", "record"}, job.pc \notin {"write", "record"},
         job.pc = "create" => docMap[d] = None,
         job.pc = "clear" => docMap[d] # None /\ docMap[d].page = job.page,
         job.pc \in Past => d \in LiveDocs /\ (job.hash # Hash(d) => Noted(d))
  PROVE  WellKept(d)'
<1>0. WellKept(d) /\ LiveDocs' = LiveDocs /\ Hash(d)' = Hash(d) /\ (Stale(d)' <=> Stale(d))
  BY DocumentsAreWellKept DEF LiveDocs, Hash, Stale, memoryVars
<1>1. /\ \A i \in Jobs : Holds(i, d) <=> i = j
      /\ \A i \in Jobs : Holds(i, d)' <=> i = j
      /\ \A i \in Jobs : Fetched(i, d)' <=> i = j /\ job.pc \in Past
      /\ \A i \in Jobs : ~Writes(i, d) /\ ~Writes(i, d)'
      /\ jobs'[j] = job
  BY OneHolder
<1>2. (Noted(d) => Noted(d)') /\ (WillBeForgotten(d) => WillBeForgotten(d)')
  BY NotesAreKept DEF SyncInv, memoryVars
<1>3. HeldWell(d)'
  BY <1>0, <1>1 DEF HeldWell
<1>4. PagedWell(d)'
  BY <1>0, <1>1 DEF WellKept, PagedWell, OnAPage
<1>5. SaysWell(d)'
  <2>1. docMap[d] # None => docMap[d].page \in Pages /\ IsOf(docMap[d].page, d)
    BY DEF SyncInv, PagesAreKnown, SyncTypes, MapRow
  <2> QED BY <1>0, <1>1, <2>1 DEF WellKept, SaysWell
<1>6. FollowedWell(d)'
  BY <1>0, <1>1, <1>2 DEF WellKept, FollowedWell
<1> QED BY <1>3, <1>4, <1>5, <1>6 DEF WellKept

\* Done with the document: its page is mapped and says what the mapping does,
\* and if that is not what the document says, it is noted.
LEMMA PutDown ==
  ASSUME SyncInv, NEW j \in Jobs, Busy(j), NEW job \in Job, Becomes(j, job), Keeps(j, job),
         UNCHANGED <<memoryVars, pendingDocs, pendingFolders, born>>,
         NEW d \in Docs \ syncDisturbed, Holds(j, d), job.doc = None,
         \A p \in Pages : IsOf(p, d)' <=> IsOf(p, d),
         \A p \in Pages : IsOf(p, d) /\ d \in LiveDocs => docMap'[d] # None /\ docMap'[d].page = p,
         docMap'[d] # None => pages'[docMap'[d].page].has = {docMap'[d].hash},
         d \in LiveDocs /\ Stale(d)' => Noted(d),
         d \notin LiveDocs /\ docMap'[d] # None => WillBeForgotten(d)
  PROVE  WellKept(d)'
<1>0. WellKept(d) /\ LiveDocs' = LiveDocs
  BY DocumentsAreWellKept DEF LiveDocs, memoryVars
<1>1. \A i \in Jobs : ~Holds(i, d)' /\ ~Fetched(i, d)' /\ ~Writes(i, d)'
  BY OneHolder, MemoryAssumption
<1>2. (Noted(d) => Noted(d)') /\ (WillBeForgotten(d) => WillBeForgotten(d)')
  BY NotesAreKept DEF SyncInv, memoryVars
<1>3. HeldWell(d)'
  BY <1>1 DEF HeldWell
<1>4. PagedWell(d)'
  BY <1>0, <1>1 DEF WellKept, PagedWell
<1>5. SaysWell(d)'
  BY <1>1 DEF SaysWell
<1>6. FollowedWell(d)'
  BY <1>0, <1>1, <1>2 DEF FollowedWell
<1> QED BY <1>3, <1>4, <1>5, <1>6 DEF WellKept

(* Syncs that begin, list and end. ******************************************)

LEMMA SyncStutters ==
  ASSUME SyncInv, UNCHANGED <<memoryVars, pendingDocs, pendingFolders, jobs, docMap, pages, born, syncDisturbed>>
  PROVE  SyncInv'
<1>1. MemoryInv'
  BY MemoryStutters DEF SyncInv
<1>2. SyncTypes' /\ JobsAreShaped' /\ PagesAreKnown'
  BY DEF SyncInv, SyncTypes, JobsAreShaped, PagesAreKnown, Shape, Busy, IsOf, LiveDocs, memoryVars
<1>3. ASSUME NEW d \in Docs \ syncDisturbed'
      PROVE  WellKept(d)'
  <2>1. WellKept(d)
    BY <1>3, DocumentsAreWellKept
  <2>2. HeldWell(d)' /\ PagedWell(d)' /\ SaysWell(d)'
    BY <2>1 DEF WellKept, HeldWell, PagedWell, SaysWell, Holds, Fetched, Writes, Busy, IsOf, LiveDocs, memoryVars
  <2>3. (Noted(d) => Noted(d)') /\ (WillBeForgotten(d) => WillBeForgotten(d)')
    BY DEF Noted, WillList, WillBeForgotten, Syncing, Busy, memoryVars
  <2>4. FollowedWell(d)'
    BY <2>1, <2>3 DEF WellKept, FollowedWell, Stale, Hash, Holds, Fetched, Busy, LiveDocs, memoryVars
  <2> QED BY <2>2, <2>4 DEF WellKept
<1> QED BY <1>1, <1>2, <1>3 DEF SyncInv, WellKept

\* A step of the sync of documents that are all someone else's.
LEMMA NoneInHand ==
  ASSUME SyncInv, NEW j \in Jobs, jobs' \in [Jobs -> Job \cup {None}], \A i \in Jobs \ {j} : jobs'[i] = jobs[i],
         Busy(j) => jobs[j].doc = None,
         jobs'[j] # None => jobs'[j].doc = None /\ Shape(j, jobs'[j]),
         UNCHANGED <<memoryVars, docMap, pages, born>>, syncDisturbed \subseteq syncDisturbed',
         pendingDocs' \subseteq Docs, pendingFolders' \in BOOLEAN,
         \A d \in Docs \ syncDisturbed' :
           /\ d \in LiveDocs /\ Noted(d) => Noted(d)'
           /\ d \notin LiveDocs /\ docMap[d] # None /\ WillBeForgotten(d) => WillBeForgotten(d)'
  PROVE  SyncInv'
<1>0. SyncTypes /\ JobsAreShaped /\ PagesAreKnown
  BY DEF SyncInv
<1>1. MemoryInv'
  BY MemoryStutters DEF SyncInv
<1>2. SyncTypes'
  BY <1>0 DEF SyncTypes, LiveDocs, memoryVars
<1>3. JobsAreShaped'
  BY <1>0 DEF JobsAreShaped, Busy, Shape
<1>4. PagesAreKnown'
  <2>1. ASSUME NEW i \in Jobs, Busy(i)', jobs'[i].pc \in OnAPage
        PROVE  IsOf(jobs[i].page, jobs[i].doc)'
    <3>1. i # j
      BY <2>1, MemoryAssumption DEF Shape, Busy, OnAPage
    <3>2. jobs'[i] = jobs[i] /\ Busy(i)
      BY <2>1, <3>1 DEF Busy
    <3> QED BY <1>0, <2>1, <3>2 DEF PagesAreKnown, IsOf
  <2> QED BY <1>0, <2>1 DEF PagesAreKnown, IsOf
<1>5. ASSUME NEW d \in Docs \ syncDisturbed'
      PROVE  WellKept(d)'
  <2>1. ~Holds(j, d) /\ ~Holds(j, d)' /\ d \in Docs \ syncDisturbed
    BY MemoryAssumption DEF Holds, Busy
  <2>2. \A p \in Pages : (IsOf(p, d)' <=> IsOf(p, d)) /\ (IsOf(p, d) => pages'[p] = pages[p])
    BY DEF IsOf
  <2> QED BY <2>1, <2>2, OtherDocument DEF memoryVars
<1> QED BY <1>1, <1>2, <1>3, <1>4, <1>5 DEF SyncInv, WellKept

LEMMA SyncBegins ==
  ASSUME SyncInv, NEW j \in Jobs, ~Busy(j), NEW todo \in SUBSET Docs, Starts(j, todo),
         UNCHANGED <<memoryVars, docMap, pages, born, syncDisturbed>>,
         pendingDocs' \subseteq Docs, pendingFolders' \in BOOLEAN,
         j = "full" \/ (pendingDocs \subseteq todo \cup pendingDocs' /\ pendingFolders' = pendingFolders)
  PROVE  SyncInv'
<1> DEFINE job == [pc |-> IF j = "full" THEN "space" ELSE "next", todo |-> todo, doc |-> None, folder |-> None,
                   hash |-> None, page |-> None, folders |-> {}, lists |-> {}]
<1>1. job \in Job /\ Shape(j, job) /\ job.doc = None /\ job.todo = todo /\ job.pc # "cleanup"
      /\ (j = "full" => job.pc = "space")
  BY DEF Job, Shape, Past, OnAPage
<1>2. SyncTypes /\ Becomes(j, job)
  BY DEF SyncInv, Starts, Becomes
<1> HIDE DEF job
<1>3. jobs' \in [Jobs -> Job \cup {None}] /\ jobs'[j] = job /\ job # None /\ \A i \in Jobs \ {j} : jobs'[i] = jobs[i]
  BY <1>1, <1>2, JobMoves
<1>4. \A i \in Jobs : Busy(i) => Busy(i)' /\ jobs'[i] = jobs[i]
  BY <1>3 DEF Busy
<1>5. ASSUME NEW d \in Docs
      PROVE  (Noted(d) => Noted(d)') /\ (WillBeForgotten(d) => WillBeForgotten(d)')
  <2>1. CASE j = "full"
    BY <1>1, <1>3, <2>1 DEF Noted, WillList, WillBeForgotten, Syncing, Busy, Jobs
  <2>2. CASE j # "full"
    <3>1. d \in pendingDocs /\ d \notin pendingDocs' => Busy(j)' /\ jobs'[j].pc # "cleanup" /\ d \in jobs'[j].todo
      BY <1>1, <1>3, <2>2 DEF Busy
    <3>2. Syncing => Syncing' /\ jobs'["full"] = jobs["full"]
      BY <1>4 DEF Syncing, Jobs
    <3>3. UNCHANGED <<docs, deleting, pendingFolders>>
      BY <2>2 DEF memoryVars
    <3> QED BY <1>4, <3>1, <3>2, <3>3 DEF Noted, WillList, WillBeForgotten
  <2> QED BY <2>1, <2>2
<1> QED BY <1>1, <1>3, <1>5, NoneInHand DEF Busy

LEMMA SyncsBegin ==
  ASSUME SyncInv, TimerFires \/ SyncAll \/ \E d \in Docs : SyncDocument(d)
  PROVE  SyncInv'
<1>0. "full" \in Jobs /\ Slots \subseteq Jobs /\ pendingDocs \subseteq Docs /\ pendingFolders \in BOOLEAN /\ {} \subseteq Docs
      /\ "full" \notin Slots
  BY SyncAssumption DEF Jobs, SyncInv, SyncTypes
<1>1. CASE TimerFires
  <2>1. CASE TimerDuringSync
    BY <1>1, <2>1, SyncStutters DEF TimerFires, TimerDuringSync
  <2>2. CASE TimerStartsFull
    <3>1. pendingDocs' \subseteq Docs /\ pendingFolders' \in BOOLEAN /\ {} \in SUBSET Docs /\ ~Busy("full")
      BY <2>2 DEF TimerStartsFull, Syncing
    <3>2. Starts("full", {}) /\ UNCHANGED <<memoryVars, docMap, pages, born, syncDisturbed>>
      BY <1>1, <2>2 DEF TimerFires, TimerStartsFull
    <3> QED BY <1>0, <3>1, <3>2, SyncBegins
  <2>3. CASE TimerStartsSome
    <3>1. PICK j \in Slots : ~Busy(j) /\ Starts(j, pendingDocs)
      BY <2>3 DEF TimerStartsSome
    <3> QED BY <1>0, <1>1, <2>3, <3>1, SyncBegins DEF TimerFires, TimerStartsSome
  <2> QED BY <1>1, <2>1, <2>2, <2>3 DEF TimerFires
<1>2. CASE SyncAll
  BY <1>0, <1>2, SyncBegins DEF SyncAll, Requested, Syncing
<1>3. ASSUME NEW d \in Docs, SyncDocument(d)
      PROVE  SyncInv'
  <2>1. PICK j \in Slots : ~Busy(j) /\ Starts(j, {d})
    BY <1>3 DEF SyncDocument
  <2> QED BY <1>0, <1>3, <2>1, SyncBegins DEF SyncDocument, Requested
<1> QED BY <1>1, <1>2, <1>3

LEMMA ListDocumentsStep ==
  ASSUME SyncInv, ListDocuments
  PROVE  SyncInv'
<1>0. "full" \in Jobs /\ SyncTypes /\ Busy("full")
  BY DEF Jobs, SyncInv, ListDocuments, At
<1>1. jobs["full"] \in Job /\ Shape("full", jobs["full"]) /\ jobs["full"].pc = "next" /\ jobs["full"].todo = {}
  BY <1>0, JobInHand DEF ListDocuments, At
<1>2. PICK f \in jobs["full"].lists : \E todo \in SUBSET Listed(f, "admin") :
        /\ Becomes("full", [jobs["full"] EXCEPT !.lists = @ \ {f}, !.todo = todo])
        /\ GivesUp(Listed(f, "admin") \ todo)
  <2>1. PICK f \in jobs["full"].lists :
          \/ \E top \in Tops(f) :
               /\ GivesUp(Listed(f, "admin") \ top)
               /\ Becomes("full", [jobs["full"] EXCEPT !.lists = @ \ {f}, !.todo = top \cap Listed(f, "admin")])
          \/ /\ Becomes("full", [jobs["full"] EXCEPT !.lists = @ \ {f}])
             /\ GivesUp(Listed(f, "admin"))
    BY DEF ListDocuments
  <2>2. CASE \E top \in Tops(f) :
               /\ GivesUp(Listed(f, "admin") \ top)
               /\ Becomes("full", [jobs["full"] EXCEPT !.lists = @ \ {f}, !.todo = top \cap Listed(f, "admin")])
    <3>1. PICK top \in Tops(f) :
               /\ GivesUp(Listed(f, "admin") \ top)
               /\ Becomes("full", [jobs["full"] EXCEPT !.lists = @ \ {f}, !.todo = top \cap Listed(f, "admin")])
      BY <2>2
    <3>2. Listed(f, "admin") \ top = Listed(f, "admin") \ (top \cap Listed(f, "admin"))
      OBVIOUS
    <3> QED BY <3>1, <3>2
  <2>3. CASE /\ Becomes("full", [jobs["full"] EXCEPT !.lists = @ \ {f}])
             /\ GivesUp(Listed(f, "admin"))
    <3>1. [jobs["full"] EXCEPT !.lists = @ \ {f}] = [jobs["full"] EXCEPT !.lists = @ \ {f}, !.todo = {}]
      BY <1>1 DEF Job
    <3>2. Listed(f, "admin") = Listed(f, "admin") \ {} /\ {} \in SUBSET Listed(f, "admin")
      OBVIOUS
    <3> QED BY <2>3, <3>1, <3>2
  <2> QED BY <2>1, <2>2, <2>3
<1>3. PICK todo \in SUBSET Listed(f, "admin") :
        /\ Becomes("full", [jobs["full"] EXCEPT !.lists = @ \ {f}, !.todo = todo])
        /\ GivesUp(Listed(f, "admin") \ todo)
        /\ syncDisturbed \subseteq syncDisturbed'
  BY <1>2 DEF GivesUp
<1>4. Listed(f, "admin") = {d \in LiveDocs : docs[d].folder = f}
  BY DEF Listed, Accessible
<1>5. PICK job : job = [jobs["full"] EXCEPT !.lists = @ \ {f}, !.todo = todo]
  OBVIOUS
<1>6. /\ job \in Job /\ Shape("full", job) /\ job.pc = "next" /\ job.doc = None /\ jobs["full"].doc = None
      /\ job.lists = jobs["full"].lists \ {f} /\ job.todo = todo
  BY <1>1, <1>3, <1>4, <1>5 DEF Job, Shape, LiveDocs
<1>7. jobs' \in [Jobs -> Job \cup {None}] /\ jobs'["full"] = job /\ \A i \in Jobs \ {"full"} : jobs'[i] = jobs[i]
  BY <1>0, <1>3, <1>5, <1>6, JobMoves
<1>8. UNCHANGED <<memoryVars, docMap, pages, born, pendingDocs, pendingFolders>>
  BY DEF ListDocuments, Unmoved
<1>9. ASSUME NEW d \in Docs \ syncDisturbed'
      PROVE  /\ d \in LiveDocs /\ Noted(d) => Noted(d)'
             /\ WillBeForgotten(d) => WillBeForgotten(d)'
  <2>1. \A i \in Jobs : Busy(i)' <=> Busy(i)
    BY <1>0, <1>6, <1>7, SyncAssumption DEF Busy
  <2>2. WillBeForgotten(d) => WillBeForgotten(d)'
    BY <1>0, <1>6, <1>7, <1>8, <2>1 DEF WillBeForgotten, Syncing, memoryVars
  <2>3. ASSUME d \in LiveDocs, Noted(d)
        PROVE  Noted(d)'
    <3>1. CASE d \in pendingDocs \/ pendingFolders
      BY <1>8, <3>1 DEF Noted
    <3>2. ASSUME NEW i \in Jobs, Busy(i), jobs[i].pc # "cleanup", d \in jobs[i].todo
          PROVE  Noted(d)'
      BY <1>1, <1>7, <2>1, <3>2 DEF Noted
    <3>3. CASE WillList(d)
      <4>1. docs[d].folder \in jobs["full"].lists
        BY <1>1, <3>3 DEF WillList
      <4>2. CASE docs[d].folder = f
        BY <1>0, <1>3, <1>4, <1>6, <1>7, <2>1, <2>3, <4>2 DEF Noted, GivesUp
      <4>3. CASE docs[d].folder # f
        BY <1>0, <1>6, <1>7, <1>8, <2>1, <4>1, <4>3 DEF Noted, WillList, Syncing, memoryVars
      <4> QED BY <4>2, <4>3
    <3> QED BY <2>3, <3>1, <3>2, <3>3 DEF Noted
  <2> QED BY <2>2, <2>3
<1> QED BY <1>0, <1>3, <1>6, <1>7, <1>8, <1>9, NoneInHand DEF SyncTypes

\* The tree is listed: each living document is in a folder of it.
LEMMA TreeListed ==
  ASSUME SyncInv, At("full", "tree"), NEW job, job = [jobs["full"] EXCEPT
           !.pc = "folders", !.folders = Nodes(LiveFolders \ {Root}), !.lists = LiveFolders],
         Becomes("full", job), Unmoved, UNCHANGED <<docMap, pages, syncDisturbed>>
  PROVE  SyncInv'
<1>0. "full" \in Jobs /\ SyncTypes /\ Busy("full") /\ jobs["full"].pc = "tree"
  BY DEF Jobs, SyncInv, At
<1>1. jobs["full"] \in Job /\ Shape("full", jobs["full"])
  BY <1>0, JobInHand
<1>2. Nodes(LiveFolders \ {Root}) \subseteq [id : Folders, path : Seq(Names)] /\ LiveFolders \subseteq Folders
  BY DEF Nodes, Node, LiveFolders, SyncInv, MemoryInv, TablesAreTyped, FolderRow
<1>3. /\ job \in Job /\ Shape("full", job) /\ job.pc = "folders" /\ job.doc = None /\ jobs["full"].doc = None
      /\ job.lists = LiveFolders /\ job.todo = jobs["full"].todo
  BY <1>0, <1>1, <1>2 DEF Job, Shape, Past, OnAPage
<1>4. jobs' \in [Jobs -> Job \cup {None}] /\ jobs'["full"] = job /\ \A i \in Jobs \ {"full"} : jobs'[i] = jobs[i]
  BY <1>0, <1>3, JobMoves
<1>5. \A d \in LiveDocs : docs[d].folder \in LiveFolders
  BY DEF SyncInv, MemoryInv, TreeIsSound
<1>6. \A i \in Jobs : Busy(i)' <=> Busy(i)
  BY <1>0, <1>3, <1>4, SyncAssumption DEF Busy
<1>7. \A d \in LiveDocs : Noted(d) => Noted(d)'
  BY <1>0, <1>3, <1>4, <1>5, <1>6 DEF Noted, WillList, Syncing, Unmoved, memoryVars
<1>8. \A d \in Docs : WillBeForgotten(d) => WillBeForgotten(d)'
  BY <1>0, <1>3, <1>4, <1>6 DEF WillBeForgotten, Syncing, Unmoved, memoryVars
<1> QED BY <1>0, <1>3, <1>4, <1>7, <1>8, NoneInHand DEF Unmoved, SyncTypes

LEMMA CleanupBeginsStep ==
  ASSUME SyncInv, CleanupBegins
  PROVE  SyncInv'
<1>0. "full" \in Jobs /\ SyncTypes /\ Busy("full")
  BY DEF Jobs, SyncInv, CleanupBegins, At
<1>1. /\ jobs["full"] \in Job /\ Shape("full", jobs["full"]) /\ jobs["full"].pc = "next"
      /\ jobs["full"].todo = {} /\ jobs["full"].lists = {}
  BY <1>0, JobInHand DEF CleanupBegins, At
<1>2. PICK job : job = [jobs["full"] EXCEPT !.pc = "cleanup", !.todo = {d \in Docs : docMap[d] # None}]
  OBVIOUS
<1>3. /\ job \in Job /\ Shape("full", job) /\ job.pc = "cleanup" /\ job.doc = None /\ jobs["full"].doc = None
      /\ job.todo = {d \in Docs : docMap[d] # None}
  BY <1>1, <1>2 DEF Job, Shape, Past, OnAPage
<1>4. Becomes("full", job) /\ UNCHANGED <<memoryVars, docMap, pages, born, pendingDocs, pendingFolders, syncDisturbed>>
  BY <1>2 DEF CleanupBegins, Unmoved
<1>5. jobs' \in [Jobs -> Job \cup {None}] /\ jobs'["full"] = job /\ \A i \in Jobs \ {"full"} : jobs'[i] = jobs[i]
  BY <1>0, <1>3, <1>4, JobMoves
<1>6. \A i \in Jobs : Busy(i)' <=> Busy(i)
  BY <1>0, <1>3, <1>5, SyncAssumption DEF Busy
<1>7. \A d \in Docs : Noted(d) => Noted(d)'
  BY <1>0, <1>1, <1>4, <1>5, <1>6 DEF Noted, WillList
<1>8. \A d \in Docs : docMap[d] # None /\ WillBeForgotten(d) => WillBeForgotten(d)'
  BY <1>0, <1>3, <1>4, <1>5, <1>6 DEF WillBeForgotten, Syncing, memoryVars
<1> QED BY <1>0, <1>3, <1>4, <1>5, <1>7, <1>8, NoneInHand DEF SyncTypes

\* A sync that ends has nothing left to do.
LEMMA SyncEnds ==
  ASSUME SyncInv, NEW j \in Jobs, Busy(j), Ends(j), jobs[j].todo = {}, j = "full" => jobs[j].pc = "cleanup",
         j # "full" => jobs[j].pc = "next", Unmoved, UNCHANGED <<docMap, pages, syncDisturbed>>
  PROVE  SyncInv'
<1>0. SyncTypes /\ jobs[j] \in Job /\ Shape(j, jobs[j])
  BY JobInHand DEF SyncInv
<1>1. jobs[j].doc = None /\ (j = "full" => jobs[j].lists = {})
  BY <1>0 DEF Shape
<1>2. jobs' \in [Jobs -> Job \cup {None}] /\ jobs'[j] = None /\ \A i \in Jobs \ {j} : jobs'[i] = jobs[i]
  BY <1>0 DEF Ends, SyncTypes
<1>3. \A d \in Docs : Noted(d) => Noted(d)'
  BY <1>1, <1>2 DEF Noted, WillList, Syncing, Busy, Jobs, Unmoved, memoryVars
<1>4. \A d \in Docs : WillBeForgotten(d) => WillBeForgotten(d)'
  BY <1>2 DEF WillBeForgotten, Syncing, Busy, Jobs, Unmoved, memoryVars
<1> QED BY <1>0, <1>1, <1>2, <1>3, <1>4, NoneInHand DEF Unmoved, SyncTypes

LEMMA SyncsEnd ==
  ASSUME SyncInv, SyncAllReturns \/ \E j \in Jobs : SyncDocumentReturns(j)
  PROVE  SyncInv'
<1>1. CASE SyncAllReturns
  BY <1>1, SyncEnds DEF SyncAllReturns, At, Jobs
<1>2. ASSUME NEW j \in Jobs, SyncDocumentReturns(j)
      PROVE  SyncInv'
  BY <1>2, SyncEnds, SyncAssumption DEF SyncDocumentReturns, At
<1> QED BY <1>1, <1>2

LEMMA CleanupDocumentStep ==
  ASSUME SyncInv, CleanupDocument
  PROVE  SyncInv'
<1>0. "full" \in Jobs /\ SyncTypes /\ Busy("full")
  BY DEF Jobs, SyncInv, CleanupDocument, At
<1>1. jobs["full"] \in Job /\ Shape("full", jobs["full"]) /\ jobs["full"].pc = "cleanup"
  BY <1>0, JobInHand DEF CleanupDocument, At
<1>2. PICK e \in jobs["full"].todo :
        /\ Becomes("full", [jobs["full"] EXCEPT !.todo = @ \ {e}])
        /\ \/ e \in LiveDocs /\ UNCHANGED <<docMap, syncDisturbed>>
           \/ e \notin LiveDocs /\ docMap' = [docMap EXCEPT ![e] = None] /\ UNCHANGED syncDisturbed
           \/ docMap' = [docMap EXCEPT ![e] = None] /\ GivesUp({e})
  BY DEF CleanupDocument
<1>3. PICK job : job = [jobs["full"] EXCEPT !.todo = @ \ {e}]
  OBVIOUS
<1>4. /\ job \in Job /\ Shape("full", job) /\ job.pc = "cleanup" /\ job.doc = None /\ jobs["full"].doc = None
      /\ job.todo = jobs["full"].todo \ {e} /\ job.lists = jobs["full"].lists
  BY <1>1, <1>3 DEF Job, Shape, Past, OnAPage
<1>5. UNCHANGED <<memoryVars, pages, born, pendingDocs, pendingFolders>>
  BY DEF CleanupDocument, Unmoved
<1>6. jobs' \in [Jobs -> Job \cup {None}] /\ jobs'["full"] = job /\ job # None /\ \A i \in Jobs \ {"full"} : jobs'[i] = jobs[i]
  BY <1>0, <1>2, <1>3, <1>4, JobMoves
<1>7. \A i \in Jobs : Busy(i)' <=> Busy(i)
  BY <1>0, <1>6 DEF Busy
<1>8. /\ docMap' \in [Docs -> MapRow \cup {None}] /\ \A d \in Docs \ {e} : docMap'[d] = docMap[d]
      /\ \A d \in Docs : docMap'[d] \in {docMap[d], None}
      /\ e \in Docs
  BY <1>0, <1>1, <1>2 DEF SyncTypes, Job
<1>9. \A d \in Docs : Noted(d) => Noted(d)'
  BY <1>0, <1>1, <1>4, <1>5, <1>6, <1>7 DEF Noted, WillList, Syncing, memoryVars
<1>10. \A d \in Docs \ {e} : WillBeForgotten(d) => WillBeForgotten(d)'
  BY <1>0, <1>1, <1>4, <1>5, <1>6, <1>7 DEF WillBeForgotten, Syncing, memoryVars
<1>11. ASSUME NEW d \in Docs \ syncDisturbed'
       PROVE  WellKept(d)'
  <2>1. d \in Docs \ syncDisturbed /\ ~Holds("full", d) /\ ~Holds("full", d)'
    BY <1>2, <1>4, <1>6, MemoryAssumption DEF GivesUp, Holds
  <2>2. \A p \in Pages : (IsOf(p, d)' <=> IsOf(p, d)) /\ (IsOf(p, d) => pages'[p] = pages[p])
    BY <1>5 DEF IsOf
  <2>3. CASE d # e \/ d \in LiveDocs
    <3>1. docMap'[d] = docMap[d]
      BY <1>2, <1>8, <2>3 DEF GivesUp
    <3> QED BY <1>0, <1>5, <1>6, <1>9, <1>10, <2>1, <2>2, <2>3, <3>1, OtherDocument DEF memoryVars
  <2>4. CASE d = e /\ d \notin LiveDocs
    <3>1. docMap'[d] = None /\ LiveDocs' = LiveDocs /\ WellKept(d)
      BY <1>0, <1>2, <1>5, <1>8, <2>1, <2>4, DocumentsAreWellKept DEF SyncTypes, LiveDocs, memoryVars
    <3>2. \A i \in Jobs : (Holds(i, d)' <=> Holds(i, d)) /\ (Holds(i, d) => jobs'[i] = jobs[i])
      BY <1>6, <1>7, <2>1 DEF Holds
    <3>3. \A i \in Jobs : ~Fetched(i, d)' /\ ~Writes(i, d)'
      BY <2>4, <3>1, <3>2 DEF WellKept, HeldWell, Fetched, Writes, Past
    <3>4. HeldWell(d)'
      BY <3>1, <3>2, <3>3 DEF WellKept, HeldWell
    <3>5. PagedWell(d)'
      BY <1>5, <2>2, <2>4, <3>1 DEF WellKept, PagedWell
    <3>6. SaysWell(d)' /\ FollowedWell(d)'
      BY <2>4, <3>1, <3>3 DEF SaysWell, FollowedWell, Writes
    <3> QED BY <3>4, <3>5, <3>6 DEF WellKept
  <2> QED BY <2>3, <2>4
<1>12. SyncTypes' /\ JobsAreShaped' /\ PagesAreKnown'
  <2>1. SyncTypes'
    BY <1>0, <1>5, <1>6, <1>8 DEF SyncTypes, LiveDocs, memoryVars
  <2>2. JobsAreShaped'
    BY <1>4, <1>6, <1>7 DEF SyncInv, JobsAreShaped, Shape
  <2>3. PagesAreKnown'
    BY <1>4, <1>5, <1>6, <1>7, <1>8 DEF SyncInv, PagesAreKnown, IsOf, OnAPage
  <2> QED BY <2>1, <2>2, <2>3
<1>13. MemoryInv'
  BY <1>5, MemoryStutters DEF SyncInv
<1> QED BY <1>11, <1>12, <1>13 DEF SyncInv, WellKept

LEMMA NextDocumentStep ==
  ASSUME SyncInv, NEW j \in Jobs, NextDocument(j)
  PROVE  SyncInv'
<1>0. "full" \in Jobs /\ SyncTypes /\ Busy(j) /\ jobs[j] \in Job /\ Shape(j, jobs[j]) /\ jobs[j].pc = "next" /\ jobs[j].doc = None
  BY JobInHand DEF Jobs, SyncInv, NextDocument, At, Shape
<1>1. PICK e \in jobs[j].todo :
        /\ Becomes(j, [jobs[j] EXCEPT !.pc = IF j = "full" THEN "fetch" ELSE "space", !.todo = @ \ {e}, !.doc = e])
        /\ syncDisturbed' = IF \E i \in Jobs \ {j} : Holds(i, e) THEN syncDisturbed \cup {e} ELSE syncDisturbed
  BY DEF NextDocument
<1>2. PICK job : job = [jobs[j] EXCEPT !.pc = IF j = "full" THEN "fetch" ELSE "space", !.todo = @ \ {e}, !.doc = e]
  OBVIOUS
<1>3. e \in Docs
  BY <1>0 DEF Job
<1>4. /\ job \in Job /\ Shape(j, job) /\ job.doc = e /\ job.todo = jobs[j].todo \ {e} /\ job.lists = jobs[j].lists
      /\ job.pc \in {"fetch", "space"} /\ (j = "full" => job.pc = "fetch")
  <2>1. /\ job \in Job /\ job.doc = e /\ job.todo = jobs[j].todo \ {e} /\ job.lists = jobs[j].lists
        /\ job.pc = IF j = "full" THEN "fetch" ELSE "space"
    BY <1>0, <1>2, <1>3 DEF Job
  <2>2. e # None
    BY <1>3, MemoryAssumption
  <2> QED BY <2>1, <2>2 DEF Shape, Past, OnAPage
<1>5. Becomes(j, job) /\ UNCHANGED <<memoryVars, docMap, pages, born, pendingDocs, pendingFolders>>
  BY <1>1, <1>2 DEF NextDocument, Unmoved
<1>6. jobs'[j] = job /\ job # None /\ \A i \in Jobs \ {j} : jobs'[i] = jobs[i]
  BY <1>0, <1>4, <1>5, JobMoves
<1>7. \A i \in Jobs : Busy(i)' <=> Busy(i)
  BY <1>0, <1>6 DEF Busy
<1>8. \A d \in Docs \ {e} : Noted(d) => Noted(d)'
  BY <1>0, <1>4, <1>5, <1>6, <1>7 DEF Noted, WillList, Syncing, memoryVars
<1>9. \A d \in Docs : WillBeForgotten(d) => WillBeForgotten(d)'
  BY <1>0, <1>4, <1>5, <1>6, <1>7 DEF WillBeForgotten, Syncing, memoryVars
<1>10. ASSUME NEW d \in Docs \ syncDisturbed'
       PROVE  WellKept(d)'
  <2>1. d \in Docs \ syncDisturbed /\ ~Holds(j, d) /\ (Holds(j, d)' <=> d = e)
    BY <1>0, <1>1, <1>4, <1>6, MemoryAssumption DEF Holds, Busy
  <2>2. \A p \in Pages : (IsOf(p, d)' <=> IsOf(p, d)) /\ (IsOf(p, d) => pages'[p] = pages[p])
    BY <1>5 DEF IsOf
  <2>3. CASE d # e
    BY <1>5, <1>6, <1>8, <1>9, <2>1, <2>2, <2>3, OtherDocument DEF memoryVars
  <2>4. CASE d = e
    <3>1. \A i \in Jobs : ~Holds(i, d) /\ (Holds(i, d)' <=> i = j) /\ ~Fetched(i, d)' /\ ~Writes(i, d)'
      <4>1. \A i \in Jobs : ~Holds(i, d)
        BY <1>1, <2>1, <2>4
      <4>2. \A i \in Jobs : Holds(i, d)' <=> i = j
        BY <1>6, <1>7, <2>1, <2>4, <4>1 DEF Holds
      <4> QED BY <1>4, <1>6, <4>1, <4>2 DEF Fetched, Writes, Past
    <3>2. WellKept(d) /\ LiveDocs' = LiveDocs
      BY <1>5, <2>1, DocumentsAreWellKept DEF LiveDocs, memoryVars
    <3>3. HeldWell(d)'
      BY <3>1 DEF HeldWell
    <3>4. PagedWell(d)'
      BY <1>4, <1>5, <1>6, <2>2, <3>1, <3>2 DEF WellKept, PagedWell, OnAPage, Writes
    <3>5. SaysWell(d)'
      BY <1>4, <1>5, <1>6, <3>1, <3>2 DEF WellKept, SaysWell, Writes
    <3>6. FollowedWell(d)'
      BY <1>5, <1>9, <3>1, <3>2 DEF WellKept, FollowedWell
    <3> QED BY <3>3, <3>4, <3>5, <3>6 DEF WellKept
  <2> QED BY <2>3, <2>4
<1>11. syncDisturbed \subseteq syncDisturbed'
  BY <1>1
<1>12. /\ docMap' \in [Docs -> MapRow \cup {None}] /\ pages' \in [Pages -> PageRow \cup {None}]
       /\ job.pc \notin OnAPage
       /\ \A p \in Pages, d \in Docs : IsOf(p, d) => IsOf(p, d)'
       /\ docMap' = docMap
  BY <1>0, <1>4, <1>5 DEF SyncTypes, OnAPage, IsOf
<1> QED BY <1>4, <1>5, <1>10, <1>11, <1>12, StepOfASync

(* The document in hand. ****************************************************)

LEMMA PagesUntouched ==
  ASSUME SyncTypes, UNCHANGED <<docMap, pages>>
  PROVE  /\ docMap' \in [Docs -> MapRow \cup {None}] /\ pages' \in [Pages -> PageRow \cup {None}]
         /\ \A d \in Docs : docMap'[d] = docMap[d]
         /\ \A p \in Pages, d \in Docs : (IsOf(p, d)' <=> IsOf(p, d)) /\ pages'[p] = pages[p]
BY DEF SyncTypes, IsOf

\* A new page is the first of what it is made for, and touches no other.
LEMMA PageMade ==
  ASSUME SyncTypes, Room, NEW of \in Folders \cup Docs, NewPage(of)
  PROVE  /\ Fresh \in Pages /\ pages[Fresh] = None /\ pages' \in [Pages -> PageRow \cup {None}]
         /\ pages'[Fresh] = [of |-> of, has |-> {}]
         /\ \A p \in Pages \ {Fresh} : pages'[p] = pages[p]
         /\ \A p \in Pages, d \in Docs :
              (IsOf(p, d)' <=> IsOf(p, d) \/ (p = Fresh /\ d = of)) /\ (IsOf(p, d) => pages'[p] = pages[p])
<1>1. Fresh \in Pages /\ pages[Fresh] = None
  BY DEF Fresh, Room
<1> DEFINE page == [of |-> of, has |-> {}]
<1>2. page \in PageRow /\ page # None /\ page.of = of
  BY SyncAssumption DEF PageRow
<1>3. pages' = [pages EXCEPT ![Fresh] = page]
  BY DEF NewPage
<1> HIDE DEF page
<1>4. pages' \in [Pages -> PageRow \cup {None}] /\ pages'[Fresh] = page /\ \A p \in Pages \ {Fresh} : pages'[p] = pages[p]
  BY <1>1, <1>2, <1>3 DEF SyncTypes
<1>5. \A p \in Pages, d \in Docs :
        (IsOf(p, d)' <=> IsOf(p, d) \/ (p = Fresh /\ d = of)) /\ (IsOf(p, d) => pages'[p] = pages[p])
  BY <1>1, <1>2, <1>4 DEF IsOf
<1> QED BY <1>1, <1>4, <1>5 DEF page

\* A page that is written to stays one of its document.
LEMMA PageWritten ==
  ASSUME SyncTypes, NEW q \in Pages, pages[q] # None, NEW has \in SUBSET Hashes,
         pages' = [pages EXCEPT ![q].has = has]
  PROVE  /\ pages' \in [Pages -> PageRow \cup {None}] /\ pages'[q].has = has
         /\ \A p \in Pages, d \in Docs :
              (IsOf(p, d)' <=> IsOf(p, d)) /\ (IsOf(p, d) /\ d # pages[q].of => pages'[p] = pages[p])
<1>1. PICK page : page = [pages[q] EXCEPT !.has = has]
  OBVIOUS
<1>2. page \in PageRow /\ page.of = pages[q].of /\ page.has = has /\ page # None
  BY <1>1, SyncAssumption DEF SyncTypes, PageRow
<1>3. pages' \in [Pages -> PageRow \cup {None}] /\ pages'[q] = page /\ \A p \in Pages \ {q} : pages'[p] = pages[p]
  BY <1>1, <1>2 DEF SyncTypes
<1> QED BY <1>2, <1>3 DEF IsOf

LEMMA DoneKeeps ==
  ASSUME SyncInv, NEW j \in Jobs, Busy(j), Done(j), jobs[j].pc # "cleanup",
         j = "full" => jobs[j].pc \notin {"space", "tree"}
  PROVE  \E job \in Job : Becomes(j, job) /\ Shape(j, job) /\ Keeps(j, job) /\ job.doc = None /\ job.pc = "next"
<1>1. jobs[j] \in Job /\ Shape(j, jobs[j])
  BY JobInHand
<1>2. PICK job : job = [jobs[j] EXCEPT !.pc = "next", !.doc = None, !.folder = None, !.hash = None, !.page = None]
  OBVIOUS
<1>3. job \in Job /\ job.doc = None /\ job.pc = "next" /\ job.todo = jobs[j].todo /\ job.lists = jobs[j].lists
  BY <1>1, <1>2 DEF Job
<1>4. Shape(j, job) /\ Keeps(j, job) /\ Becomes(j, job)
  BY <1>1, <1>2, <1>3 DEF Shape, Keeps, Done, Past, OnAPage
<1> QED BY <1>3, <1>4

\* A document that is given up is disturbed, and its sync goes on.
LEMMA SkippedOver ==
  ASSUME SyncInv, NEW j \in Jobs, Busy(j), Done(j), GivesUp({jobs[j].doc}), Unmoved, UNCHANGED docMap,
         jobs[j].pc # "cleanup", j = "full" => jobs[j].pc \notin {"space", "tree"},
         pages' \in [Pages -> PageRow \cup {None}],
         \A p \in Pages, d \in Docs : IsOf(p, d) => IsOf(p, d)',
         \A p \in Pages, d \in Docs \ {jobs[j].doc} : (IsOf(p, d)' <=> IsOf(p, d)) /\ (IsOf(p, d) => pages'[p] = pages[p])
  PROVE  SyncInv'
<1>1. PICK job \in Job : Becomes(j, job) /\ Shape(j, job) /\ Keeps(j, job) /\ job.doc = None /\ job.pc = "next"
  BY DoneKeeps
<1>2. \A d \in Docs \ syncDisturbed' : ~Holds(j, d)
  BY DEF GivesUp, Holds
<1>3. docMap' \in [Docs -> MapRow \cup {None}] /\ syncDisturbed \subseteq syncDisturbed' /\ docMap' = docMap
      /\ job.pc \notin OnAPage /\ UNCHANGED <<memoryVars, pendingDocs, pendingFolders, born>>
  BY <1>1 DEF SyncInv, SyncTypes, GivesUp, OnAPage, Unmoved
<1> QED BY <1>1, <1>2, <1>3, GoesOn

\* A document that is up to date and in nobody's hands is none the worse for what
\* is forgotten.
LEMMA UpToDate ==
  ASSUME SyncInv, NEW d \in Docs \ syncDisturbed, d \notin Behind, \A j \in Jobs : jobs'[j] \in {jobs[j], None},
         UNCHANGED <<docs, docMap, pages, born>>
  PROVE  WellKept(d)'
<1>0. WellKept(d) /\ ~Stale(d) /\ \A j \in Jobs : ~Holds(j, d)
  BY DocumentsAreWellKept DEF Behind
<1>1. \A j \in Jobs : ~Holds(j, d)' /\ ~Fetched(j, d)' /\ ~Writes(j, d)' /\ ~Writes(j, d)
  BY <1>0 DEF Holds, Busy, Fetched, Writes
<1>2. LiveDocs' = LiveDocs /\ ~Stale(d)' /\ \A p \in Pages : IsOf(p, d)' <=> IsOf(p, d)
  BY <1>0 DEF LiveDocs, Stale, Hash, IsOf
<1>3. HeldWell(d)'
  BY <1>1 DEF HeldWell
<1>4. PagedWell(d)'
  BY <1>0, <1>1, <1>2 DEF WellKept, PagedWell
<1>5. SaysWell(d)'
  BY <1>0, <1>1 DEF WellKept, SaysWell
<1>6. FollowedWell(d)'
  <2>1. d \notin LiveDocs' => docMap'[d] = None
    BY <1>2 DEF Stale
  <2> QED BY <1>1, <1>2, <2>1 DEF FollowedWell
<1> QED BY <1>3, <1>4, <1>5, <1>6 DEF WellKept

\* A full sync that is given up disturbs those it would have brought up to date.
LEMMA FullGivenUp ==
  ASSUME SyncInv, Ends("full"), GivesUp(Behind), Unmoved, UNCHANGED <<docMap, pages>>
  PROVE  SyncInv'
<1>1. MemoryInv'
  BY MemoryStutters DEF SyncInv, Unmoved
<1>2. SyncTypes' /\ \A j \in Jobs : jobs'[j] \in {jobs[j], None}
  BY DEF SyncInv, SyncTypes, Ends, Unmoved, LiveDocs, memoryVars
<1>3. JobsAreShaped' /\ PagesAreKnown'
  BY DEF SyncInv, SyncTypes, JobsAreShaped, PagesAreKnown, Busy, Shape, Ends, IsOf
<1>4. \A d \in Docs \ syncDisturbed' : WellKept(d)'
  BY <1>2, UpToDate DEF GivesUp, Unmoved, memoryVars
<1> QED BY <1>1, <1>2, <1>3, <1>4 DEF SyncInv, WellKept

\* A step that leaves the pages and the mappings alone.
LEMMA QuietStep ==
  ASSUME SyncInv, NEW j \in Jobs, Busy(j), NEW job \in Job, Becomes(j, job), Shape(j, job), Keeps(j, job),
         Unmoved, UNCHANGED <<docMap, pages, syncDisturbed>>, job.doc = jobs[j].doc,
         jobs[j].pc \notin {"write", "record"}, job.pc \notin {"write", "record"},
         job.pc = "create" => docMap[job.doc] = None,
         job.pc = "clear" => docMap[job.doc] # None /\ docMap[job.doc].page = job.page,
         job.doc \in Docs \ syncDisturbed /\ job.pc \in Past =>
           job.doc \in LiveDocs /\ (job.hash # Hash(job.doc) => Noted(job.doc))
  PROVE  SyncInv'
<1>0. SyncTypes /\ PagesAreKnown /\ UNCHANGED <<memoryVars, pendingDocs, pendingFolders, born>>
  BY DEF SyncInv, Unmoved
<1>1. /\ docMap' \in [Docs -> MapRow \cup {None}] /\ pages' \in [Pages -> PageRow \cup {None}]
      /\ \A d \in Docs : docMap'[d] = docMap[d]
      /\ \A p \in Pages, d \in Docs : (IsOf(p, d)' <=> IsOf(p, d)) /\ pages'[p] = pages[p]
  BY <1>0, PagesUntouched
<1>2. job.pc \in OnAPage => IsOf(job.page, job.doc)'
  <2>1. ASSUME job.pc \in OnAPage
        PROVE  job.pc = "clear" /\ job.doc \in Docs
    BY <2>1 DEF OnAPage, Shape, Job
  <2> QED BY <1>0, <2>1 DEF PagesAreKnown, IsOf
<1>3. ASSUME NEW d \in Docs \ syncDisturbed', Holds(j, d)
      PROVE  WellKept(d)'
  <2>1. job.doc = d
    BY <1>3 DEF Holds
  <2> QED BY <1>0, <1>1, <1>3, <2>1, InHand
<1> QED BY <1>0, <1>1, <1>2, <1>3, GoesOn

\* A document in hand that was fetched lives, and if it says something else by
\* now it is noted.
LEMMA FetchedIsNoted ==
  ASSUME SyncInv, NEW j \in Jobs, Busy(j), jobs[j].pc \in Past, NEW d \in Docs \ syncDisturbed, jobs[j].doc = d
  PROVE  d \in LiveDocs /\ (jobs[j].hash # Hash(d) => Noted(d))
BY DocumentsAreWellKept DEF WellKept, HeldWell, FollowedWell, Fetched, Holds

LEMMA EnsureWikiSpaceStep ==
  ASSUME SyncInv, NEW j \in Jobs, EnsureWikiSpace(j)
  PROVE  SyncInv'
<1>0. SyncTypes /\ Busy(j) /\ jobs[j].pc = "space" /\ jobs[j] \in Job /\ Shape(j, jobs[j])
  BY JobInHand DEF SyncInv, EnsureWikiSpace, At
<1>1. CASE UNCHANGED syncDisturbed /\ Becomes(j, [jobs[j] EXCEPT !.pc = IF j = "full" THEN "tree" ELSE "fetch"])
  <2>1. PICK job : job = [jobs[j] EXCEPT !.pc = IF j = "full" THEN "tree" ELSE "fetch"]
    OBVIOUS
  <2>2. job \in Job /\ Shape(j, job) /\ Keeps(j, job) /\ job.doc = jobs[j].doc /\ job.pc \in {"tree", "fetch"}
    BY <1>0, <2>1 DEF Job, Shape, Keeps, Past, OnAPage
  <2>3. ~(job.doc \in Docs /\ job.pc \in Past)
    BY <1>0, <2>1, MemoryAssumption DEF Shape, Past, Job
  <2> QED BY <1>0, <1>1, <2>1, <2>2, <2>3, QuietStep DEF EnsureWikiSpace
<1>2. CASE j = "full" /\ Ends(j) /\ GivesUp(Behind)
  BY <1>2, FullGivenUp DEF EnsureWikiSpace
<1>3. CASE j # "full" /\ Done(j) /\ GivesUp({jobs[j].doc})
  BY <1>0, <1>3, SkippedOver, PagesUntouched DEF EnsureWikiSpace
<1> QED BY <1>1, <1>2, <1>3 DEF EnsureWikiSpace

LEMMA ListFolderTreeStep ==
  ASSUME SyncInv, NEW j \in Jobs, ListFolderTree(j)
  PROVE  SyncInv'
<1>0. SyncTypes /\ Busy(j) /\ jobs[j].pc = "tree" /\ jobs[j] \in Job /\ Shape(j, jobs[j])
  BY JobInHand DEF SyncInv, ListFolderTree, At
<1>1. CASE /\ j = "full" /\ UNCHANGED syncDisturbed
           /\ Becomes(j, [jobs[j] EXCEPT !.pc = "folders", !.folders = Nodes(LiveFolders \ {Root}), !.lists = LiveFolders])
  BY <1>1, TreeListed DEF ListFolderTree
<1>2. CASE /\ j # "full" /\ UNCHANGED syncDisturbed
           /\ Becomes(j, [jobs[j] EXCEPT !.pc = "folders", !.folders = Subtree(jobs[j].folder)])
  <2>1. PICK job : job = [jobs[j] EXCEPT !.pc = "folders", !.folders = Subtree(jobs[j].folder)]
    OBVIOUS
  <2>2. Subtree(jobs[j].folder) \subseteq [id : Folders, path : Seq(Names)]
    BY DEF Subtree, From, Nodes, Node, LiveFolders, SyncInv, MemoryInv, TablesAreTyped, FolderRow
  <2>3. /\ job \in Job /\ Shape(j, job) /\ Keeps(j, job) /\ job.doc = jobs[j].doc /\ job.pc = "folders"
        /\ job.hash = jobs[j].hash
    BY <1>0, <1>2, <2>1, <2>2 DEF Job, Shape, Keeps, Past, OnAPage
  <2>4. job.doc \in Docs \ syncDisturbed => job.doc \in LiveDocs /\ (job.hash # Hash(job.doc) => Noted(job.doc))
    BY <1>0, <2>3, FetchedIsNoted DEF Past
  <2> QED BY <1>0, <1>2, <2>1, <2>3, <2>4, QuietStep DEF ListFolderTree
<1>3. CASE j = "full" /\ Ends(j) /\ GivesUp(Behind)
  BY <1>3, FullGivenUp DEF ListFolderTree
<1>4. CASE j # "full" /\ Done(j) /\ GivesUp({jobs[j].doc})
  BY <1>0, <1>4, SkippedOver, PagesUntouched DEF ListFolderTree
<1> QED BY <1>1, <1>2, <1>3, <1>4 DEF ListFolderTree

LEMMA FoldersSyncedStep ==
  ASSUME SyncInv, NEW j \in Jobs, FoldersSynced(j)
  PROVE  SyncInv'
<1>0. SyncTypes /\ Busy(j) /\ jobs[j].pc = "folders" /\ jobs[j] \in Job /\ Shape(j, jobs[j])
  BY JobInHand DEF SyncInv, FoldersSynced, At
<1>1. PICK job : job = [jobs[j] EXCEPT !.pc = IF j = "full" THEN "next" ELSE "decide"]
  OBVIOUS
<1>2. /\ job \in Job /\ Shape(j, job) /\ Keeps(j, job) /\ job.doc = jobs[j].doc /\ job.hash = jobs[j].hash
      /\ job.pc \in {"next", "decide"}
  BY <1>0, <1>1 DEF Job, Shape, Keeps, Past, OnAPage
<1>3. job.doc \in Docs \ syncDisturbed => job.doc \in LiveDocs /\ (job.hash # Hash(job.doc) => Noted(job.doc))
  BY <1>0, <1>2, FetchedIsNoted DEF Past
<1> QED BY <1>0, <1>1, <1>2, <1>3, QuietStep DEF FoldersSynced

\* A node of the tree may get a page, which is of no document.
LEMMA SyncFolderStep ==
  ASSUME SyncInv, NEW j \in Jobs, SyncFolder(j)
  PROVE  SyncInv'
<1>0. SyncTypes /\ Busy(j) /\ jobs[j].pc = "folders" /\ jobs[j] \in Job /\ Shape(j, jobs[j])
  BY JobInHand DEF SyncInv, SyncFolder, At
<1>1. PICK n \in jobs[j].folders :
        /\ Becomes(j, [jobs[j] EXCEPT !.folders = @ \ {n}])
        /\ UNCHANGED pages \/ (Room /\ NewPage(n.id))
  BY DEF SyncFolder
<1>2. n.id \in Folders /\ n.id \notin Docs
  BY <1>0, SyncAssumption DEF Job
<1>3. PICK job : job = [jobs[j] EXCEPT !.folders = @ \ {n}]
  OBVIOUS
<1>4. /\ job \in Job /\ Shape(j, job) /\ Keeps(j, job) /\ job.doc = jobs[j].doc /\ job.hash = jobs[j].hash
      /\ job.pc = "folders"
  BY <1>0, <1>3 DEF Job, Shape, Keeps, Past, OnAPage
<1>5. /\ pages' \in [Pages -> PageRow \cup {None}]
      /\ \A p \in Pages, d \in Docs : (IsOf(p, d)' <=> IsOf(p, d)) /\ (IsOf(p, d) => pages'[p] = pages[p])
  <2>1. CASE UNCHANGED pages
    BY <1>0, <2>1 DEF SyncTypes, IsOf
  <2>2. CASE Room /\ NewPage(n.id)
    <3>1. n.id \in Folders \cup Docs
      BY <1>2
    <3>2. /\ pages' \in [Pages -> PageRow \cup {None}]
          /\ \A p \in Pages, d \in Docs :
               (IsOf(p, d)' <=> IsOf(p, d) \/ (p = Fresh /\ d = n.id)) /\ (IsOf(p, d) => pages'[p] = pages[p])
      BY <1>0, <2>2, <3>1, PageMade
    <3> QED BY <1>2, <3>2
  <2> QED BY <1>1, <2>1, <2>2
<1>6. job.doc \in Docs \ syncDisturbed => job.doc \in LiveDocs /\ (job.hash # Hash(job.doc) => Noted(job.doc))
  BY <1>0, <1>4, FetchedIsNoted DEF Past
<1>7. UNCHANGED <<memoryVars, pendingDocs, pendingFolders, born, docMap, syncDisturbed>> /\ Becomes(j, job)
  BY <1>1, <1>3 DEF SyncFolder, Unmoved
<1>8. ASSUME NEW d \in Docs \ syncDisturbed', Holds(j, d)
      PROVE  WellKept(d)'
  <2>1. job.doc = d /\ d \in Docs \ syncDisturbed /\ docMap'[d] = docMap[d]
    BY <1>4, <1>7, <1>8 DEF Holds
  <2> QED BY <1>0, <1>4, <1>5, <1>6, <1>7, <1>8, <2>1, InHand
<1>9. docMap' \in [Docs -> MapRow \cup {None}] /\ job.pc \notin OnAPage
  BY <1>0, <1>4, <1>7 DEF SyncTypes, OnAPage
<1> QED BY <1>0, <1>4, <1>5, <1>7, <1>8, <1>9, GoesOn

LEMMA FetchDocumentStep ==
  ASSUME SyncInv, NEW j \in Jobs, FetchDocument(j)
  PROVE  SyncInv'
<1>0. /\ SyncTypes /\ Busy(j) /\ jobs[j].pc = "fetch" /\ jobs[j] \in Job /\ Shape(j, jobs[j])
      /\ jobs[j].doc \in Docs /\ Unmoved /\ UNCHANGED <<docMap, pages>>
  BY JobInHand, MemoryAssumption DEF SyncInv, FetchDocument, At, Shape, Job
<1>1. CASE /\ jobs[j].doc \in LiveDocs /\ UNCHANGED syncDisturbed
           /\ Becomes(j, [jobs[j] EXCEPT !.pc = IF j = "full" THEN "decide" ELSE "tree",
                            !.hash = Hash(jobs[j].doc), !.folder = docs[jobs[j].doc].folder])
  <2>1. PICK job : job = [jobs[j] EXCEPT !.pc = IF j = "full" THEN "decide" ELSE "tree",
                            !.hash = Hash(jobs[j].doc), !.folder = docs[jobs[j].doc].folder]
    OBVIOUS
  <2>2. Hash(jobs[j].doc) \in Hashes /\ docs[jobs[j].doc].folder \in Folders
    BY <1>1, RootIsThere DEF SyncInv, MemoryInv, Hash, Hashes, DocRow
  <2>3. /\ job \in Job /\ job.doc = jobs[j].doc /\ job.hash = Hash(job.doc) /\ job.todo = jobs[j].todo
        /\ job.lists = jobs[j].lists /\ job.pc = IF j = "full" THEN "decide" ELSE "tree"
    BY <1>0, <2>1, <2>2 DEF Job
  <2>4. Shape(j, job) /\ Keeps(j, job)
    BY <1>0, <2>2, <2>3, SyncAssumption DEF Shape, Keeps, Past, OnAPage
  <2>5. Becomes(j, job) /\ job.pc \in {"decide", "tree"} /\ job.doc \in LiveDocs
    BY <1>1, <2>1, <2>3
  <2> QED BY <1>0, <1>1, <2>3, <2>4, <2>5, QuietStep
<1>2. CASE jobs[j].doc \notin LiveDocs /\ UNCHANGED syncDisturbed /\ Done(j)
  <2>1. PICK job \in Job : Becomes(j, job) /\ Shape(j, job) /\ Keeps(j, job) /\ job.doc = None /\ job.pc = "next"
    BY <1>0, <1>2, DoneKeeps
  <2>2. ASSUME NEW d \in Docs \ syncDisturbed', Holds(j, d)
        PROVE  WellKept(d)'
    <3>1. d = jobs[j].doc /\ d \in Docs \ syncDisturbed /\ WellKept(d)
      BY <1>2, <2>2, DocumentsAreWellKept DEF Holds
    <3>2. \A i \in Jobs : ~Writes(i, d)
      BY <1>2, <3>1 DEF WellKept, HeldWell, Fetched, Writes, Past
    <3>3. docMap[d] # None => pages[docMap[d].page].has = {docMap[d].hash} /\ WillBeForgotten(d)
      BY <1>2, <3>1, <3>2 DEF WellKept, SaysWell, FollowedWell
    <3>4. \A p \in Pages : IsOf(p, d)' <=> IsOf(p, d)
      BY <1>0 DEF IsOf
    <3> QED BY <1>0, <1>2, <2>1, <2>2, <3>1, <3>3, <3>4, PutDown DEF Unmoved
  <2>3. /\ docMap' \in [Docs -> MapRow \cup {None}] /\ pages' \in [Pages -> PageRow \cup {None}]
        /\ \A d \in Docs : docMap'[d] = docMap[d]
        /\ \A p \in Pages, d \in Docs : (IsOf(p, d)' <=> IsOf(p, d)) /\ pages'[p] = pages[p]
    BY <1>0, PagesUntouched
  <2>4. job.pc \notin OnAPage
    BY <2>1 DEF OnAPage
  <2> QED BY <1>0, <1>2, <2>1, <2>2, <2>3, <2>4, GoesOn DEF Unmoved
<1>3. CASE GivesUp({jobs[j].doc}) /\ Done(j)
  BY <1>0, <1>3, SkippedOver, PagesUntouched
<1> QED BY <1>1, <1>2, <1>3 DEF FetchDocument

LEMMA SyncSingleDocumentStep ==
  ASSUME SyncInv, NEW j \in Jobs, SyncSingleDocument(j)
  PROVE  SyncInv'
<1>0. /\ SyncTypes /\ Busy(j) /\ jobs[j].pc = "decide" /\ jobs[j] \in Job /\ Shape(j, jobs[j])
      /\ jobs[j].doc \in Docs /\ Unmoved /\ UNCHANGED <<docMap, pages, syncDisturbed>>
  BY JobInHand, MemoryAssumption DEF SyncInv, SyncSingleDocument, At, Shape, Job
<1> DEFINE e == jobs[j].doc
<1>1. e \in Docs \ syncDisturbed => e \in LiveDocs /\ (jobs[j].hash # Hash(e) => Noted(e))
  BY <1>0, FetchedIsNoted DEF Past
<1>2. CASE docMap[e] # None /\ docMap[e].hash = jobs[j].hash /\ Done(j)
  <2>1. PICK job \in Job : Becomes(j, job) /\ Shape(j, job) /\ Keeps(j, job) /\ job.doc = None /\ job.pc = "next"
    BY <1>0, <1>2, DoneKeeps
  <2>2. ASSUME NEW d \in Docs \ syncDisturbed', Holds(j, d)
        PROVE  WellKept(d)'
    <3>1. d = e /\ d \in Docs \ syncDisturbed /\ WellKept(d)
      BY <1>0, <2>2, DocumentsAreWellKept DEF Holds
    <3>2. \A i \in Jobs : ~Writes(i, d)
      BY <1>0, <2>1, <2>2, <3>1, OneHolder
    <3>3. pages[docMap[d].page].has = {docMap[d].hash}
      BY <1>2, <3>1, <3>2 DEF WellKept, SaysWell
    <3>4. \A p \in Pages : IsOf(p, d) /\ d \in LiveDocs => docMap[d].page = p
      BY <3>1, <3>2 DEF WellKept, PagedWell
    <3>5. Stale(d)' => Noted(d)
      BY <1>0, <1>1, <1>2, <3>1 DEF Stale, Unmoved, memoryVars, LiveDocs, Hash
    <3>6. \A p \in Pages : IsOf(p, d)' <=> IsOf(p, d)
      BY <1>0 DEF IsOf
    <3> QED BY <1>0, <1>1, <1>2, <2>1, <2>2, <3>1, <3>3, <3>4, <3>5, <3>6, PutDown DEF Unmoved
  <2>3. /\ docMap' \in [Docs -> MapRow \cup {None}] /\ pages' \in [Pages -> PageRow \cup {None}]
        /\ \A d \in Docs : docMap'[d] = docMap[d]
        /\ \A p \in Pages, d \in Docs : (IsOf(p, d)' <=> IsOf(p, d)) /\ pages'[p] = pages[p]
    BY <1>0, PagesUntouched
  <2>4. job.pc \notin OnAPage
    BY <2>1 DEF OnAPage
  <2> QED BY <1>0, <2>1, <2>2, <2>3, <2>4, GoesOn DEF Unmoved
<1>3. CASE docMap[e] # None /\ Becomes(j, [jobs[j] EXCEPT !.pc = "clear", !.page = docMap[e].page])
  <2>1. PICK job : job = [jobs[j] EXCEPT !.pc = "clear", !.page = docMap[e].page]
    OBVIOUS
  <2>2. docMap[e].page \in Pages
    BY <1>0, <1>3 DEF SyncTypes, MapRow
  <2>3. /\ job \in Job /\ job.doc = e /\ job.hash = jobs[j].hash /\ job.todo = jobs[j].todo
        /\ job.lists = jobs[j].lists /\ job.pc = "clear" /\ job.page = docMap[e].page
    BY <1>0, <2>1, <2>2 DEF Job
  <2>4. job.page # None
    BY <1>0, <1>3, <2>2, <2>3, SyncAssumption
  <2>5. Shape(j, job) /\ Keeps(j, job)
    BY <1>0, <2>3, <2>4 DEF Shape, Keeps, Past, OnAPage
  <2> QED BY <1>0, <1>1, <1>3, <2>1, <2>3, <2>5, QuietStep
<1>4. CASE docMap[e] = None /\ Becomes(j, [jobs[j] EXCEPT !.pc = "create"])
  <2>1. PICK job : job = [jobs[j] EXCEPT !.pc = "create"]
    OBVIOUS
  <2>2. job \in Job /\ job.doc = e /\ job.hash = jobs[j].hash /\ job.pc = "create" /\ Shape(j, job) /\ Keeps(j, job)
    BY <1>0, <2>1 DEF Job, Shape, Keeps, Past, OnAPage
  <2> QED BY <1>0, <1>1, <1>4, <2>1, <2>2, QuietStep
<1> QED BY <1>2, <1>3, <1>4 DEF SyncSingleDocument

\* What a sync that is on a page has in hand, and what is true of its document.
LEMMA OnItsPage ==
  ASSUME SyncInv, NEW j \in Jobs, Busy(j), jobs[j].pc \in OnAPage
  PROVE  /\ jobs[j].doc \in Docs /\ jobs[j].page \in Pages /\ IsOf(jobs[j].page, jobs[j].doc)
         /\ jobs[j].hash \in Hashes
BY JobInHand DEF SyncInv, PagesAreKnown, Shape, Job, OnAPage, Past

LEMMA ClearPageStep ==
  ASSUME SyncInv, NEW j \in Jobs, ClearPage(j)
  PROVE  SyncInv'
<1>0. /\ SyncTypes /\ Busy(j) /\ jobs[j].pc = "clear" /\ jobs[j] \in Job /\ Shape(j, jobs[j])
      /\ Unmoved /\ UNCHANGED docMap /\ syncDisturbed \subseteq syncDisturbed'
  BY JobInHand DEF SyncInv, ClearPage, At, GivesUp
<1>1. PICK e \in Docs, q \in Pages : e = jobs[j].doc /\ q = jobs[j].page /\ IsOf(q, e) /\ jobs[j].hash \in Hashes
  BY <1>0, OnItsPage DEF OnAPage
<1>2. PICK job : job = [jobs[j] EXCEPT !.pc = "write"]
  OBVIOUS
<1>3. /\ job \in Job /\ job.doc = e /\ job.hash = jobs[j].hash /\ job.page = q /\ job.pc = "write"
      /\ Shape(j, job) /\ Keeps(j, job) /\ Becomes(j, job)
  BY <1>0, <1>1, <1>2 DEF Job, Shape, Keeps, Past, OnAPage, ClearPage
<1>4. \/ UNCHANGED syncDisturbed /\ pages' = [pages EXCEPT ![q].has = {}]
      \/ GivesUp({e}) /\ UNCHANGED pages
  BY <1>1 DEF ClearPage
<1>5. /\ pages' \in [Pages -> PageRow \cup {None}]
      /\ \A p \in Pages, d \in Docs : (IsOf(p, d)' <=> IsOf(p, d)) /\ (IsOf(p, d) /\ d # e => pages'[p] = pages[p])
  <2>1. CASE pages' = [pages EXCEPT ![q].has = {}]
    <3>1. pages[q] # None /\ pages[q].of = e /\ {} \in SUBSET Hashes
      BY <1>1 DEF IsOf
    <3> QED BY <1>0, <2>1, <3>1, PageWritten
  <2>2. CASE UNCHANGED pages
    BY <1>0, <2>2, PagesUntouched
  <2> QED BY <1>4, <2>1, <2>2
<1>6. ASSUME NEW d \in Docs \ syncDisturbed', Holds(j, d)
      PROVE  WellKept(d)'
  <2>1. d = e /\ d \in Docs \ syncDisturbed /\ WellKept(d) /\ pages' = [pages EXCEPT ![q].has = {}]
    BY <1>0, <1>1, <1>4, <1>6, DocumentsAreWellKept DEF Holds, GivesUp
  <2>2. pages'[q].has = {}
    <3>1. pages[q] # None /\ {} \in SUBSET Hashes
      BY <1>1 DEF IsOf
    <3> QED BY <1>0, <2>1, <3>1, PageWritten
  <2>3. /\ \A i \in Jobs : Holds(i, d) <=> i = j
        /\ \A i \in Jobs : (Holds(i, d)' <=> i = j) /\ (Fetched(i, d)' <=> i = j) /\ (Writes(i, d)' <=> i = j)
        /\ Fetched(j, d) /\ ~Writes(j, d) /\ jobs'[j] = job
    BY <1>0, <1>3, <1>6, <2>1, OneHolder DEF Past
  <2>4. (Noted(d) => Noted(d)') /\ LiveDocs' = LiveDocs /\ Hash(d)' = Hash(d)
    BY <1>0, <1>3, NotesAreKept DEF Unmoved, memoryVars, LiveDocs, Hash
  <2>5. HeldWell(d)'
    BY <2>1, <2>3, <2>4 DEF WellKept, HeldWell
  <2>6. PagedWell(d)'
    <3>1. docMap[d] # None => docMap[d].page = q
      BY <1>0, <1>1, <1>6, <2>1 DEF WellKept, PagedWell, OnAPage
    <3>2. \A p, r \in Pages : IsOf(p, d)' /\ IsOf(r, d)' => p = r
      BY <1>5, <2>1 DEF WellKept, PagedWell
    <3>3. \A p \in Pages : IsOf(p, d)' => d \in born' /\ p = q
      BY <1>0, <1>1, <1>5, <2>1 DEF WellKept, PagedWell, Unmoved
    <3> QED BY <1>0, <1>3, <2>3, <3>1, <3>2, <3>3 DEF PagedWell
  <2>7. SaysWell(d)'
    BY <1>3, <2>2, <2>3 DEF SaysWell
  <2>8. FollowedWell(d)'
    BY <1>3, <2>1, <2>3, <2>4 DEF WellKept, HeldWell, FollowedWell
  <2> QED BY <2>5, <2>6, <2>7, <2>8 DEF WellKept
<1>7. IsOf(q, e)'
  BY <1>1, <1>5
<1>8. docMap' \in [Docs -> MapRow \cup {None}] /\ docMap' = docMap /\ \A d \in Docs : docMap'[d] = docMap[d]
  BY <1>0 DEF SyncTypes
<1>9. IsOf(job.page, job.doc)'
  BY <1>3, <1>7
<1> QED BY <1>0, <1>1, <1>3, <1>5, <1>6, <1>8, <1>9, GoesOn DEF Unmoved

LEMMA CreatePageStep ==
  ASSUME SyncInv, NEW j \in Jobs, CreatePage(j)
  PROVE  SyncInv'
<1>0. /\ SyncTypes /\ Busy(j) /\ jobs[j].pc = "create" /\ jobs[j] \in Job /\ Shape(j, jobs[j]) /\ Room
      /\ Unmoved /\ UNCHANGED docMap
  BY JobInHand DEF SyncInv, CreatePage, At
<1>1. PICK e \in Docs : e = jobs[j].doc
  BY <1>0 DEF Shape, Job
<1>2. e \in Folders \cup Docs
  OBVIOUS
<1>3. ASSUME NewPage(e)
      PROVE  /\ Fresh \in Pages /\ pages[Fresh] = None /\ pages' \in [Pages -> PageRow \cup {None}]
             /\ pages'[Fresh] = [of |-> e, has |-> {}]
             /\ \A p \in Pages, d \in Docs :
                  (IsOf(p, d)' <=> IsOf(p, d) \/ (p = Fresh /\ d = e)) /\ (IsOf(p, d) => pages'[p] = pages[p])
  BY <1>0, <1>2, <1>3, PageMade
<1>4. CASE UNCHANGED syncDisturbed /\ NewPage(e) /\ Becomes(j, [jobs[j] EXCEPT !.pc = "write", !.page = Fresh])
  <2>1. PICK job, q : q = Fresh /\ job = [jobs[j] EXCEPT !.pc = "write", !.page = q]
    OBVIOUS
  <2>2. q \in Pages /\ q # None /\ pages'[q].has = {} /\ IsOf(q, e)'
    BY <1>3, <1>4, <2>1, SyncAssumption
  <2>3. /\ job \in Job /\ job.doc = e /\ job.hash = jobs[j].hash /\ job.page = q /\ job.pc = "write"
        /\ Shape(j, job) /\ Keeps(j, job) /\ Becomes(j, job)
    BY <1>0, <1>1, <1>4, <2>1, <2>2 DEF Job, Shape, Keeps, Past, OnAPage
  <2>4. ASSUME NEW d \in Docs \ syncDisturbed', Holds(j, d)
        PROVE  WellKept(d)'
    <3>1. d = e /\ d \in Docs \ syncDisturbed /\ WellKept(d)
      BY <1>1, <1>4, <2>4, DocumentsAreWellKept DEF Holds
    <3>2. /\ \A i \in Jobs : (Holds(i, d) <=> i = j) /\ ~Writes(i, d)
          /\ \A i \in Jobs : (Holds(i, d)' <=> i = j) /\ (Fetched(i, d)' <=> i = j) /\ (Writes(i, d)' <=> i = j)
          /\ Fetched(j, d) /\ jobs'[j] = job
      BY <1>0, <2>3, <2>4, <3>1, OneHolder DEF Past
    <3>3. (Noted(d) => Noted(d)') /\ LiveDocs' = LiveDocs /\ Hash(d)' = Hash(d)
      BY <1>0, <2>3, NotesAreKept DEF Unmoved, memoryVars, LiveDocs, Hash
    <3>4. docMap'[d] = None /\ d \in LiveDocs /\ \A p \in Pages : ~IsOf(p, d)
      BY <1>0, <3>1, <3>2 DEF WellKept, HeldWell, PagedWell
    <3>5. \A p \in Pages : IsOf(p, d)' <=> p = q
      BY <1>3, <1>4, <2>1, <3>1, <3>4
    <3>6. HeldWell(d)'
      BY <3>2, <3>3, <3>4 DEF HeldWell
    <3>7. PagedWell(d)'
      <4>1. d \in born'
        BY <1>0, <3>4 DEF SyncTypes, Unmoved
      <4> QED BY <2>3, <3>2, <3>4, <3>5, <4>1 DEF PagedWell
    <3>8. SaysWell(d)'
      BY <2>2, <2>3, <3>2, <3>4 DEF SaysWell
    <3>9. FollowedWell(d)'
      BY <2>3, <3>1, <3>2, <3>3, <3>4 DEF WellKept, FollowedWell
    <3> QED BY <3>6, <3>7, <3>8, <3>9 DEF WellKept
  <2>5. docMap' \in [Docs -> MapRow \cup {None}] /\ \A d \in Docs : docMap'[d] = docMap[d]
    BY <1>0 DEF SyncTypes
  <2>6. IsOf(job.page, job.doc)'
    BY <2>2, <2>3
  <2>7. /\ \A p \in Pages, d \in Docs : IsOf(p, d) => IsOf(p, d)'
        /\ \A p \in Pages, d \in Docs \ {e} : (IsOf(p, d)' <=> IsOf(p, d)) /\ (IsOf(p, d) => pages'[p] = pages[p])
    BY <1>3, <1>4
  <2> QED BY <1>0, <1>1, <1>3, <1>4, <2>3, <2>4, <2>5, <2>6, <2>7, GoesOn DEF Unmoved
<1>5. CASE GivesUp({e}) /\ Done(j) /\ UNCHANGED pages
  BY <1>0, <1>1, <1>5, SkippedOver, PagesUntouched
<1>6. CASE GivesUp({e}) /\ Done(j) /\ NewPage(e)
  <2>1. /\ \A p \in Pages, d \in Docs : IsOf(p, d) => IsOf(p, d)'
        /\ \A p \in Pages, d \in Docs \ {e} : (IsOf(p, d)' <=> IsOf(p, d)) /\ (IsOf(p, d) => pages'[p] = pages[p])
        /\ pages' \in [Pages -> PageRow \cup {None}]
    BY <1>3, <1>6
  <2> QED BY <1>0, <1>1, <1>6, <2>1, SkippedOver
<1> QED BY <1>1, <1>4, <1>5, <1>6 DEF CreatePage

LEMMA WritePageStep ==
  ASSUME SyncInv, NEW j \in Jobs, WritePage(j)
  PROVE  SyncInv'
<1>0. /\ SyncTypes /\ Busy(j) /\ jobs[j].pc = "write" /\ jobs[j] \in Job /\ Shape(j, jobs[j])
      /\ Unmoved /\ UNCHANGED docMap
  BY JobInHand DEF SyncInv, WritePage, At
<1>1. PICK e \in Docs, q \in Pages, h \in Hashes :
        e = jobs[j].doc /\ q = jobs[j].page /\ IsOf(q, e) /\ h = jobs[j].hash
  BY <1>0, OnItsPage DEF OnAPage
<1>2. /\ pages[q] # None /\ pages[q].of = e /\ pages[q].has \in SUBSET Hashes /\ Part \in Hashes
  BY <1>0, <1>1 DEF IsOf, SyncTypes, PageRow, Part, Hashes
<1>3. ASSUME NEW has \in SUBSET Hashes, pages' = [pages EXCEPT ![q].has = has]
      PROVE  /\ pages' \in [Pages -> PageRow \cup {None}] /\ pages'[q].has = has
             /\ \A p \in Pages, d \in Docs :
                  (IsOf(p, d)' <=> IsOf(p, d)) /\ (IsOf(p, d) /\ d # e => pages'[p] = pages[p])
  BY <1>0, <1>2, <1>3, PageWritten
<1>4. CASE /\ UNCHANGED syncDisturbed /\ Becomes(j, [jobs[j] EXCEPT !.pc = "record"])
           /\ pages' = [pages EXCEPT ![q].has = @ \cup {h}]
  <2>1. PICK job, has : has = pages[q].has \cup {h} /\ job = [jobs[j] EXCEPT !.pc = "record"]
    OBVIOUS
  <2>2. has \in SUBSET Hashes /\ pages' = [pages EXCEPT ![q].has = has]
    BY <1>1, <1>2, <1>4, <2>1
  <2>3. /\ pages' \in [Pages -> PageRow \cup {None}] /\ pages'[q].has = has
        /\ \A p \in Pages, d \in Docs : (IsOf(p, d)' <=> IsOf(p, d)) /\ (IsOf(p, d) /\ d # e => pages'[p] = pages[p])
    BY <1>3, <2>2
  <2>4. /\ job \in Job /\ job.doc = e /\ job.hash = h /\ job.page = q /\ job.pc = "record"
        /\ Shape(j, job) /\ Keeps(j, job) /\ Becomes(j, job)
    BY <1>0, <1>1, <1>4, <2>1 DEF Job, Shape, Keeps, Past, OnAPage
  <2>5. ASSUME NEW d \in Docs \ syncDisturbed', Holds(j, d)
        PROVE  WellKept(d)'
    <3>1. d = e /\ d \in Docs \ syncDisturbed /\ WellKept(d)
      BY <1>1, <1>4, <2>5, DocumentsAreWellKept DEF Holds
    <3>2. /\ \A i \in Jobs : (Holds(i, d) <=> i = j) /\ (Writes(i, d) <=> i = j)
          /\ \A i \in Jobs : (Holds(i, d)' <=> i = j) /\ (Fetched(i, d)' <=> i = j) /\ (Writes(i, d)' <=> i = j)
          /\ Fetched(j, d) /\ jobs'[j] = job
      BY <1>0, <2>4, <2>5, <3>1, OneHolder DEF Past
    <3>3. (Noted(d) => Noted(d)') /\ LiveDocs' = LiveDocs /\ Hash(d)' = Hash(d)
      BY <1>0, <2>4, NotesAreKept DEF Unmoved, memoryVars, LiveDocs, Hash
    <3>4. pages'[q].has = {h}
      BY <1>0, <1>1, <2>1, <2>3, <2>5, <3>1 DEF WellKept, SaysWell
    <3>5. HeldWell(d)'
      BY <3>1, <3>2, <3>3 DEF WellKept, HeldWell
    <3>6. PagedWell(d)'
      <4>1. docMap[d] # None => docMap[d].page = q
        BY <1>0, <1>1, <2>5, <3>1 DEF WellKept, PagedWell, OnAPage
      <4>2. \A p \in Pages : IsOf(p, d)' => d \in born' /\ p = q
        BY <1>0, <1>1, <2>3, <3>1 DEF WellKept, PagedWell, Unmoved
      <4> QED BY <1>0, <2>4, <3>2, <4>1, <4>2 DEF PagedWell
    <3>7. SaysWell(d)'
      BY <2>4, <3>2, <3>4 DEF SaysWell
    <3>8. FollowedWell(d)'
      BY <1>1, <2>4, <3>1, <3>2, <3>3 DEF WellKept, HeldWell, FollowedWell
    <3> QED BY <3>5, <3>6, <3>7, <3>8 DEF WellKept
  <2>6. docMap' \in [Docs -> MapRow \cup {None}] /\ \A d \in Docs : docMap'[d] = docMap[d]
    BY <1>0 DEF SyncTypes
  <2>7. IsOf(job.page, job.doc)'
    <3>1. IsOf(q, e)'
      BY <1>1, <2>3
    <3> QED BY <2>4, <3>1
  <2> QED BY <1>0, <1>1, <1>4, <2>3, <2>4, <2>5, <2>6, <2>7, GoesOn DEF Unmoved
<1>5. CASE GivesUp({e}) /\ Done(j) /\ UNCHANGED pages
  BY <1>0, <1>1, <1>5, SkippedOver, PagesUntouched
<1>6. CASE GivesUp({e}) /\ Done(j) /\ pages' = [pages EXCEPT ![q].has = @ \cup {Part}]
  <2>1. PICK has \in SUBSET Hashes : has = pages[q].has \cup {Part}
    BY <1>2
  <2>2. pages' = [pages EXCEPT ![q].has = has]
    BY <1>1, <1>6, <2>1
  <2>3. /\ pages' \in [Pages -> PageRow \cup {None}]
        /\ \A p \in Pages, d \in Docs : (IsOf(p, d)' <=> IsOf(p, d)) /\ (IsOf(p, d) /\ d # e => pages'[p] = pages[p])
    BY <1>3, <2>2
  <2> QED BY <1>0, <1>1, <1>6, <2>3, SkippedOver
<1> QED BY <1>1, <1>4, <1>5, <1>6 DEF WritePage

LEMMA UpsertDocMappingStep ==
  ASSUME SyncInv, NEW j \in Jobs, UpsertDocMapping(j)
  PROVE  SyncInv'
<1>0. /\ SyncTypes /\ Busy(j) /\ jobs[j].pc = "record" /\ jobs[j] \in Job /\ Shape(j, jobs[j]) /\ Done(j)
      /\ Unmoved /\ UNCHANGED <<pages, syncDisturbed>>
  BY JobInHand DEF SyncInv, UpsertDocMapping, At
<1>1. PICK e \in Docs, q \in Pages, h \in Hashes :
        e = jobs[j].doc /\ q = jobs[j].page /\ IsOf(q, e) /\ h = jobs[j].hash
  BY <1>0, OnItsPage DEF OnAPage
<1>2. PICK row : row = [page |-> q, hash |-> h]
  OBVIOUS
<1>3. row \in MapRow /\ row # None /\ row.page = q /\ row.hash = h
  BY <1>2, SyncAssumption DEF MapRow
<1>4. /\ docMap' \in [Docs -> MapRow \cup {None}] /\ docMap'[e] = row
      /\ \A d \in Docs \ {e} : docMap'[d] = docMap[d]
  BY <1>0, <1>1, <1>2, <1>3 DEF SyncTypes, UpsertDocMapping
<1>5. PICK job \in Job : Becomes(j, job) /\ Shape(j, job) /\ Keeps(j, job) /\ job.doc = None /\ job.pc = "next"
  BY <1>0, DoneKeeps
<1>6. /\ pages' \in [Pages -> PageRow \cup {None}] /\ job.pc \notin OnAPage
      /\ \A p \in Pages, d \in Docs : (IsOf(p, d)' <=> IsOf(p, d)) /\ pages'[p] = pages[p]
  BY <1>0, <1>5 DEF SyncTypes, IsOf, OnAPage
<1>7. \A d \in Docs : docMap'[d] # None /\ docMap'[d] # docMap[d] => IsOf(docMap[d].page, d)'
  <2>1. IsOf(docMap[e].page, e)'
    BY <1>1, <1>3, <1>4, <1>6 DEF IsOf
  <2> QED BY <1>4, <2>1
<1>8. ASSUME NEW d \in Docs \ syncDisturbed', Holds(j, d)
      PROVE  WellKept(d)'
  <2>1. d = e /\ d \in Docs \ syncDisturbed /\ WellKept(d)
    BY <1>0, <1>1, <1>8, DocumentsAreWellKept DEF Holds
  <2>2. d \in LiveDocs /\ (h # Hash(d) => Noted(d))
    BY <1>0, <1>1, <2>1, FetchedIsNoted DEF Past
  <2>3. Stale(d)' => Noted(d)
    BY <1>0, <1>3, <1>4, <2>1, <2>2 DEF Stale, Unmoved, memoryVars, LiveDocs, Hash
  <2>4. pages'[q].has = {h}
    BY <1>0, <1>1, <1>8, <2>1 DEF WellKept, SaysWell
  <2>5. \A p \in Pages : IsOf(p, d) => p = q
    BY <1>1, <2>1 DEF WellKept, PagedWell
  <2> QED BY <1>0, <1>3, <1>4, <1>5, <1>6, <1>8, <2>1, <2>2, <2>3, <2>4, <2>5, PutDown DEF Unmoved
<1> QED BY <1>0, <1>1, <1>4, <1>5, <1>6, <1>7, <1>8, GoesOn DEF Unmoved

(* The wiki follows. ********************************************************)

\* A restart cuts a deletion and gives up every sync.
LEMMA RestartStep ==
  ASSUME SyncInv, Restart
  PROVE  SyncInv'
<1>1. MemoryInv'
  <2>1. CASE deleting # << >>
    BY <2>1, MemoryStep DEF SyncInv, Restart, MemoryNext, DeleteFolderCut
  <2>2. CASE deleting = << >>
    BY <2>2, MemoryStutters DEF SyncInv, Restart, memoryVars
  <2> QED BY <2>1, <2>2
<1>2. SyncTypes'
  BY DEF SyncInv, SyncTypes, Restart, LiveDocs
<1>3. JobsAreShaped' /\ PagesAreKnown'
  BY DEF SyncInv, JobsAreShaped, PagesAreKnown, Restart, Busy, IsOf
<1>4. \A d \in Docs \ syncDisturbed' : WellKept(d)'
  BY UpToDate DEF Restart, GivesUp
<1> QED BY <1>1, <1>2, <1>3, <1>4 DEF SyncInv, WellKept

LEMMA SyncStarts ==
  ASSUME SyncInit
  PROVE  SyncInv
<1>1. MemoryInv
  BY MemoryInitial DEF SyncInit
<1>2. SyncTypes
  BY DEF SyncInit, MemoryInit, SyncTypes, LiveDocs
<1>3. JobsAreShaped /\ PagesAreKnown
  BY DEF SyncInit, JobsAreShaped, PagesAreKnown, Busy, IsOf
<1>4. ASSUME NEW d \in Docs
      PROVE  WellKept(d)
  <2>1. /\ \A j \in Jobs : ~Holds(j, d) /\ ~Fetched(j, d) /\ ~Writes(j, d)
        /\ \A p \in Pages : ~IsOf(p, d)
        /\ docMap[d] = None /\ d \notin LiveDocs
    BY DEF SyncInit, MemoryInit, Holds, Fetched, Writes, Busy, IsOf, LiveDocs
  <2> QED BY <2>1 DEF WellKept, HeldWell, PagedWell, SaysWell, FollowedWell
<1> QED BY <1>1, <1>2, <1>3, <1>4 DEF SyncInv, WellKept

LEMMA SyncInvStep ==
  ASSUME SyncInv, [SyncNext]_docSyncVars
  PROVE  SyncInv'
<1>1. CASE Changes
  BY <1>1, ChangesStep
<1>2. CASE TimerFires \/ SyncAll \/ \E d \in Docs : SyncDocument(d)
  BY <1>2, SyncsBegin
<1>3. CASE Restart
  BY <1>3, RestartStep
<1>4. CASE FullStep
  BY <1>4, ListDocumentsStep, CleanupBeginsStep, CleanupDocumentStep, SyncsEnd DEF FullStep
<1>5. ASSUME NEW j \in Jobs, Step(j)
      PROVE  SyncInv'
  <2>1. CASE DocumentStep(j)
    BY <2>1, NextDocumentStep, FetchDocumentStep, SyncSingleDocumentStep, ClearPageStep, CreatePageStep,
       WritePageStep, UpsertDocMappingStep DEF DocumentStep
  <2>2. CASE SyncDocumentReturns(j)
    BY <2>2, SyncsEnd
  <2> QED BY <1>5, <2>1, <2>2, EnsureWikiSpaceStep, ListFolderTreeStep, SyncFolderStep, FoldersSyncedStep DEF Step
<1>6. CASE UNCHANGED docSyncVars
  BY <1>6, SyncStutters DEF docSyncVars, syncVars
<1> QED BY <1>1, <1>2, <1>3, <1>4, <1>5, <1>6 DEF SyncNext

LEMMA SyncInvSays ==
  ASSUME SyncInv
  PROVE  WikiFollowsUnlessDisturbed
<1>1. ASSUME NEW d \in Docs \ syncDisturbed
      PROVE  Cardinality({p \in Pages : pages[p] # None /\ pages[p].of = d}) <= 1
  <2> DEFINE S == {p \in Pages : pages[p] # None /\ pages[p].of = d}
  <2>1. \A p, q \in S : p = q
    BY DocumentsAreWellKept DEF WellKept, PagedWell, IsOf
  <2>2. CASE S = {}
    BY <2>2, FS_EmptySet
  <2>3. CASE S # {}
    <3>1. PICK p \in S : S = {p}
      BY <2>1, <2>3
    <3>2. Cardinality({p}) = 1
      BY FS_Singleton
    <3> QED BY <3>1, <3>2
  <2> QED BY <2>2, <2>3
<1>2. ASSUME NEW d \in Docs \ syncDisturbed, docMap[d] # None, \A j \in Jobs : ~Holds(j, d)
      PROVE  pages[docMap[d].page].has = {docMap[d].hash}
  BY <1>2, DocumentsAreWellKept DEF WellKept, SaysWell, Writes
<1>3. ASSUME NEW d \in Docs \ syncDisturbed, Stale(d)
      PROVE  \/ d \in pendingDocs \/ pendingFolders
             \/ deleting # << >> /\ d \notin LiveDocs
             \/ \E j \in Jobs : d \in Has(j)
             \/ FullWillSee(d)
  <2>1. FollowedWell(d)
    BY DocumentsAreWellKept DEF WellKept
  <2>2. CASE d \in LiveDocs
    <3>1. Noted(d) \/ \E j \in Jobs : Holds(j, d)
      BY <1>3, <2>1, <2>2 DEF FollowedWell
    <3> QED BY <2>2, <3>1 DEF Noted, WillList, Holds, Has, FullWillSee, Syncing
  <2>3. CASE d \notin LiveDocs
    <3>1. WillBeForgotten(d)
      BY <1>3, <2>1, <2>3 DEF FollowedWell, Stale
    <3> QED BY <2>3, <3>1 DEF WillBeForgotten, Has, FullWillSee, Syncing, Jobs
  <2> QED BY <2>2, <2>3
<1> QED
  BY <1>1, <1>2, <1>3 DEF WikiFollowsUnlessDisturbed, OnePagePerDocumentUnlessDisturbed,
     PageSaysWhatItsHashUnlessDisturbed, StaleIsNotedUnlessDisturbed

\* The wiki follows the memory through edits, deletions and syncs that cross: each
\* document that no fault, overlap or limit of a list touched has one page at most,
\* which says what its mapping says, and one whose mapping is behind is noted or on
\* its way.
THEOREM WikiFollows == SyncSpec => []WikiFollowsUnlessDisturbed
<1>1. SyncInit => SyncInv
  BY SyncStarts
<1>2. SyncInv /\ [SyncNext]_docSyncVars => SyncInv'
  BY SyncInvStep
<1>3. SyncInv => WikiFollowsUnlessDisturbed
  BY SyncInvSays
<1> QED BY <1>1, <1>2, <1>3, PTL DEF SyncSpec

=============================================================================
