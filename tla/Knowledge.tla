------------------------------ MODULE Knowledge ------------------------------
(***************************************************************************)
(* The knowledge base: documents with their versions, reviews, tags and    *)
(* view counts (KnowledgeService, VersionService, ApprovalService) and a   *)
(* collection of them (CollectionService).                                 *)
(*                                                                         *)
(* A request reads, works on what it has read and writes the columns it    *)
(* has changed when it commits; READ COMMITTED lets others commit in       *)
(* between.  A development run writes its notes as a document in the       *)
(* middle of its transaction and commits, or is rolled back, much later.   *)
(* Documents are never deleted.                                            *)
(***************************************************************************)
EXTENDS Naturals, Sequences, FiniteSets

CONSTANTS
  Requests,   \* requests of people
  Runs,       \* development runs (DocumentationService.document)
  Texts,      \* titles and contents
  Tags,       \* slugs of tags
  Seeds,      \* documents of the seed: text, status and view_count
  MaxDocs,    \* bound: documents, and creations in flight
  MaxOps      \* bound: operations begun

Procs == Requests \union Runs
Idle == [op |-> "idle"]
Kept == "kept"   \* an argument that is None
ASSUME ProcsAssumption == Requests \cap Runs = {} /\ Kept \notin Texts
ASSUME TagsAssumption == IsFiniteSet(Tags)
ASSUME SeedsAssumption ==
  Seeds \subseteq [text : Texts, status : {"draft", "in_review", "approved"}, views : Nat]
ASSUME BoundsAssumption == MaxDocs \in Nat /\ MaxOps \in Nat

VARIABLES
  docs,      \* KnowledgeDocument rows, in the order of their commits
  rows,      \* KnowledgeVersion rows of each document
  views,     \* VIEW rows of each document in the access log
  reviews,   \* submissions and decisions of each document, the newest last
  slugs,     \* KnowledgeTag rows
  items,     \* items of a collection: document, position, and what the adder saw
  tx,        \* transactions in flight
  mixed,     \* history: documents whose last write was over one it had not read
  crossed,   \* history: the same of their status
  lost,      \* history: documents two views of which overlapped
  removed,   \* history: something was taken out of the collection
  seed,      \* history: what the seed gave the first document
  ops        \* counter

tables == <<docs, rows, views, reviews, slugs, items>>
history == <<mixed, crossed, lost, removed, seed>>
vars == <<tables, tx, history, ops>>

Statuses == {"draft", "in_review", "approved"}
Decisions == {"approved", "sent_back"}   \* sent_back: changes_requested or rejected

\* A document of the seed with its first version: some are approved or in
\* review without a decision, and have been viewed without a log.
Init ==
  /\ seed \in Seeds
  /\ docs = <<[code |-> 1, title |-> seed.text, content |-> seed.text, version |-> 1,
               status |-> seed.status, views |-> seed.views]>>
  /\ rows = <<<<[version |-> 1, title |-> seed.text, content |-> seed.text]>>>>
  /\ views = <<0>> /\ reviews = <<<<>>>> /\ slugs = {} /\ items = {}
  /\ tx = [p \in Procs |-> Idle]
  /\ mixed = {} /\ crossed = {} /\ lost = {} /\ removed = FALSE /\ ops = 0

Docs == DOMAIN docs
Codes == {docs[d].code : d \in Docs}
Creating == {p \in Procs : tx[p].op = "create"}
Inserting == {p \in Procs : tx[p].op \in {"create", "write"}}

\* A transaction begins.
Begin(p, t) ==
  /\ tx[p] = Idle /\ ops < MaxOps
  /\ tx' = [tx EXCEPT ![p] = t] /\ ops' = ops + 1
  /\ UNCHANGED <<tables, history>>

End(p) == tx' = [tx EXCEPT ![p] = Idle] /\ UNCHANGED ops

-----------------------------------------------------------------------------
(* create *)

\* Mutant: versions are counted for documents.
NextCodeOfVersions == 1 + Len(rows[1])

\* _next_code: the documents are counted.
NextCode == 1 + Len(docs)

\* The labels of a request, in any order; a run gives none.
Labels(p) ==
  IF p \in Runs THEN {<<>>}
  ELSE {<<>>} \union {s \in [1..Cardinality(Tags) -> Tags] :
                        \A i, j \in DOMAIN s : s[i] = s[j] => i = j}

\* After the labels it is the document's turn.
Stage(labels) == IF labels = <<>> THEN "insert" ELSE "find"

CreateBegin(p) ==
  /\ Len(docs) + Cardinality(Creating) < MaxDocs
  /\ \E text \in Texts, labels \in Labels(p) :
       Begin(p, [op |-> "create", stage |-> Stage(labels), code |-> NextCode, title |-> text,
                 content |-> text, labels |-> labels, tags |-> {}])

\* Rows a transaction has inserted: others that insert the same wait for it.
HoldsTag(q, tag) == q \in Inserting /\ tag \in tx[q].tags
HoldsCode(q, code) == tx[q].op = "create" /\ tx[q].stage = "held" /\ tx[q].code = code

\* The flush of an update's first new tag writes the changed columns too: the
\* row of the document is locked, before the tag is inserted or after.
HoldsRow(q, d) == tx[q].op = "write" /\ tx[q].doc = d /\ tx[q].locked
RowIsFree(p, d) == \A q \in Procs \ {p} : ~ HoldsRow(q, d)
Unlocked(t) == t.op = "write" /\ t.dirty # {} /\ ~ t.locked
Flushed(t) == t.stage = "find" /\ t.tags # {}

\* Who a transaction waits for at an INSERT, or an UPDATE of a document.
WaitsFor(p) ==
  LET t == tx[p] IN
  {q \in Procs \ {p} :
     /\ p \in Inserting
     /\ \/ t.stage = "insert" /\ t.labels # <<>> /\ HoldsTag(q, Head(t.labels))
        \/ t.stage = "insert" /\ t.labels = <<>> /\ t.op = "create" /\ HoldsCode(q, t.code)
        \/ t.stage = "insert" /\ t.labels = <<>> /\ t.op = "write" /\ t.bumps /\ HoldsRow(q, t.doc)
        \/ Flushed(t) /\ Unlocked(t) /\ HoldsRow(q, t.doc)}

\* get_or_create looks for the tag.
Find(p) ==
  LET t == tx[p] IN
  /\ p \in Inserting /\ t.stage = "find" /\ ~ (Flushed(t) /\ Unlocked(t))
  /\ tx' = [tx EXCEPT ![p] = IF Head(t.labels) \in slugs
                             THEN [t EXCEPT !.labels = Tail(@), !.stage = Stage(Tail(t.labels))]
                             ELSE [t EXCEPT !.stage = "insert"]]
  /\ UNCHANGED <<tables, history, ops>>

\* Mutant: a row that is there is waited for.
NeverTaken(t) == FALSE

\* slug and code are unique.
Taken(t) == IF t.labels = <<>> THEN t.code \in Codes ELSE Head(t.labels) \in slugs

Insert(p) ==
  LET t == tx[p] IN
  /\ p \in Inserting /\ t.stage = "insert" /\ WaitsFor(p) = {}
  /\ IF t.labels = <<>> THEN t.op = "create" /\ t.code \notin Codes ELSE Head(t.labels) \notin slugs
  /\ tx' = [tx EXCEPT ![p] =
              IF t.labels = <<>> THEN [t EXCEPT !.stage = "held"]
              ELSE [t EXCEPT !.stage = Stage(Tail(t.labels)), !.labels = Tail(@),
                              !.tags = @ \union {Head(t.labels)}]]
  /\ UNCHANGED <<tables, history, ops>>

LockRow(p) ==
  LET t == tx[p] IN
  /\ Unlocked(t) /\ (Flushed(t) \/ (t.stage = "insert" /\ t.labels # <<>>))
  /\ RowIsFree(p, t.doc)
  /\ tx' = [tx EXCEPT ![p].locked = TRUE]
  /\ UNCHANGED <<tables, history, ops>>

\* IntegrityError: the request, or the run, fails and is rolled back.
Conflict(p) ==
  /\ p \in Inserting /\ tx[p].stage = "insert" /\ WaitsFor(p) = {}
  /\ tx[p].op = "write" => tx[p].labels # <<>>
  /\ Taken(tx[p])
  /\ End(p) /\ UNCHANGED <<tables, history>>

\* PostgreSQL aborts a transaction of a cycle.
Deadlock(p) ==
  /\ \E D \in SUBSET Inserting :
       p \in D /\ UNION {WaitsFor(q) : q \in D} = D
  /\ End(p) /\ UNCHANGED <<tables, history>>

\* What comes later in a development run may fail; and an update that sets tags
\* may find the rows that tie them to the document changed by another.
RollBack(p) ==
  /\ \/ p \in Runs /\ tx[p].op = "create" /\ tx[p].stage = "held"
     \/ tx[p].op = "write" /\ tx[p].stage = "insert" /\ tx[p].labels = <<>>
  /\ End(p) /\ UNCHANGED <<tables, history>>

\* _snapshot.
Snapshot(doc) == [version |-> doc.version, title |-> doc.title, content |-> doc.content]

CreateCommit(p) ==
  LET t == tx[p]
      doc == [code |-> t.code, title |-> t.title, content |-> t.content, version |-> 1,
              status |-> "draft", views |-> 0] IN
  /\ t.op = "create" /\ t.stage = "held"
  /\ docs' = Append(docs, doc) /\ rows' = Append(rows, <<Snapshot(doc)>>)
  /\ views' = Append(views, 0) /\ reviews' = Append(reviews, <<>>)
  /\ slugs' = slugs \union t.tags
  /\ End(p) /\ UNCHANGED <<items, history>>

-----------------------------------------------------------------------------
(* update and restore *)

\* The session's copy of a document after the columns of "dirty" were set, and
\* the labels that are going to be its tags.
Edited(d, title, content, bumps, labels) ==
  [op |-> "write", stage |-> Stage(labels), labels |-> labels,
   tags |-> {}, locked |-> FALSE, doc |-> d, base |-> Len(rows[d]), bumps |-> bumps,
   dirty |-> {c \in {"title", "content"} : docs[d][c] # (IF c = "title" THEN title ELSE content)},
   copy |-> [title |-> title, content |-> content,
             version |-> docs[d].version + (IF bumps THEN 1 ELSE 0)]]

\* Mutant: a new title alone makes no version.
BumpsForContent(d, title, content) == content # docs[d].content

\* "A new version is snapshotted whenever content changes", or a title is given.
Bumps(d, title, content) == title # Kept \/ content # docs[d].content

UpdateBegin(p, d) ==
  \E title \in Texts \union {Kept}, content \in Texts, labels \in Labels(p) :
    Begin(p, Edited(d, IF title = Kept THEN docs[d].title ELSE title, content,
                    Bumps(d, title, content), labels))

\* get_version takes any of the rows with the number.
RestoreBegin(p, d) ==
  \E i \in DOMAIN rows[d] : Begin(p, Edited(d, rows[d][i].title, rows[d][i].content, TRUE, <<>>))

SnapshotOf(t) == Snapshot(t.copy)

\* Only the columns that were changed are written.
WriteCommit(p) ==
  LET t == tx[p]
      d == t.doc
      doc == docs[d] IN
  /\ t.op = "write" /\ t.stage = "insert" /\ t.labels = <<>> /\ WaitsFor(p) = {}
  /\ docs' = [docs EXCEPT ![d] =
       [doc EXCEPT !.title = IF "title" \in t.dirty THEN t.copy.title ELSE doc.title,
                   !.content = IF "content" \in t.dirty THEN t.copy.content ELSE doc.content,
                   !.version = IF t.bumps THEN t.copy.version ELSE doc.version]]
  /\ rows' = IF t.bumps THEN [rows EXCEPT ![d] = Append(@, SnapshotOf(t))] ELSE rows
  /\ mixed' = IF Len(rows[d]) # t.base THEN mixed \union {d}
              ELSE IF t.bumps THEN mixed \ {d} ELSE mixed
  /\ slugs' = slugs \union t.tags
  /\ End(p) /\ UNCHANGED <<views, reviews, items, crossed, lost, removed, seed>>

-----------------------------------------------------------------------------
(* view *)

ViewBegin(p, d) == Begin(p, [op |-> "view", doc |-> d, views |-> docs[d].views, base |-> views[d]])

\* Mutant: the counter is a counter of the process, ahead of what is logged.
ViewedTwice(t) == t.views + 2

Viewed(t) == t.views + 1

ViewCommit(p) ==
  LET t == tx[p] IN
  /\ t.op = "view" /\ RowIsFree(p, t.doc)
  /\ docs' = [docs EXCEPT ![t.doc] = [@ EXCEPT !.views = Viewed(t)]]
  /\ views' = [views EXCEPT ![t.doc] = @ + 1]
  /\ lost' = IF views[t.doc] # t.base THEN lost \union {t.doc} ELSE lost
  /\ End(p) /\ UNCHANGED <<rows, reviews, slugs, items, mixed, crossed, removed, seed>>

-----------------------------------------------------------------------------
(* submit_for_review and review *)

\* The status a decision leads to.
Outcome(decision) ==
  CASE decision = "approved" -> "approved"
    [] decision = "submitted" -> "in_review"
    [] OTHER -> "draft"

DecideBegin(p, d) ==
  \E decision \in Decisions \union {"submitted"} :
    Begin(p, [op |-> "decide", doc |-> d, from |-> docs[d].status, decision |-> decision,
              base |-> Len(reviews[d])])

\* Mutant: only a document in review is decided on.
StatusIfInReview(t) ==
  IF t.from = "in_review" THEN Outcome(t.decision) ELSE docs[t.doc].status

\* The status is written if the one that was read is another.
StatusAfter(t) ==
  IF t.from # Outcome(t.decision) THEN Outcome(t.decision) ELSE docs[t.doc].status

DecideCommit(p) ==
  LET t == tx[p]
      d == t.doc IN
  /\ t.op = "decide"
  /\ t.decision = "approved" \/ t.from # Outcome(t.decision) => RowIsFree(p, d)   \* approved_at
  /\ docs' = [docs EXCEPT ![d] = [@ EXCEPT !.status = StatusAfter(t)]]
  /\ reviews' = [reviews EXCEPT ![d] = Append(@, t.decision)]
  /\ crossed' = IF Len(reviews[d]) # t.base THEN crossed \union {d} ELSE crossed \ {d}
  /\ End(p) /\ UNCHANGED <<rows, views, slugs, items, mixed, lost, removed, seed>>

-----------------------------------------------------------------------------
(* A collection *)

Position == Cardinality(items)

AddBegin(p, d) ==
  /\ \A i \in items : i.doc # d
  /\ Begin(p, [op |-> "add", doc |-> d, position |-> Position,
               saw |-> {i.doc : i \in items}])

\* Nothing makes a document or a position unique in it.
AddCommit(p) ==
  LET t == tx[p] IN
  /\ t.op = "add"
  /\ items' = items \union {[by |-> p, doc |-> t.doc, position |-> t.position, saw |-> t.saw]}
  /\ End(p) /\ UNCHANGED <<docs, rows, views, reviews, slugs, history>>

RemoveDocument(i) ==
  /\ ops < MaxOps /\ ops' = ops + 1
  /\ items' = items \ {i} /\ removed' = TRUE
  /\ UNCHANGED <<docs, rows, views, reviews, slugs, tx, mixed, crossed, lost, seed>>

-----------------------------------------------------------------------------
Finish(p) ==
  \/ Find(p) \/ Insert(p) \/ LockRow(p) \/ Conflict(p) \/ Deadlock(p) \/ RollBack(p) \/ CreateCommit(p)
  \/ WriteCommit(p) \/ ViewCommit(p) \/ DecideCommit(p) \/ AddCommit(p)

Next ==
  \/ \E p \in Procs : CreateBegin(p) \/ Finish(p)
  \/ \E p \in Requests, d \in Docs :
       UpdateBegin(p, d) \/ RestoreBegin(p, d) \/ ViewBegin(p, d) \/ DecideBegin(p, d)
         \/ AddBegin(p, d)
  \/ \E i \in items : RemoveDocument(i)

Spec == Init /\ [][Next]_vars

\* A transaction that has begun goes on.
FairSpec == Spec /\ \A p \in Procs : WF_vars(Finish(p))

-----------------------------------------------------------------------------
(* Properties *)

Documents == [code : Nat, title : Texts, content : Texts, version : Nat, status : Statuses,
              views : Nat]
Versions == [version : Nat, title : Texts, content : Texts]
Judgements == Decisions \union {"submitted"}
Added == [by : Requests, doc : Nat, position : Nat, saw : SUBSET Nat]
Creations == [op : {"create"}, stage : {"find", "insert", "held"}, code : Nat, title : Texts,
              content : Texts, labels : Seq(Tags), tags : SUBSET Tags]
Writes == [op : {"write"}, stage : {"find", "insert"}, labels : Seq(Tags),
           tags : SUBSET Tags, locked : BOOLEAN, doc : Nat, base : Nat, bumps : BOOLEAN,
           dirty : SUBSET {"title", "content"}, copy : Versions]
Viewings == [op : {"view"}, doc : Nat, views : Nat, base : Nat]
Deciding == [op : {"decide"}, doc : Nat, from : Statuses, decision : Judgements, base : Nat]
Additions == [op : {"add"}, doc : Nat, position : Nat, saw : SUBSET Nat]
Transactions == {Idle} \union Creations \union Writes \union Viewings \union Deciding
                  \union Additions

\* Every variable has its type, and what refers to a document to one there is.
TypeOK ==
  /\ docs \in Seq(Documents) /\ docs # <<>>
  /\ rows \in Seq(Seq(Versions)) /\ Len(rows) = Len(docs)
  /\ views \in Seq(Nat) /\ Len(views) = Len(docs)
  /\ reviews \in Seq(Seq(Judgements)) /\ Len(reviews) = Len(docs)
  /\ slugs \subseteq Tags /\ items \subseteq Added /\ IsFiniteSet(items)
  /\ tx \in [Procs -> Transactions]
  /\ \A p \in Procs : tx[p].op \in {"write", "view", "decide", "add"} => tx[p].doc \in Docs
  /\ \A p \in Procs : tx[p].op = "add" => p \in Requests
  /\ \A p \in Inserting : tx[p].stage = "find" => tx[p].labels # <<>>
  /\ mixed \union crossed \union lost \subseteq Docs /\ removed \in BOOLEAN /\ ops \in Nat
  /\ seed \in Seeds

\* Whatever is created at once, conflicts, deadlocks or is rolled back: the
\* documents have the codes 1 to n, and the code that is given next is free.
CodesAreCounted == Codes = 1..Len(docs)

\* Whatever overlaps, the versions of a document have no gap, and its own is
\* one of them (update, restore).
VersionsUnbroken ==
  \A d \in Docs :
    LET numbers == {rows[d][i].version : i \in DOMAIN rows[d]} IN
    numbers = 1..Cardinality(numbers) /\ docs[d].version \in numbers

\* The text of a document is one of its versions, unless its last writer had
\* not read it: a title and a content written at once make a text that no
\* version has (knowledge-engine.md: "Every content change snapshots").
CurrentIsKept ==
  \A d \in Docs \ mixed : \E i \in DOMAIN rows[d] : rows[d][i] = Snapshot(docs[d])

\* The history of a document has no gap, and its text is in it.
HistoryIsKept == VersionsUnbroken /\ CurrentIsKept

\* What a document had before anyone viewed it or decided on it.
First(d) == IF d = 1 THEN seed ELSE [status |-> "draft", views |-> 0]

\* Beyond the views of the seed none is counted that is not logged, and all are
\* unless two overlapped.
ViewsAreLogged ==
  \A d \in Docs : /\ docs[d].views <= First(d).views + views[d]
                  /\ d \notin lost => docs[d].views = First(d).views + views[d]

\* The status of a document is what its last submission or decision made it,
\* unless that was given on another status than it found; without any it is the
\* status of the seed, or a draft.
StatusTellsReview ==
  \A d \in Docs \ crossed :
    docs[d].status = IF reviews[d] = <<>> THEN First(d).status
                     ELSE Outcome(reviews[d][Len(reviews[d])])

\* As long as nothing is taken out, a document comes after those that were in
\* the collection when it was added ("curated, ordered sets of documents").
CollectionInOrder ==
  ~ removed => \A i, j \in items : i.doc \in j.saw => i.position < j.position

\* What is read, raised by one and written back counts what happened, unless
\* requests overlapped: views and positions.
CountsAreKept == ViewsAreLogged /\ CollectionInOrder

\* Every request ends, in spite of rows it waits for (get_or_create, create).
RequestsEnd == \A p \in Procs : tx[p] # Idle ~> tx[p] = Idle
=============================================================================
