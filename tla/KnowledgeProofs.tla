-------------------------- MODULE KnowledgeProofs ---------------------------
(***************************************************************************)
(* The type invariant and the safety invariants of Knowledge, for any      *)
(* requests, runs, texts and bounds.                                       *)
(*                                                                         *)
(* A request acts on what it has read.  Each of the links below says what  *)
(* is left of that when it commits: as long as nobody else has added a     *)
(* version, a view, a decision or an item in between, what it has read is  *)
(* still so; and what it numbers by counting has not been passed.          *)
(***************************************************************************)
EXTENDS Knowledge, FiniteSetTheorems, SequenceTheorems, TLAPS

Held(p) == tx[p].op = "create" /\ tx[p].stage = "held"

\* A code that was counted is at most the next one; once its row is inserted it
\* is the next one, and nobody else holds it.
CodeLink ==
  /\ \A d \in Docs : docs[d].code \in 1..Len(docs)
  /\ \A p \in Procs : tx[p].op = "create" => tx[p].code \in 1..(Len(docs) + 1)
  /\ \A p \in Procs : Held(p) => tx[p].code = Len(docs) + 1
  /\ \A p, q \in Procs : Held(p) /\ Held(q) => p = q
CodesInv == CodesAreCounted /\ CodeLink

\* The versions of a document are 1 to n, and what is about to be written has a
\* number at most one beyond.  Without another version in between the writer
\* has the text of the document in its hands.
Numbers(d) == {rows[d][i].version : i \in 1..Len(rows[d])}
Unbroken(d) == \E n \in Nat : Numbers(d) = 1..n /\ docs[d].version \in 1..n
WriteLink(t) ==
  t.op = "write" =>
    /\ t.base <= Len(rows[t.doc])
    /\ t.bumps => \E n \in Numbers(t.doc) : t.copy.version = n + 1
    /\ ~t.bumps => t.dirty = {}
    /\ t.base = Len(rows[t.doc]) =>
         /\ "title" \notin t.dirty => t.copy.title = docs[t.doc].title
         /\ "content" \notin t.dirty => t.copy.content = docs[t.doc].content
HistoryInv ==
  /\ \A d \in Docs : Unbroken(d)
  /\ CurrentIsKept
  /\ \A p \in Procs : WriteLink(tx[p])

ViewLink(t) ==
  t.op = "view" =>
    /\ t.views <= First(t.doc).views + t.base /\ t.base <= views[t.doc]
    /\ t.doc \notin lost => t.views = First(t.doc).views + t.base
ViewsInv == ViewsAreLogged /\ \A p \in Procs : ViewLink(tx[p])

DecideLink(t) ==
  t.op = "decide" =>
    /\ t.base <= Len(reviews[t.doc])
    /\ t.base = Len(reviews[t.doc]) => docs[t.doc].status = t.from
StatusInv == StatusTellsReview /\ \A p \in Procs : DecideLink(tx[p])

\* Positions are counted: while nothing is taken out, an item, and whoever is
\* about to add one, comes after all it has seen.
InItems(d) == \E i \in items : i.doc = d
Adding(p) == tx[p].op = "add"
OrderInv ==
  ~removed =>
    /\ \A i, j \in items : i.doc \in j.saw => i.position < j.position
    /\ \A i \in items : i.position < Cardinality(items) /\ i.doc \notin i.saw
                          /\ \A d \in i.saw : InItems(d)
    /\ \A p \in Procs : Adding(p) =>
         /\ tx[p].position <= Cardinality(items) /\ tx[p].doc \notin tx[p].saw
         /\ InItems(tx[p].doc) => tx[p].position < Cardinality(items)
         /\ \A d \in tx[p].saw : InItems(d)
         /\ \A i \in items : /\ i.doc \in tx[p].saw => i.position < tx[p].position
                             /\ tx[p].doc \in i.saw => tx[p].position < i.position
    /\ \A p, q \in Procs : Adding(p) /\ Adding(q) =>
         (tx[p].doc \in tx[q].saw => tx[p].position < tx[q].position)

-----------------------------------------------------------------------------
(* Types *)

LEMMA Kinds ==
  \A t \in Transactions :
    \/ t = Idle /\ t.op = "idle"
    \/ t \in Creations /\ t.op = "create"
    \/ t \in Writes /\ t.op = "write"
    \/ t \in Viewings /\ t.op = "view"
    \/ t \in Deciding /\ t.op = "decide"
    \/ t \in Additions /\ t.op = "add"
BY DEF Transactions, Idle, Creations, Writes, Viewings, Deciding, Additions

LEMMA RowTypes ==
  ASSUME TypeOK
  PROVE  /\ Len(docs) \in Nat /\ Len(docs) >= 1 /\ Docs = 1..Len(docs)
         /\ DOMAIN rows = Docs /\ DOMAIN views = Docs /\ DOMAIN reviews = Docs
         /\ \A d \in Docs : /\ docs[d] \in Documents /\ rows[d] \in Seq(Versions)
                            /\ views[d] \in Nat /\ reviews[d] \in Seq(Judgements)
<1>1. /\ docs \in Seq(Documents) /\ docs # <<>> /\ rows \in Seq(Seq(Versions))
      /\ views \in Seq(Nat) /\ reviews \in Seq(Seq(Judgements))
      /\ Len(rows) = Len(docs) /\ Len(views) = Len(docs) /\ Len(reviews) = Len(docs)
  BY DEF TypeOK
<1> DEFINE RV == Seq(Versions)
           RJ == Seq(Judgements)
<1>2. rows \in Seq(RV) /\ reviews \in Seq(RJ)
  BY <1>1
<1> HIDE DEF RV, RJ
<1>3. /\ Len(docs) \in Nat /\ Len(docs) >= 1 /\ Docs = 1..Len(docs)
      /\ DOMAIN rows = Docs /\ DOMAIN views = Docs /\ DOMAIN reviews = Docs
  BY <1>1, <1>2 DEF Docs
<1>4. \A d \in Docs : docs[d] \in Documents /\ rows[d] \in RV /\ views[d] \in Nat /\ reviews[d] \in RJ
  BY <1>1, <1>2, <1>3
<1> QED
  BY <1>3, <1>4 DEF RV, RJ

LEMMA FirstTypes ==
  ASSUME TypeOK
  PROVE  /\ \A d \in Nat : First(d).views \in Nat /\ First(d).status \in Statuses
         /\ \A d \in Nat : d # 1 => First(d).views = 0 /\ First(d).status = "draft"
<1>1. seed.views \in Nat /\ seed.status \in Statuses
  BY SeedsAssumption DEF TypeOK, Statuses
<1> QED
  BY <1>1 DEF First, Statuses

LEMMA LabelTypes ==
  ASSUME NEW p, NEW labels \in Labels(p)
  PROVE  labels \in Seq(Tags)
<1>1. Cardinality(Tags) \in Nat
  BY TagsAssumption, FS_CardinalityType
<1>2. labels = <<>> \/ labels \in [1..Cardinality(Tags) -> Tags]
  BY DEF Labels
<1> DEFINE n == Cardinality(Tags)
<1>3. n \in Nat /\ (labels = <<>> \/ labels \in [1..n -> Tags])
  BY <1>1, <1>2
<1> HIDE DEF n
<1>4. CASE labels \in [1..n -> Tags]
  <2> DEFINE Of(m) == [1..m -> Tags]
  <2>1. labels \in UNION {Of(m) : m \in Nat}
    <3>1. labels \in Of(n) /\ n \in Nat
      BY <1>3, <1>4
    <3> HIDE DEF Of
    <3> QED
      BY <3>1
  <2>2. Seq(Tags) = UNION {[1..m -> Tags] : m \in Nat}
    BY SeqDef
  <2> QED
    BY <2>1, <2>2
<1>5. <<>> \in Seq(Tags)
  OBVIOUS
<1> QED
  BY <1>3, <1>4, <1>5, Zenon

LEMMA Appended ==
  ASSUME NEW S, NEW s \in Seq(S), NEW x \in S
  PROVE  /\ Append(s, x) \in Seq(S) /\ Len(Append(s, x)) = Len(s) + 1
         /\ \A i \in 1..Len(s) : Append(s, x)[i] = s[i]
         /\ Append(s, x)[Len(s) + 1] = x
OBVIOUS

LEMMA Replaced ==
  ASSUME NEW S, NEW s \in Seq(S), NEW x \in S, NEW d \in 1..Len(s)
  PROVE  /\ [s EXCEPT ![d] = x] \in Seq(S) /\ Len([s EXCEPT ![d] = x]) = Len(s)
         /\ \A i \in 1..Len(s) : [s EXCEPT ![d] = x][i] = IF i = d THEN x ELSE s[i]
OBVIOUS

LEMMA InitTypes == Init => TypeOK
<1> SUFFICES ASSUME Init PROVE TypeOK
  OBVIOUS
<1> DEFINE text == seed.text
<1>1. /\ docs = <<[code |-> 1, title |-> text, content |-> text, version |-> 1,
                   status |-> seed.status, views |-> seed.views]>>
      /\ rows = <<<<[version |-> 1, title |-> text, content |-> text]>>>>
      /\ slugs = {} /\ items = {} /\ mixed = {} /\ crossed = {} /\ lost = {}
      /\ removed = FALSE /\ ops = 0 /\ seed \in Seeds
      /\ text \in Texts /\ seed.status \in Statuses /\ seed.views \in Nat
  BY SeedsAssumption DEF Init, Statuses
<1> HIDE DEF text
<1>2. docs \in Seq(Documents) /\ docs # <<>> /\ Len(docs) = 1
  BY <1>1 DEF Documents
<1>3. rows \in Seq(Seq(Versions)) /\ Len(rows) = 1
  <2> DEFINE v == <<[version |-> 1, title |-> text, content |-> text]>>
  <2>1. v \in Seq(Versions)
    BY <1>1 DEF Versions
  <2> HIDE DEF v
  <2>2. rows = <<v>>
    BY <1>1 DEF v
  <2> QED
    BY <2>1, <2>2
<1>4. views \in Seq(Nat) /\ Len(views) = 1 /\ reviews \in Seq(Seq(Judgements)) /\ Len(reviews) = 1
  BY DEF Init
<1>5. /\ slugs \subseteq Tags /\ items \subseteq Added /\ IsFiniteSet(items)
      /\ mixed \union crossed \union lost \subseteq Docs /\ removed \in BOOLEAN /\ ops \in Nat
  BY <1>1, FS_EmptySet
<1>6. /\ tx \in [Procs -> Transactions] /\ \A p \in Procs : tx[p].op = "idle"
  BY DEF Init, Transactions, Idle
<1> QED
  BY <1>1, <1>2, <1>3, <1>4, <1>5, <1>6 DEF TypeOK, Inserting

-----------------------------------------------------------------------------
(* What a step does *)

\* A transaction goes on, or begins or ends, and no table changes.
Put(p, t) ==
  /\ tx' = [tx EXCEPT ![p] = t] /\ t \in Transactions
  /\ UNCHANGED <<tables, history>> /\ ops' \in Nat
  /\ t.op \in {"write", "view", "decide", "add"} => t.doc \in Docs
  /\ t.op = "add" => p \in Requests
  /\ t.op \in {"create", "write"} /\ t.stage = "find" => t.labels # <<>>

\* What it holds when it begins, or that it has ended.
Opens(t) ==
  \/ t.op = "idle"
  \/ t.op = "write" /\ \E d \in Docs, title, content \in Texts, bumps \in BOOLEAN, labels \in Seq(Tags) :
       /\ bumps \/ (title = docs[d].title /\ content = docs[d].content)
       /\ t = Edited(d, title, content, bumps, labels)
  \/ t.op = "view" /\ \E d \in Docs :
       t = [op |-> "view", doc |-> d, views |-> docs[d].views, base |-> views[d]]
  \/ t.op = "decide" /\ \E d \in Docs, decision \in Judgements :
       t = [op |-> "decide", doc |-> d, from |-> docs[d].status, decision |-> decision,
            base |-> Len(reviews[d])]
  \/ t.op = "add" /\ \E d \in Docs :
       /\ ~InItems(d)
       /\ t = [op |-> "add", doc |-> d, position |-> Position, saw |-> {i.doc : i \in items}]

\* How far a creation has come.
Creates(p, t) ==
  /\ t.op = "create"
  /\ \/ t.code = Len(docs) + 1 /\ t.stage # "held"
     \/ /\ tx[p].op = "create" /\ t.code = tx[p].code
        /\ t.stage = "held" => /\ t.code \notin Codes
                               /\ \A q \in Procs \ {p} : ~HoldsCode(q, t.code)

\* An update that deals with its tags keeps its copy of the document.
GoesOn(p, t) ==
  /\ t.op = "write" /\ tx[p].op = "write"
  /\ t.doc = tx[p].doc /\ t.base = tx[p].base /\ t.bumps = tx[p].bumps
  /\ t.dirty = tx[p].dirty /\ t.copy = tx[p].copy

Quiet(p) ==
  \E t \in Transactions : Put(p, t) /\ (Opens(t) \/ Creates(p, t) \/ GoesOn(p, t))

LEMMA PutTx ==
  ASSUME TypeOK, NEW p \in Procs, NEW t \in Transactions, tx' = [tx EXCEPT ![p] = t]
  PROVE  /\ tx' \in [Procs -> Transactions] /\ tx'[p] = t
         /\ \A q \in Procs : q # p => tx'[q] = tx[q]
BY DEF TypeOK

LEMMA Ends ==
  ASSUME TypeOK, NEW p \in Procs, End(p), UNCHANGED <<tables, history>>
  PROVE  Quiet(p)
<1>1. Idle \in Transactions /\ Idle.op = "idle"
  BY DEF Transactions, Idle
<1>2. Put(p, Idle)
  BY <1>1 DEF End, Put, TypeOK
<1> QED
  BY <1>1, <1>2 DEF Quiet, Opens

LEMMA CreationBegins ==
  ASSUME TypeOK, NEW p \in Procs, CreateBegin(p)
  PROVE  Quiet(p)
<1>1. PICK text \in Texts, labels \in Labels(p) :
        Begin(p, [op |-> "create", stage |-> Stage(labels), code |-> NextCode, title |-> text,
                  content |-> text, labels |-> labels, tags |-> {}])
  BY DEF CreateBegin
<1> DEFINE t == [op |-> "create", stage |-> Stage(labels), code |-> NextCode, title |-> text,
                 content |-> text, labels |-> labels, tags |-> {}]
<1>2. labels \in Seq(Tags)
  BY LabelTypes
<1>3. NextCode \in Nat /\ NextCode = Len(docs) + 1
  BY RowTypes DEF NextCode
<1>4. /\ t \in Creations /\ t.op = "create" /\ t.code = Len(docs) + 1 /\ t.stage # "held"
      /\ t.stage = "find" => t.labels # <<>>
  BY <1>2, <1>3 DEF Creations, Stage
<1>5. t \in Transactions
  BY <1>4 DEF Transactions
<1>6. tx' = [tx EXCEPT ![p] = t] /\ UNCHANGED <<tables, history>> /\ ops' \in Nat
  BY <1>1 DEF Begin, TypeOK
<1> HIDE DEF t
<1>7. Put(p, t) /\ Creates(p, t)
  BY <1>4, <1>5, <1>6 DEF Put, Creates
<1> QED
  BY <1>5, <1>7 DEF Quiet

\* A transaction that goes through its labels changes nothing else.
Through(t, u) ==
  /\ u \in Transactions /\ u.op = t.op /\ u.stage \in {"find", "insert"}
  /\ u.stage = "find" => u.labels # <<>>
  /\ t.op = "create" => u.code = t.code
  /\ t.op = "write" => /\ u.doc = t.doc /\ u.base = t.base /\ u.bumps = t.bumps
                       /\ u.dirty = t.dirty /\ u.copy = t.copy

LEMMA GoesThrough ==
  ASSUME TypeOK, NEW p \in Procs, tx[p].op \in {"create", "write"}, NEW u, Through(tx[p], u),
         tx' = [tx EXCEPT ![p] = u], UNCHANGED <<tables, history, ops>>
  PROVE  Quiet(p)
<1>1. u \in Transactions
  BY DEF Through
<1>2. Put(p, u)
  BY <1>1 DEF Through, Put, TypeOK, Inserting
<1>3. Creates(p, u) \/ GoesOn(p, u)
  BY DEF Through, Creates, GoesOn
<1> QED
  BY <1>1, <1>2, <1>3 DEF Quiet

LEMMA TagsGoOn ==
  ASSUME TypeOK, NEW p \in Procs, Find(p) \/ Insert(p) \/ LockRow(p)
  PROVE  Quiet(p)
<1> DEFINE t == tx[p]
<1>1. t \in Transactions /\ t.op \in {"create", "write"}
  BY DEF TypeOK, Find, Insert, LockRow, Inserting, Unlocked
<1>2. (t.op = "create" => t \in Creations) /\ (t.op = "write" => t \in Writes)
  BY <1>1, Kinds
<1>3. /\ t.labels \in Seq(Tags)
      /\ t.labels # <<>> => Head(t.labels) \in Tags /\ Tail(t.labels) \in Seq(Tags)
  BY <1>1, <1>2 DEF Creations, Writes
<1>4. Creations \subseteq Transactions /\ Writes \subseteq Transactions
  BY DEF Transactions
<1>5. \A labels : Stage(labels) \in {"find", "insert"} /\ (Stage(labels) = "find" => labels # <<>>)
  BY DEF Stage
<1>6. CASE Find(p)
  <2>1. t.stage = "find" /\ t.labels # <<>> /\ UNCHANGED <<tables, history, ops>>
    BY <1>1, <1>6 DEF Find, TypeOK, Inserting
  <2>2. CASE Head(t.labels) \in slugs
    <3> DEFINE u == [t EXCEPT !.labels = Tail(t.labels), !.stage = Stage(Tail(t.labels))]
    <3>1. tx' = [tx EXCEPT ![p] = u]
      BY <1>6, <2>2 DEF Find
    <3>2. CASE t.op = "create"
      <4>1. /\ u \in Creations /\ u.op = t.op /\ u.code = t.code
            /\ u.stage = Stage(Tail(t.labels)) /\ u.labels = Tail(t.labels)
        BY <1>2, <1>3, <1>5, <2>1, <3>2 DEF Creations
      <4>2. Through(t, u)
        BY <1>4, <1>5, <3>2, <4>1 DEF Through
      <4> HIDE DEF u
      <4> QED
        BY <1>1, <2>1, <3>1, <4>2, GoesThrough
    <3>3. CASE t.op = "write"
      <4>1. /\ u \in Writes /\ u.op = t.op /\ u.stage = Stage(Tail(t.labels))
            /\ u.labels = Tail(t.labels)
            /\ u.doc = t.doc /\ u.base = t.base /\ u.bumps = t.bumps /\ u.dirty = t.dirty
            /\ u.copy = t.copy
        BY <1>2, <1>3, <1>5, <2>1, <3>3 DEF Writes
      <4>2. Through(t, u)
        BY <1>4, <1>5, <3>3, <4>1 DEF Through
      <4> HIDE DEF u
      <4> QED
        BY <1>1, <2>1, <3>1, <4>2, GoesThrough
    <3> QED
      BY <1>1, <3>2, <3>3
  <2>3. CASE Head(t.labels) \notin slugs
    <3> DEFINE u == [t EXCEPT !.stage = "insert"]
    <3>1. tx' = [tx EXCEPT ![p] = u]
      BY <1>6, <2>3 DEF Find
    <3>2. CASE t.op = "create"
      <4>1. u \in Creations /\ u.op = t.op /\ u.code = t.code /\ u.stage = "insert"
        BY <1>2, <3>2 DEF Creations
      <4>2. Through(t, u)
        BY <1>4, <3>2, <4>1 DEF Through
      <4> HIDE DEF u
      <4> QED
        BY <1>1, <2>1, <3>1, <4>2, GoesThrough
    <3>3. CASE t.op = "write"
      <4>1. /\ u \in Writes /\ u.op = t.op /\ u.stage = "insert"
            /\ u.doc = t.doc /\ u.base = t.base /\ u.bumps = t.bumps /\ u.dirty = t.dirty
            /\ u.copy = t.copy
        BY <1>2, <3>3 DEF Writes
      <4>2. Through(t, u)
        BY <1>4, <3>3, <4>1 DEF Through
      <4> HIDE DEF u
      <4> QED
        BY <1>1, <2>1, <3>1, <4>2, GoesThrough
    <3> QED
      BY <1>1, <3>2, <3>3
  <2> QED
    BY <2>2, <2>3
<1>7. CASE Insert(p)
  <2>1. UNCHANGED <<tables, history, ops>> /\ t.stage = "insert" /\ WaitsFor(p) = {}
    BY <1>7 DEF Insert
  <2>2. CASE t.labels = <<>>
    <3> DEFINE u == [t EXCEPT !.stage = "held"]
    <3>1. t.op = "create" /\ t.code \notin Codes /\ tx' = [tx EXCEPT ![p] = u]
      BY <1>7, <2>2 DEF Insert
    <3>2. u \in Creations /\ u.op = "create" /\ u.code = t.code /\ u.stage = "held"
      BY <1>2, <3>1 DEF Creations
    <3> HIDE DEF u
    <3>3. \A q \in Procs \ {p} : ~HoldsCode(q, t.code)
      BY <2>1, <2>2, <3>1 DEF WaitsFor, Inserting
    <3>4. Put(p, u)
      BY <1>4, <2>1, <3>1, <3>2 DEF Put, TypeOK
    <3>5. Creates(p, u)
      BY <3>1, <3>2, <3>3 DEF Creates
    <3> QED
      BY <1>4, <3>2, <3>4, <3>5 DEF Quiet
  <2>3. CASE t.labels # <<>>
    <3> DEFINE u == [t EXCEPT !.stage = Stage(Tail(t.labels)), !.labels = Tail(t.labels),
                              !.tags = t.tags \union {Head(t.labels)}]
    <3>1. tx' = [tx EXCEPT ![p] = u]
      BY <1>7, <2>3 DEF Insert
    <3>2. CASE t.op = "create"
      <4>1. /\ u \in Creations /\ u.op = t.op /\ u.code = t.code
            /\ u.stage = Stage(Tail(t.labels)) /\ u.labels = Tail(t.labels)
        BY <1>2, <1>3, <1>5, <2>3, <3>2 DEF Creations
      <4>2. Through(t, u)
        BY <1>4, <1>5, <3>2, <4>1 DEF Through
      <4> HIDE DEF u
      <4> QED
        BY <1>1, <2>1, <3>1, <4>2, GoesThrough
    <3>3. CASE t.op = "write"
      <4>1. /\ u \in Writes /\ u.op = t.op /\ u.stage = Stage(Tail(t.labels))
            /\ u.labels = Tail(t.labels)
            /\ u.doc = t.doc /\ u.base = t.base /\ u.bumps = t.bumps /\ u.dirty = t.dirty
            /\ u.copy = t.copy
        BY <1>2, <1>3, <1>5, <2>3, <3>3 DEF Writes
      <4>2. Through(t, u)
        BY <1>4, <1>5, <3>3, <4>1 DEF Through
      <4> HIDE DEF u
      <4> QED
        BY <1>1, <2>1, <3>1, <4>2, GoesThrough
    <3> QED
      BY <1>1, <3>2, <3>3
  <2> QED
    BY <2>2, <2>3
<1>8. CASE LockRow(p)
  <2> DEFINE u == [t EXCEPT !.locked = TRUE]
  <2>1. /\ t.op = "write" /\ UNCHANGED <<tables, history, ops>> /\ tx' = [tx EXCEPT ![p] = u]
        /\ t.stage = "find" => t.labels # <<>>
    BY <1>1, <1>8 DEF LockRow, Unlocked, TypeOK, Inserting
  <2>2. /\ u \in Writes /\ u.op = t.op /\ u.stage = t.stage /\ u.labels = t.labels
        /\ u.doc = t.doc /\ u.base = t.base /\ u.bumps = t.bumps /\ u.dirty = t.dirty
        /\ u.copy = t.copy /\ t.stage \in {"find", "insert"}
    BY <1>2, <2>1 DEF Writes
  <2>3. Through(t, u)
    BY <1>4, <2>1, <2>2 DEF Through
  <2> HIDE DEF u
  <2> QED
    BY <1>1, <2>1, <2>3, GoesThrough
<1> QED
  BY <1>6, <1>7, <1>8

LEMMA WriteBegins ==
  ASSUME TypeOK, NEW p \in Requests, NEW d \in Docs, UpdateBegin(p, d) \/ RestoreBegin(p, d)
  PROVE  Quiet(p)
<1>1. docs[d] \in Documents /\ rows[d] \in Seq(Versions)
  BY RowTypes
<1>2. docs[d].title \in Texts /\ docs[d].content \in Texts /\ docs[d].version \in Nat
  BY <1>1 DEF Documents
<1>3. \E title, content \in Texts, bumps \in BOOLEAN, labels \in Seq(Tags) :
        /\ bumps \/ (title = docs[d].title /\ content = docs[d].content)
        /\ Begin(p, Edited(d, title, content, bumps, labels))
  <2>1. CASE UpdateBegin(p, d)
    <3>1. PICK title \in Texts \union {Kept}, content \in Texts, labels \in Labels(p) :
            Begin(p, Edited(d, IF title = Kept THEN docs[d].title ELSE title, content,
                            Bumps(d, title, content), labels))
      BY <2>1 DEF UpdateBegin
    <3>2. (IF title = Kept THEN docs[d].title ELSE title) \in Texts
      BY <1>2
    <3>3. /\ Bumps(d, title, content) \in BOOLEAN
          /\ ~Bumps(d, title, content) => title = Kept /\ content = docs[d].content
      BY DEF Bumps
    <3> DEFINE name == IF title = Kept THEN docs[d].title ELSE title
               bumps == Bumps(d, title, content)
    <3>4. /\ name \in Texts /\ bumps \in BOOLEAN
          /\ bumps \/ (name = docs[d].title /\ content = docs[d].content)
          /\ Begin(p, Edited(d, name, content, bumps, labels)) /\ labels \in Seq(Tags)
      <4>1. Begin(p, Edited(d, name, content, bumps, labels)) /\ labels \in Seq(Tags)
        BY <3>1, LabelTypes
      <4> QED
        BY <3>2, <3>3, <4>1
    <3> HIDE DEF name, bumps
    <3> QED
      BY <3>4
  <2>2. CASE RestoreBegin(p, d)
    <3>1. PICK i \in DOMAIN rows[d] : Begin(p, Edited(d, rows[d][i].title, rows[d][i].content, TRUE, <<>>))
      BY <2>2 DEF RestoreBegin
    <3>2. rows[d][i] \in Versions
      BY <1>1
    <3>3. rows[d][i].title \in Texts /\ rows[d][i].content \in Texts
      BY <3>2 DEF Versions
    <3> DEFINE name == rows[d][i].title
               text == rows[d][i].content
    <3>4. name \in Texts /\ text \in Texts /\ Begin(p, Edited(d, name, text, TRUE, <<>>))
      BY <3>1, <3>3
    <3>5. <<>> \in Seq(Tags)
      OBVIOUS
    <3> HIDE DEF name, text
    <3> QED
      BY <3>4, <3>5
  <2> QED
    BY <2>1, <2>2
<1>4. PICK title \in Texts, content \in Texts, bumps \in BOOLEAN, labels \in Seq(Tags) :
        /\ bumps \/ (title = docs[d].title /\ content = docs[d].content)
        /\ Begin(p, Edited(d, title, content, bumps, labels))
  BY <1>3
<1> DEFINE t == Edited(d, title, content, bumps, labels)
<1>5. /\ t \in Writes /\ t.op = "write" /\ t.doc = d
      /\ t.stage = "find" => t.labels # <<>>
  <2>1. Len(rows[d]) \in Nat /\ d \in Nat
    BY <1>1, RowTypes
  <2>2. docs[d].version + (IF bumps THEN 1 ELSE 0) \in Nat
    BY <1>2
  <2> QED
    BY <2>1, <2>2 DEF Edited, Writes, Versions, Stage
<1>6. t \in Transactions /\ Opens(t)
  BY <1>4, <1>5 DEF Transactions, Opens
<1>7. Put(p, t)
  BY <1>4, <1>5, <1>6 DEF Begin, Put, TypeOK
<1> QED
  BY <1>6, <1>7 DEF Quiet

LEMMA OthersBegin ==
  ASSUME TypeOK, NEW p \in Requests, NEW d \in Docs,
         ViewBegin(p, d) \/ DecideBegin(p, d) \/ AddBegin(p, d)
  PROVE  Quiet(p)
<1>1. docs[d] \in Documents /\ views[d] \in Nat /\ Len(reviews[d]) \in Nat /\ d \in Nat
  BY RowTypes
<1>2. docs[d].views \in Nat /\ docs[d].status \in Statuses
  BY <1>1 DEF Documents
<1>3. CASE ViewBegin(p, d)
  <2> DEFINE t == [op |-> "view", doc |-> d, views |-> docs[d].views, base |-> views[d]]
  <2>1. t \in Viewings
    BY <1>1, <1>2 DEF Viewings
  <2>2. t \in Transactions /\ Opens(t)
    BY <2>1 DEF Transactions, Opens
  <2>3. Put(p, t)
    BY <1>3, <2>2 DEF ViewBegin, Begin, Put, TypeOK
  <2> QED
    BY <2>2, <2>3 DEF Quiet
<1>4. CASE DecideBegin(p, d)
  <2>1. PICK decision \in Judgements :
          Begin(p, [op |-> "decide", doc |-> d, from |-> docs[d].status, decision |-> decision,
                    base |-> Len(reviews[d])])
    BY <1>4 DEF DecideBegin, Judgements
  <2> DEFINE t == [op |-> "decide", doc |-> d, from |-> docs[d].status, decision |-> decision,
                   base |-> Len(reviews[d])]
  <2>2. t \in Deciding
    BY <1>1, <1>2 DEF Deciding
  <2>3. t \in Transactions /\ Opens(t)
    BY <2>2 DEF Transactions, Opens
  <2>4. Put(p, t)
    BY <2>1, <2>3 DEF Begin, Put, TypeOK
  <2> QED
    BY <2>3, <2>4 DEF Quiet
<1>5. CASE AddBegin(p, d)
  <2> DEFINE t == [op |-> "add", doc |-> d, position |-> Position, saw |-> {i.doc : i \in items}]
  <2>1. Position \in Nat /\ \A i \in items : i.doc \in Nat
    BY FS_CardinalityType DEF Position, TypeOK, Added
  <2>2. t \in Additions
    BY <1>1, <2>1 DEF Additions
  <2>3. ~InItems(d)
    BY <1>5 DEF AddBegin, InItems
  <2>4. t \in Transactions /\ Opens(t)
    BY <2>2, <2>3 DEF Transactions, Opens
  <2>5. Put(p, t)
    BY <1>5, <2>4 DEF AddBegin, Begin, Put, TypeOK
  <2> QED
    BY <2>4, <2>5 DEF Quiet
<1> QED
  BY <1>3, <1>4, <1>5

-----------------------------------------------------------------------------
(* The type invariant, and what each commit does to the tables *)

LEMMA PutKeepsTypes ==
  ASSUME TypeOK, NEW p \in Procs, NEW t \in Transactions, Put(p, t)
  PROVE  TypeOK'
<1>1. UNCHANGED <<docs, rows, views, reviews, slugs, items, mixed, crossed, lost, removed, seed>>
  BY DEF Put, tables, history
<1>2. /\ tx' \in [Procs -> Transactions] /\ tx'[p] = t
      /\ \A q \in Procs : q # p => tx'[q] = tx[q]
  BY PutTx DEF Put
<1>3. \A q \in Procs : tx'[q].op \in {"write", "view", "decide", "add"} => tx'[q].doc \in Docs
  BY <1>2 DEF Put, TypeOK
<1>4. \A q \in Procs : tx'[q].op = "add" => q \in Requests
  BY <1>2 DEF Put, TypeOK
<1>5. ops' \in Nat
  BY DEF Put
<1>6. \A q \in Procs : tx'[q].op \in {"create", "write"} /\ tx'[q].stage = "find" =>
                      tx'[q].labels # <<>>
  BY <1>2 DEF Put, TypeOK, Inserting
<1> QED
  BY <1>1, <1>2, <1>3, <1>4, <1>5, <1>6 DEF TypeOK, Docs, Inserting

\* What every commit leaves alone.
LEMMA EndTx ==
  ASSUME TypeOK, NEW p \in Procs, End(p)
  PROVE  /\ tx' \in [Procs -> Transactions] /\ tx'[p] = Idle /\ tx'[p].op = "idle"
         /\ \A q \in Procs : q # p => tx'[q] = tx[q]
         /\ ops' \in Nat
         /\ \A q \in Procs : tx'[q].op \in {"create", "write"} /\ tx'[q].stage = "find" =>
                              tx'[q].labels # <<>>
<1>1. /\ tx' \in [Procs -> Transactions] /\ tx'[p] = Idle /\ tx'[p].op = "idle"
      /\ \A q \in Procs : q # p => tx'[q] = tx[q]
      /\ ops' \in Nat
  BY DEF End, TypeOK, Transactions, Idle
<1>2. \A q \in Procs : tx'[q].op \in {"create", "write"} => tx'[q] = tx[q]
  BY <1>1
<1> QED
  BY <1>1, <1>2 DEF TypeOK, Inserting

LEMMA CreateShape ==
  ASSUME TypeOK, NEW p \in Procs, CreateCommit(p)
  PROVE  /\ TypeOK' /\ End(p) /\ UNCHANGED <<items, history>> /\ Held(p)
         /\ Len(docs') = Len(docs) + 1
         /\ \A d \in Docs : /\ docs'[d] = docs[d] /\ rows'[d] = rows[d]
                            /\ views'[d] = views[d] /\ reviews'[d] = reviews[d]
         /\ LET d == Len(docs) + 1 IN
            /\ docs'[d].code = tx[p].code /\ docs'[d].version = 1 /\ docs'[d].status = "draft"
            /\ docs'[d].views = 0 /\ views'[d] = 0 /\ reviews'[d] = <<>>
            /\ rows'[d] = <<Snapshot(docs'[d])>>
<1> DEFINE t == tx[p]
           doc == [code |-> t.code, title |-> t.title, content |-> t.content, version |-> 1,
                   status |-> "draft", views |-> 0]
           row == <<Snapshot(doc)>>
<1>1. t \in Creations
  BY Kinds DEF TypeOK, CreateCommit
<1>2. /\ doc \in Documents /\ doc.code = t.code /\ doc.version = 1 /\ doc.status = "draft"
      /\ doc.views = 0
  BY <1>1 DEF Creations, Documents, Statuses
<1>3. Snapshot(doc) \in Versions
  BY <1>1 DEF Creations, Versions, Snapshot
<1>4. row \in Seq(Versions)
  BY <1>3
<1>5. /\ docs' = Append(docs, doc) /\ rows' = Append(rows, row) /\ views' = Append(views, 0)
      /\ reviews' = Append(reviews, <<>>) /\ slugs' = slugs \union t.tags
      /\ End(p) /\ UNCHANGED <<items, history>> /\ Held(p)
  BY DEF CreateCommit, Held
<1> HIDE DEF doc, row
<1>6. /\ docs' \in Seq(Documents) /\ Len(docs') = Len(docs) + 1 /\ docs'[Len(docs) + 1] = doc
      /\ \A d \in 1..Len(docs) : docs'[d] = docs[d]
  BY <1>2, <1>5, Appended DEF TypeOK
<1>7. /\ rows' \in Seq(Seq(Versions)) /\ Len(rows') = Len(rows) + 1 /\ rows'[Len(rows) + 1] = row
      /\ \A d \in 1..Len(rows) : rows'[d] = rows[d]
  <2> DEFINE RV == Seq(Versions)
  <2>1. rows \in Seq(RV) /\ row \in RV
    BY <1>4 DEF TypeOK
  <2> HIDE DEF RV
  <2>2. /\ rows' \in Seq(RV) /\ Len(rows') = Len(rows) + 1 /\ rows'[Len(rows) + 1] = row
        /\ \A d \in 1..Len(rows) : rows'[d] = rows[d]
    BY <1>5, <2>1, Appended
  <2> QED
    BY <2>2 DEF RV
<1>8. /\ views' \in Seq(Nat) /\ Len(views') = Len(views) + 1 /\ views'[Len(views) + 1] = 0
      /\ \A d \in 1..Len(views) : views'[d] = views[d]
  <2>1. views \in Seq(Nat) /\ views' = Append(views, 0)
    BY <1>5 DEF TypeOK
  <2> QED
    BY ONLY <2>1, Appended
<1>9. /\ reviews' \in Seq(Seq(Judgements)) /\ Len(reviews') = Len(reviews) + 1
      /\ reviews'[Len(reviews) + 1] = <<>>
      /\ \A d \in 1..Len(reviews) : reviews'[d] = reviews[d]
  <2> DEFINE RJ == Seq(Judgements)
             none == <<>>
  <2>1. reviews \in Seq(RJ) /\ none \in RJ /\ reviews' = Append(reviews, none)
    BY <1>5 DEF TypeOK
  <2> HIDE DEF RJ, none
  <2>2. /\ reviews' \in Seq(RJ) /\ Len(reviews') = Len(reviews) + 1
        /\ reviews'[Len(reviews) + 1] = none
        /\ \A d \in 1..Len(reviews) : reviews'[d] = reviews[d]
    BY <2>1, Appended
  <2> QED
    BY <2>2 DEF RJ, none
<1>10. /\ Len(docs) \in Nat /\ Docs = 1..Len(docs) /\ Len(rows) = Len(docs)
       /\ Len(views) = Len(docs) /\ Len(reviews) = Len(docs)
  BY RowTypes DEF TypeOK
<1>11. Docs \subseteq Docs' /\ docs' # <<>>
  <2>1. Docs' = 1..Len(docs')
    BY <1>6 DEF Docs
  <2>2. docs' # <<>>
    BY <1>6, <1>10
  <2> QED
    BY <1>6, <1>10, <2>1, <2>2
<1>12. slugs' \subseteq Tags
  BY <1>1, <1>5 DEF TypeOK, Creations
<1>13. \A q \in Procs : tx'[q].op \in {"write", "view", "decide", "add"} => tx'[q].doc \in Docs'
  BY <1>5, <1>11, EndTx DEF TypeOK
<1>14. \A q \in Procs : tx'[q].op = "add" => q \in Requests
  BY <1>5, EndTx DEF TypeOK
<1>15. tx' \in [Procs -> Transactions] /\ ops' \in Nat
  BY <1>5, EndTx
<1>16. /\ items' \subseteq Added /\ IsFiniteSet(items') /\ removed' \in BOOLEAN
       /\ mixed' \union crossed' \union lost' \subseteq Docs' /\ seed' \in Seeds
  BY <1>5, <1>11 DEF TypeOK, history
<1>17. \A q \in Procs : tx'[q].op \in {"create", "write"} /\ tx'[q].stage = "find" =>
                      tx'[q].labels # <<>>
  BY <1>5, EndTx
<1>18. TypeOK'
  BY <1>6, <1>7, <1>8, <1>9, <1>10, <1>11, <1>12, <1>13, <1>14, <1>15, <1>16, <1>17
    DEF TypeOK, Inserting
<1> QED
  BY <1>2, <1>5, <1>6, <1>7, <1>8, <1>9, <1>10, <1>18 DEF row

LEMMA WriteShape ==
  ASSUME TypeOK, NEW p \in Procs, WriteCommit(p)
  PROVE  LET t == tx[p]
             d == t.doc IN
         /\ TypeOK' /\ End(p) /\ UNCHANGED <<views, reviews, items, crossed, lost, removed, seed>>
         /\ t.op = "write" /\ d \in Docs /\ Len(docs') = Len(docs)
         /\ \A e \in Docs : e # d => docs'[e] = docs[e] /\ rows'[e] = rows[e]
         /\ docs'[d].code = docs[d].code /\ docs'[d].status = docs[d].status
         /\ docs'[d].views = docs[d].views
         /\ docs'[d].title = IF "title" \in t.dirty THEN t.copy.title ELSE docs[d].title
         /\ docs'[d].content = IF "content" \in t.dirty THEN t.copy.content ELSE docs[d].content
         /\ docs'[d].version = IF t.bumps THEN t.copy.version ELSE docs[d].version
         /\ rows'[d] = IF t.bumps THEN Append(rows[d], Snapshot(t.copy)) ELSE rows[d]
         /\ Snapshot(t.copy) \in Versions
         /\ mixed' = IF Len(rows[d]) # t.base THEN mixed \union {d}
                     ELSE IF t.bumps THEN mixed \ {d} ELSE mixed
<1> DEFINE t == tx[p]
           d == t.doc
           old == docs[d]
           new == [old EXCEPT !.title = IF "title" \in t.dirty THEN t.copy.title ELSE old.title,
                              !.content = IF "content" \in t.dirty THEN t.copy.content ELSE old.content,
                              !.version = IF t.bumps THEN t.copy.version ELSE old.version]
           row == IF t.bumps THEN Append(rows[d], Snapshot(t.copy)) ELSE rows[d]
<1>1. t \in Writes /\ t.op = "write" /\ d \in Docs
  BY Kinds DEF TypeOK, WriteCommit
<1>2. /\ t.copy \in Versions /\ t.bumps \in BOOLEAN
      /\ t.copy.title \in Texts /\ t.copy.content \in Texts /\ t.copy.version \in Nat
  BY <1>1 DEF Writes, Versions
<1>3. old \in Documents /\ rows[d] \in Seq(Versions)
  BY <1>1, RowTypes
<1>4. /\ new \in Documents /\ new.code = old.code /\ new.status = old.status /\ new.views = old.views
      /\ new.title = IF "title" \in t.dirty THEN t.copy.title ELSE old.title
      /\ new.content = IF "content" \in t.dirty THEN t.copy.content ELSE old.content
      /\ new.version = IF t.bumps THEN t.copy.version ELSE old.version
  BY <1>2, <1>3 DEF Documents
<1>5. Snapshot(t.copy) \in Versions
  BY <1>2 DEF Snapshot, Versions
<1>6. row \in Seq(Versions)
  BY <1>3, <1>5
<1>7. /\ docs' = [docs EXCEPT ![d] = new] /\ End(p)
      /\ rows' = IF t.bumps THEN [rows EXCEPT ![d] = Append(@, Snapshot(t.copy))] ELSE rows
      /\ mixed' = IF Len(rows[d]) # t.base THEN mixed \union {d}
                  ELSE IF t.bumps THEN mixed \ {d} ELSE mixed
      /\ UNCHANGED <<views, reviews, items, crossed, lost, removed, seed>>
      /\ slugs' = slugs \union t.tags
  <2>1. docs' = [docs EXCEPT ![d] =
          [old EXCEPT !.title = IF "title" \in t.dirty THEN t.copy.title ELSE old.title,
                      !.content = IF "content" \in t.dirty THEN t.copy.content ELSE old.content,
                      !.version = IF t.bumps THEN t.copy.version ELSE old.version]]
    BY DEF WriteCommit
  <2>2. docs' = [docs EXCEPT ![d] = new]
    BY <2>1
  <2>3. /\ End(p) /\ UNCHANGED <<views, reviews, items, crossed, lost, removed, seed>>
        /\ rows' = IF t.bumps THEN [rows EXCEPT ![d] = Append(@, Snapshot(t.copy))] ELSE rows
        /\ mixed' = IF Len(rows[d]) # t.base THEN mixed \union {d}
                    ELSE IF t.bumps THEN mixed \ {d} ELSE mixed
        /\ slugs' = slugs \union t.tags
    BY DEF WriteCommit, SnapshotOf
  <2> QED
    BY <2>2, <2>3
<1>8. rows' = [rows EXCEPT ![d] = row]
  <2>1. CASE t.bumps
    BY <1>7, <2>1
  <2>2. CASE ~t.bumps
    <3>1. rows' = rows /\ row = rows[d]
      BY <1>7, <2>2
    <3>2. rows \in [Docs -> Seq(Versions)]
      <4>1. rows = [e \in Docs |-> rows[e]]
        BY RowTypes DEF TypeOK
      <4> QED
        BY <4>1, RowTypes
    <3> QED
      BY <1>1, <3>1, <3>2
  <2> QED
    BY <2>1, <2>2
<1> HIDE DEF new, row
<1>9. d \in 1..Len(docs) /\ Docs = 1..Len(docs) /\ Len(rows) = Len(docs)
  BY <1>1, RowTypes DEF TypeOK
<1>10. /\ docs' \in Seq(Documents) /\ Len(docs') = Len(docs)
       /\ \A e \in 1..Len(docs) : docs'[e] = IF e = d THEN new ELSE docs[e]
  BY <1>4, <1>7, <1>9, Replaced DEF TypeOK
<1>11. /\ rows' \in Seq(Seq(Versions)) /\ Len(rows') = Len(rows)
       /\ \A e \in 1..Len(rows) : rows'[e] = IF e = d THEN row ELSE rows[e]
  <2> DEFINE RV == Seq(Versions)
  <2>1. rows \in Seq(RV) /\ row \in RV /\ d \in 1..Len(rows)
    BY <1>6, <1>9 DEF TypeOK
  <2> HIDE DEF RV
  <2>2. /\ rows' \in Seq(RV) /\ Len(rows') = Len(rows)
        /\ \A e \in 1..Len(rows) : rows'[e] = IF e = d THEN row ELSE rows[e]
    BY <1>8, <2>1, Replaced
  <2> QED
    BY <2>2 DEF RV
<1>12. Docs' = Docs /\ docs' # <<>>
  <2>1. Docs' = 1..Len(docs')
    BY <1>10 DEF Docs
  <2>2. Len(docs) >= 1
    BY RowTypes
  <2> QED
    BY <1>9, <1>10, <2>1, <2>2
<1>13. \A q \in Procs : tx'[q].op \in {"write", "view", "decide", "add"} => tx'[q].doc \in Docs
  BY <1>7, EndTx DEF TypeOK
<1>14. \A q \in Procs : tx'[q].op = "add" => q \in Requests
  BY <1>7, EndTx DEF TypeOK
<1>15. tx' \in [Procs -> Transactions] /\ ops' \in Nat
  BY <1>7, EndTx
<1>16. mixed' \subseteq Docs /\ slugs' \subseteq Tags
  BY <1>1, <1>7 DEF TypeOK, Writes
<1>17. \A q \in Procs : tx'[q].op \in {"create", "write"} /\ tx'[q].stage = "find" =>
                      tx'[q].labels # <<>>
  BY <1>7, EndTx
<1>18. TypeOK'
  BY <1>7, <1>10, <1>11, <1>12, <1>13, <1>14, <1>15, <1>16, <1>17 DEF TypeOK, Inserting
<1> QED
  BY <1>1, <1>4, <1>5, <1>7, <1>9, <1>10, <1>11, <1>18 DEF row

LEMMA ViewShape ==
  ASSUME TypeOK, NEW p \in Procs, ViewCommit(p)
  PROVE  LET t == tx[p]
             d == t.doc IN
         /\ TypeOK' /\ End(p) /\ UNCHANGED <<rows, reviews, slugs, items, mixed, crossed, removed, seed>>
         /\ t.op = "view" /\ t.views \in Nat /\ d \in Docs /\ Len(docs') = Len(docs)
         /\ \A e \in Docs : /\ docs'[e].code = docs[e].code /\ docs'[e].status = docs[e].status
                            /\ docs'[e].version = docs[e].version
                            /\ docs'[e].title = docs[e].title /\ docs'[e].content = docs[e].content
                            /\ docs'[e].views = IF e = d THEN t.views + 1 ELSE docs[e].views
                            /\ views'[e] = IF e = d THEN views[e] + 1 ELSE views[e]
         /\ lost' = IF views[d] # t.base THEN lost \union {d} ELSE lost
<1> DEFINE t == tx[p]
           d == t.doc
           old == docs[d]
           new == [old EXCEPT !.views = Viewed(t)]
           count == views[d] + 1
<1>1. t \in Viewings /\ t.op = "view" /\ d \in Docs /\ t.views \in Nat
  BY Kinds DEF TypeOK, ViewCommit, Viewings
<1>2. old \in Documents /\ views[d] \in Nat
  BY <1>1, RowTypes
<1>3. /\ new \in Documents /\ new.code = old.code /\ new.status = old.status
      /\ new.title = old.title /\ new.content = old.content /\ new.version = old.version
      /\ new.views = t.views + 1
  BY <1>1, <1>2 DEF Documents, Viewed
<1>4. /\ docs' = [docs EXCEPT ![d] = new] /\ views' = [views EXCEPT ![d] = count] /\ End(p)
      /\ lost' = IF views[d] # t.base THEN lost \union {d} ELSE lost
      /\ UNCHANGED <<rows, reviews, slugs, items, mixed, crossed, removed, seed>>
  BY DEF ViewCommit
<1>5. count \in Nat
  BY <1>2
<1> HIDE DEF new, count
<1>6. d \in 1..Len(docs) /\ Docs = 1..Len(docs) /\ Len(views) = Len(docs)
  BY <1>1, RowTypes DEF TypeOK
<1>7. /\ docs' \in Seq(Documents) /\ Len(docs') = Len(docs)
      /\ \A e \in 1..Len(docs) : docs'[e] = IF e = d THEN new ELSE docs[e]
  BY <1>3, <1>4, <1>6, Replaced DEF TypeOK
<1>8. /\ views' \in Seq(Nat) /\ Len(views') = Len(views)
      /\ \A e \in 1..Len(views) : views'[e] = IF e = d THEN count ELSE views[e]
  BY <1>4, <1>5, <1>6, Replaced DEF TypeOK
<1>9. Docs' = Docs /\ docs' # <<>>
  <2>1. Docs' = 1..Len(docs')
    BY <1>7 DEF Docs
  <2>2. Len(docs) >= 1
    BY RowTypes
  <2> QED
    BY <1>6, <1>7, <2>1, <2>2
<1>10. \A q \in Procs : tx'[q].op \in {"write", "view", "decide", "add"} => tx'[q].doc \in Docs
  BY <1>4, EndTx DEF TypeOK
<1>11. \A q \in Procs : tx'[q].op = "add" => q \in Requests
  BY <1>4, EndTx DEF TypeOK
<1>12. tx' \in [Procs -> Transactions] /\ ops' \in Nat
  BY <1>4, EndTx
<1>13. lost' \subseteq Docs
  BY <1>1, <1>4 DEF TypeOK
<1>17. \A q \in Procs : tx'[q].op \in {"create", "write"} /\ tx'[q].stage = "find" =>
                      tx'[q].labels # <<>>
  BY <1>4, EndTx
<1>14. TypeOK'
  BY <1>4, <1>7, <1>8, <1>9, <1>10, <1>11, <1>12, <1>13, <1>17 DEF TypeOK, Inserting
<1>15. \A e \in Docs : /\ docs'[e].code = docs[e].code /\ docs'[e].status = docs[e].status
                       /\ docs'[e].version = docs[e].version
                       /\ docs'[e].title = docs[e].title /\ docs'[e].content = docs[e].content
                       /\ docs'[e].views = IF e = d THEN t.views + 1 ELSE docs[e].views
  BY <1>3, <1>6, <1>7
<1>16. \A e \in Docs : views'[e] = IF e = d THEN views[e] + 1 ELSE views[e]
  BY <1>6, <1>8 DEF count
<1> QED
  BY <1>1, <1>4, <1>7, <1>14, <1>15, <1>16

LEMMA DecideShape ==
  ASSUME TypeOK, NEW p \in Procs, DecideCommit(p)
  PROVE  LET t == tx[p]
             d == t.doc IN
         /\ TypeOK' /\ End(p) /\ UNCHANGED <<rows, views, slugs, items, mixed, lost, removed, seed>>
         /\ t.op = "decide" /\ d \in Docs /\ Len(docs') = Len(docs)
         /\ \A e \in Docs : /\ docs'[e].code = docs[e].code /\ docs'[e].views = docs[e].views
                            /\ docs'[e].version = docs[e].version
                            /\ docs'[e].title = docs[e].title /\ docs'[e].content = docs[e].content
                            /\ docs'[e].status = IF e = d THEN StatusAfter(t) ELSE docs[e].status
                            /\ e # d => reviews'[e] = reviews[e]
         /\ reviews'[d] = Append(reviews[d], t.decision) /\ t.decision \in Judgements
         /\ crossed' = IF Len(reviews[d]) # t.base THEN crossed \union {d} ELSE crossed \ {d}
<1> DEFINE t == tx[p]
           d == t.doc
           old == docs[d]
           new == [old EXCEPT !.status = StatusAfter(t)]
           list == Append(reviews[d], t.decision)
<1>1. t \in Deciding /\ t.op = "decide" /\ d \in Docs /\ t.decision \in Judgements
  BY Kinds DEF TypeOK, DecideCommit, Deciding
<1>2. old \in Documents /\ reviews[d] \in Seq(Judgements) /\ old.status \in Statuses
  BY <1>1, RowTypes DEF Documents
<1>3. StatusAfter(t) \in Statuses
  BY <1>1, <1>2 DEF StatusAfter, Outcome, Statuses
<1>4. /\ new \in Documents /\ new.code = old.code /\ new.status = StatusAfter(t)
      /\ new.title = old.title /\ new.content = old.content /\ new.version = old.version
      /\ new.views = old.views
  BY <1>2, <1>3 DEF Documents
<1>5. /\ docs' = [docs EXCEPT ![d] = new] /\ reviews' = [reviews EXCEPT ![d] = list] /\ End(p)
      /\ crossed' = IF Len(reviews[d]) # t.base THEN crossed \union {d} ELSE crossed \ {d}
      /\ UNCHANGED <<rows, views, slugs, items, mixed, lost, removed, seed>>
  BY DEF DecideCommit
<1>6. list \in Seq(Judgements)
  BY <1>1, <1>2
<1> HIDE DEF new, list
<1>7. d \in 1..Len(docs) /\ Docs = 1..Len(docs) /\ Len(reviews) = Len(docs)
  BY <1>1, RowTypes DEF TypeOK
<1>8. /\ docs' \in Seq(Documents) /\ Len(docs') = Len(docs)
      /\ \A e \in 1..Len(docs) : docs'[e] = IF e = d THEN new ELSE docs[e]
  BY <1>4, <1>5, <1>7, Replaced DEF TypeOK
<1>9. /\ reviews' \in Seq(Seq(Judgements)) /\ Len(reviews') = Len(reviews)
      /\ \A e \in 1..Len(reviews) : reviews'[e] = IF e = d THEN list ELSE reviews[e]
  <2> DEFINE RJ == Seq(Judgements)
  <2>1. reviews \in Seq(RJ) /\ list \in RJ /\ d \in 1..Len(reviews)
    BY <1>6, <1>7 DEF TypeOK
  <2> HIDE DEF RJ
  <2>2. /\ reviews' \in Seq(RJ) /\ Len(reviews') = Len(reviews)
        /\ \A e \in 1..Len(reviews) : reviews'[e] = IF e = d THEN list ELSE reviews[e]
    BY <1>5, <2>1, Replaced
  <2> QED
    BY <2>2 DEF RJ
<1>10. Docs' = Docs /\ docs' # <<>>
  <2>1. Docs' = 1..Len(docs')
    BY <1>8 DEF Docs
  <2>2. Len(docs) >= 1
    BY RowTypes
  <2> QED
    BY <1>7, <1>8, <2>1, <2>2
<1>11. \A q \in Procs : tx'[q].op \in {"write", "view", "decide", "add"} => tx'[q].doc \in Docs
  BY <1>5, EndTx DEF TypeOK
<1>12. \A q \in Procs : tx'[q].op = "add" => q \in Requests
  BY <1>5, EndTx DEF TypeOK
<1>13. tx' \in [Procs -> Transactions] /\ ops' \in Nat
  BY <1>5, EndTx
<1>14. crossed' \subseteq Docs
  BY <1>1, <1>5 DEF TypeOK
<1>18. \A q \in Procs : tx'[q].op \in {"create", "write"} /\ tx'[q].stage = "find" =>
                      tx'[q].labels # <<>>
  BY <1>5, EndTx
<1>15. TypeOK'
  BY <1>5, <1>8, <1>9, <1>10, <1>11, <1>12, <1>13, <1>14, <1>18 DEF TypeOK, Inserting
<1>16. \A e \in Docs : /\ docs'[e].code = docs[e].code /\ docs'[e].views = docs[e].views
                       /\ docs'[e].version = docs[e].version
                       /\ docs'[e].title = docs[e].title /\ docs'[e].content = docs[e].content
                       /\ docs'[e].status = IF e = d THEN StatusAfter(t) ELSE docs[e].status
  BY <1>4, <1>7, <1>8
<1>17. reviews'[d] = list /\ \A e \in Docs : e # d => reviews'[e] = reviews[e]
  BY <1>7, <1>9
<1> QED
  BY <1>1, <1>5, <1>8, <1>15, <1>16, <1>17 DEF list

LEMMA AddShape ==
  ASSUME TypeOK, NEW p \in Procs, AddCommit(p)
  PROVE  /\ TypeOK' /\ End(p) /\ UNCHANGED <<docs, rows, views, reviews, slugs, history>>
         /\ tx[p].op = "add" /\ tx[p] \in Additions
         /\ items' = items \union {[by |-> p, doc |-> tx[p].doc, position |-> tx[p].position,
                                    saw |-> tx[p].saw]}
<1> DEFINE t == tx[p]
           item == [by |-> p, doc |-> t.doc, position |-> t.position, saw |-> t.saw]
<1>1. t.op = "add" /\ t \in Additions /\ p \in Requests
  BY Kinds DEF TypeOK, AddCommit
<1>2. item \in Added
  BY <1>1 DEF Additions, Added
<1>3. /\ items' = items \union {item} /\ End(p)
      /\ UNCHANGED <<docs, rows, views, reviews, slugs, mixed, crossed, lost, removed, seed>>
  BY DEF AddCommit, history
<1> HIDE DEF item
<1>4. items' \subseteq Added /\ IsFiniteSet(items')
  BY <1>2, <1>3, FS_AddElement DEF TypeOK
<1>5. /\ tx' \in [Procs -> Transactions] /\ ops' \in Nat
      /\ \A q \in Procs : tx'[q].op \in {"write", "view", "decide", "add"} => tx'[q].doc \in Docs
  BY <1>3, EndTx DEF TypeOK
<1>6. \A q \in Procs : tx'[q].op = "add" => q \in Requests
  BY <1>3, EndTx DEF TypeOK
<1>8. \A q \in Procs : tx'[q].op \in {"create", "write"} /\ tx'[q].stage = "find" =>
                      tx'[q].labels # <<>>
  BY <1>3, EndTx
<1>7. TypeOK'
  BY <1>3, <1>4, <1>5, <1>6, <1>8 DEF TypeOK, Docs, Inserting
<1> QED
  BY <1>1, <1>3, <1>7 DEF item, history

LEMMA RemoveShape ==
  ASSUME TypeOK, NEW i \in items, RemoveDocument(i)
  PROVE  /\ TypeOK' /\ UNCHANGED <<docs, rows, views, reviews, slugs, tx, mixed, crossed, lost, seed>>
         /\ removed' = TRUE
<1>1. /\ UNCHANGED <<docs, rows, views, reviews, slugs, tx, mixed, crossed, lost, seed>>
      /\ removed' = TRUE /\ items' = items \ {i} /\ ops' = ops + 1
  BY DEF RemoveDocument
<1>2. items' \subseteq Added /\ IsFiniteSet(items')
  BY <1>1, FS_RemoveElement DEF TypeOK
<1> QED
  BY <1>1, <1>2 DEF TypeOK, Docs, Inserting

LEMMA Steps ==
  ASSUME TypeOK, [Next]_vars
  PROVE  \/ UNCHANGED <<tables, history, tx, ops>>
         \/ \E p \in Procs : Quiet(p)
         \/ \E p \in Procs : \/ CreateCommit(p) \/ WriteCommit(p) \/ ViewCommit(p)
                             \/ DecideCommit(p) \/ AddCommit(p)
         \/ \E i \in items : RemoveDocument(i)
<1>1. ASSUME NEW p \in Procs, CreateBegin(p) PROVE Quiet(p)
  BY <1>1, CreationBegins
<1>2. ASSUME NEW p \in Procs, Find(p) \/ Insert(p) \/ LockRow(p) PROVE Quiet(p)
  BY <1>2, TagsGoOn
<1>3. ASSUME NEW p \in Procs, Conflict(p) \/ Deadlock(p) \/ RollBack(p) PROVE Quiet(p)
  <2>1. End(p) /\ UNCHANGED <<tables, history>>
    BY <1>3 DEF Conflict, Deadlock, RollBack
  <2> QED
    BY <2>1, Ends
<1>4. ASSUME NEW p \in Requests, NEW d \in Docs,
             UpdateBegin(p, d) \/ RestoreBegin(p, d) \/ ViewBegin(p, d) \/ DecideBegin(p, d)
               \/ AddBegin(p, d)
      PROVE  Quiet(p)
  BY <1>4, WriteBegins, OthersBegin
<1>5. Requests \subseteq Procs
  BY DEF Procs
<1>6. CASE UNCHANGED vars
  BY <1>6 DEF vars
<1> QED
  BY <1>1, <1>2, <1>3, <1>4, <1>5, <1>6 DEF Next, Finish

LEMMA NextKeepsTypes == TypeOK /\ [Next]_vars => TypeOK'
<1> SUFFICES ASSUME TypeOK, [Next]_vars PROVE TypeOK'
  OBVIOUS
<1>1. CASE UNCHANGED <<tables, history, tx, ops>>
  BY <1>1 DEF TypeOK, tables, history, Docs, Inserting
<1>2. ASSUME NEW p \in Procs, Quiet(p) PROVE TypeOK'
  BY <1>2, PutKeepsTypes DEF Quiet
<1>3. ASSUME NEW p \in Procs, CreateCommit(p) PROVE TypeOK'
  BY <1>3, CreateShape
<1>4. ASSUME NEW p \in Procs, WriteCommit(p) PROVE TypeOK'
  BY <1>4, WriteShape
<1>5. ASSUME NEW p \in Procs, ViewCommit(p) PROVE TypeOK'
  BY <1>5, ViewShape
<1>6. ASSUME NEW p \in Procs, DecideCommit(p) PROVE TypeOK'
  BY <1>6, DecideShape
<1>7. ASSUME NEW p \in Procs, AddCommit(p) PROVE TypeOK'
  BY <1>7, AddShape
<1>8. ASSUME NEW i \in items, RemoveDocument(i) PROVE TypeOK'
  BY <1>8, RemoveShape
<1> QED
  BY <1>1, <1>2, <1>3, <1>4, <1>5, <1>6, <1>7, <1>8, Steps

-----------------------------------------------------------------------------
(* Codes *)

LEMMA CodesStay ==
  ASSUME TypeOK, TypeOK', CodesInv, Len(docs') = Len(docs),
         \A d \in Docs : docs'[d].code = docs[d].code,
         \A q \in Procs : tx'[q] = tx[q] \/ tx'[q].op # "create"
  PROVE  CodesInv'
<1>1. Docs = 1..Len(docs) /\ Docs' = 1..Len(docs')
  BY RowTypes DEF TypeOK, Docs
<1>2. Codes' = Codes
  BY <1>1 DEF Codes
<1>3. CodesAreCounted'
  BY <1>2 DEF CodesInv, CodesAreCounted
<1>4. CodeLink'
  BY <1>1 DEF CodesInv, CodeLink, Held
<1> QED
  BY <1>3, <1>4 DEF CodesInv

LEMMA PutKeepsCodes ==
  ASSUME TypeOK, CodesInv, NEW p \in Procs, Quiet(p)
  PROVE  CodesInv'
<1>1. PICK t \in Transactions : Put(p, t) /\ (Opens(t) \/ Creates(p, t) \/ GoesOn(p, t))
  BY DEF Quiet
<1>2. TypeOK' /\ UNCHANGED <<docs>> /\ tx'[p] = t /\ \A q \in Procs : q # p => tx'[q] = tx[q]
  BY <1>1, PutKeepsTypes, PutTx DEF Put, tables
<1>3. CASE t.op # "create"
  <2>1. \A q \in Procs : tx'[q] = tx[q] \/ tx'[q].op # "create"
    BY <1>2, <1>3
  <2> QED
    BY <1>2, <2>1, CodesStay
<1>4. CASE t.op = "create"
  <2>1. Creates(p, t)
    BY <1>1, <1>4 DEF Opens, GoesOn
  <2>2. Len(docs) \in Nat /\ Codes = 1..Len(docs)
    BY RowTypes DEF CodesInv, CodesAreCounted
  <2>3. t.code \in 1..(Len(docs) + 1)
    BY <2>1, <2>2 DEF Creates, CodesInv, CodeLink
  <2>4. t.stage = "held" =>
          t.code = Len(docs) + 1 /\ \A q \in Procs \ {p} : ~HoldsCode(q, Len(docs) + 1)
    BY <2>1, <2>2, <2>3 DEF Creates
  <2>5. \A q \in Procs : tx'[q].op = "create" => tx'[q].code \in 1..(Len(docs) + 1)
    BY <1>2, <2>3 DEF CodesInv, CodeLink
  <2>6. \A q \in Procs : Held(q)' => tx'[q].code = Len(docs) + 1
    BY <1>2, <2>4 DEF CodesInv, CodeLink, Held
  <2>7. ASSUME t.stage = "held" PROVE \A q \in Procs : q # p => ~Held(q)
    BY <2>4, <2>7 DEF CodesInv, CodeLink, Held, HoldsCode
  <2>8. \A q, r \in Procs : Held(q)' /\ Held(r)' => q = r
    BY <1>2, <2>7 DEF CodesInv, CodeLink, Held
  <2>9. CodeLink'
    BY <1>2, <2>5, <2>6, <2>8 DEF CodesInv, CodeLink, Docs
  <2> QED
    BY <1>2, <2>9 DEF CodesInv, CodesAreCounted, Codes, Docs
<1> QED
  BY <1>3, <1>4

LEMMA CreateKeepsCodes ==
  ASSUME TypeOK, CodesInv, NEW p \in Procs, CreateCommit(p)
  PROVE  CodesInv'
<1> DEFINE n == Len(docs)
<1>1. /\ n \in Nat /\ Docs = 1..n /\ Docs' = 1..(n + 1) /\ Len(docs') = n + 1
  BY RowTypes, CreateShape DEF TypeOK, Docs
<1>2. Held(p) /\ tx[p].code = n + 1 /\ docs'[n + 1].code = n + 1
  BY CreateShape DEF CodesInv, CodeLink
<1>3. \A d \in 1..n : docs'[d].code = docs[d].code
  BY <1>1, CreateShape
<1>4. \A q \in Procs : q # p => tx'[q] = tx[q] /\ ~Held(q)
  BY <1>2, CreateShape, EndTx DEF CodesInv, CodeLink
<1>5. tx'[p].op = "idle"
  BY CreateShape, EndTx
<1>6. CodesAreCounted'
  <2>1. Codes' = {docs'[d].code : d \in 1..(n + 1)}
    BY <1>1 DEF Codes
  <2>2. \A d \in 1..(n + 1) : d \in 1..n \/ d = n + 1
    BY <1>1
  <2>3. n + 1 \in 1..(n + 1) /\ \A d \in 1..n : d \in 1..(n + 1)
    BY <1>1
  <2>4. Codes' = Codes \union {n + 1}
    BY <1>1, <1>2, <1>3, <2>1, <2>2, <2>3 DEF Codes
  <2>5. Codes = 1..n
    BY DEF CodesInv, CodesAreCounted
  <2> QED
    BY <1>1, <2>4, <2>5 DEF CodesAreCounted
<1>7. \A d \in Docs' : docs'[d].code \in 1..Len(docs')
  <2>1. \A d \in 1..n : docs[d].code \in 1..n
    BY <1>1 DEF CodesInv, CodeLink
  <2> QED
    BY <1>1, <1>2, <1>3, <2>1
<1>8. \A q \in Procs : tx'[q].op = "create" => tx'[q].code \in 1..(Len(docs') + 1)
  <2>1. \A q \in Procs : tx[q].op = "create" => tx[q].code \in 1..(n + 1)
    BY DEF CodesInv, CodeLink
  <2> QED
    BY <1>1, <1>4, <1>5, <2>1
<1>9. \A q \in Procs : ~Held(q)'
  BY <1>4, <1>5 DEF Held
<1> QED
  BY <1>6, <1>7, <1>8, <1>9 DEF CodesInv, CodeLink

LEMMA NextKeepsCodes == TypeOK /\ CodesInv /\ [Next]_vars => CodesInv'
<1> SUFFICES ASSUME TypeOK, CodesInv, [Next]_vars PROVE CodesInv'
  OBVIOUS
<1>0. TypeOK'
  BY NextKeepsTypes
<1>1. CASE UNCHANGED <<tables, history, tx, ops>>
  BY <1>0, <1>1, CodesStay DEF tables
<1>2. ASSUME NEW p \in Procs, Quiet(p) PROVE CodesInv'
  BY <1>2, PutKeepsCodes
<1>3. ASSUME NEW p \in Procs, CreateCommit(p) PROVE CodesInv'
  BY <1>3, CreateKeepsCodes
<1>4. ASSUME NEW p \in Procs, WriteCommit(p) PROVE CodesInv'
  <2>1. Len(docs') = Len(docs) /\ End(p) /\ \A d \in Docs : docs'[d].code = docs[d].code
    BY <1>4, WriteShape
  <2> QED
    BY <1>0, <2>1, EndTx, CodesStay
<1>5. ASSUME NEW p \in Procs, ViewCommit(p) PROVE CodesInv'
  <2>1. Len(docs') = Len(docs) /\ End(p) /\ \A d \in Docs : docs'[d].code = docs[d].code
    BY <1>5, ViewShape
  <2> QED
    BY <1>0, <2>1, EndTx, CodesStay
<1>6. ASSUME NEW p \in Procs, DecideCommit(p) PROVE CodesInv'
  <2>1. Len(docs') = Len(docs) /\ End(p) /\ \A d \in Docs : docs'[d].code = docs[d].code
    BY <1>6, DecideShape
  <2> QED
    BY <1>0, <2>1, EndTx, CodesStay
<1>7. ASSUME NEW p \in Procs, AddCommit(p) PROVE CodesInv'
  <2>1. docs' = docs /\ End(p)
    BY <1>7, AddShape
  <2> QED
    BY <1>0, <2>1, EndTx, CodesStay
<1>8. ASSUME NEW i \in items, RemoveDocument(i) PROVE CodesInv'
  BY <1>0, <1>8, RemoveShape, CodesStay
<1> QED
  BY <1>1, <1>2, <1>3, <1>4, <1>5, <1>6, <1>7, <1>8, Steps

-----------------------------------------------------------------------------
(* History *)

\* Steps that touch no text.
LEMMA HistoryStays ==
  ASSUME TypeOK, TypeOK', HistoryInv, Len(docs') = Len(docs), rows' = rows, mixed \subseteq mixed',
         \A d \in Docs : /\ docs'[d].title = docs[d].title /\ docs'[d].content = docs[d].content
                         /\ docs'[d].version = docs[d].version,
         \A q \in Procs : tx'[q] = tx[q] \/ WriteLink(tx'[q])
  PROVE  HistoryInv'
<1>1. Docs' = Docs
  BY RowTypes DEF TypeOK, Docs
<1>2. \A d \in Docs : Numbers(d)' = Numbers(d)
  BY DEF Numbers
<1>3. \A d \in Docs : Unbroken(d)'
  BY <1>2 DEF HistoryInv, Unbroken, Numbers
<1>4. CurrentIsKept'
  BY <1>1 DEF HistoryInv, CurrentIsKept, Snapshot
<1>5. \A q \in Procs : tx'[q].op = "write" => tx'[q].doc \in Docs
  BY <1>1 DEF TypeOK
<1>6. \A q \in Procs : WriteLink(tx[q])'
  <2>1. \A q \in Procs : WriteLink(tx'[q])
    BY DEF HistoryInv
  <2> QED
    BY <1>5, <2>1 DEF WriteLink, Numbers
<1> QED
  BY <1>1, <1>3, <1>4, <1>6 DEF HistoryInv

LEMMA OpensWrite ==
  ASSUME TypeOK, HistoryInv, NEW t \in Transactions, Opens(t) \/ t.op = "create"
  PROVE  WriteLink(t)
<1> SUFFICES ASSUME t.op = "write" PROVE WriteLink(t)
  BY DEF WriteLink
<1>1. PICK d \in Docs, title \in Texts, content \in Texts, bumps \in BOOLEAN, labels \in Seq(Tags) :
        /\ bumps \/ (title = docs[d].title /\ content = docs[d].content)
        /\ t = Edited(d, title, content, bumps, labels)
  BY DEF Opens
<1>2. /\ t.doc = d /\ t.base = Len(rows[d]) /\ t.bumps = bumps
      /\ t.copy.title = title /\ t.copy.content = content
      /\ t.copy.version = docs[d].version + (IF bumps THEN 1 ELSE 0)
      /\ t.dirty = {c \in {"title", "content"} : docs[d][c] # (IF c = "title" THEN title ELSE content)}
  BY <1>1 DEF Edited
<1>3. docs[d] \in Documents /\ Len(rows[d]) \in Nat
  BY RowTypes
<1>4. docs[d].version \in Numbers(d)
  BY DEF HistoryInv, Unbroken
<1>5. /\ "title" \in t.dirty <=> docs[d].title # title
      /\ "content" \in t.dirty <=> docs[d].content # content
      /\ t.dirty \subseteq {"title", "content"}
  BY <1>2
<1>6. ~bumps => t.dirty = {}
  BY <1>1, <1>5
<1>7. bumps => \E n \in Numbers(d) : t.copy.version = n + 1
  BY <1>2, <1>4
<1> QED
  BY <1>2, <1>3, <1>5, <1>6, <1>7 DEF WriteLink

LEMMA CreateKeepsHistory ==
  ASSUME TypeOK, HistoryInv, NEW p \in Procs, CreateCommit(p)
  PROVE  HistoryInv'
<1> PICK n : n = Len(docs)
  OBVIOUS
<1>1. /\ n \in Nat /\ Docs = 1..n /\ Docs' = 1..(n + 1) /\ TypeOK'
  <2>1. n \in Nat /\ Docs = 1..n
    BY RowTypes
  <2>2. TypeOK' /\ Len(docs') = n + 1
    BY CreateShape
  <2>3. docs' \in Seq(Documents)
    BY <2>2 DEF TypeOK
  <2> QED
    BY ONLY <2>1, <2>2, <2>3 DEF Docs
<1>2. \A d \in Docs : docs'[d] = docs[d] /\ rows'[d] = rows[d]
  BY CreateShape
<1>3. /\ rows'[n + 1] = <<Snapshot(docs'[n + 1])>> /\ docs'[n + 1].version = 1 /\ mixed' = mixed
  BY CreateShape DEF history
<1>4. Unbroken(n + 1)'
  <2>1. Snapshot(docs'[n + 1]).version = 1
    BY <1>3 DEF Snapshot
  <2>2. Len(rows'[n + 1]) = 1 /\ rows'[n + 1][1].version = 1
    BY <1>3, <2>1
  <2>3. Numbers(n + 1)' = 1..1
    <3>1. \A i \in 1..1 : i = 1
      OBVIOUS
    <3> QED
      BY <2>2, <3>1 DEF Numbers
  <2>4. \E k \in Nat : Numbers(n + 1)' = 1..k /\ docs'[n + 1].version \in 1..k
    <3>1. 1 \in Nat /\ docs'[n + 1].version \in 1..1
      BY <1>3
    <3>2. Numbers(n + 1)' = 1..1
      BY <2>3
    <3> QED
      BY ONLY <3>1, <3>2, Zenon
  <2> QED
    BY <2>4 DEF Unbroken
<1>5. ASSUME NEW d \in Docs
      PROVE  Unbroken(d)'
  <2>1. docs'[d] = docs[d] /\ rows'[d] = rows[d]
    BY <1>2
  <2>2. Numbers(d)' = Numbers(d)
    BY <2>1 DEF Numbers
  <2>3. \E k \in Nat : Numbers(d) = 1..k /\ docs[d].version \in 1..k
    BY DEF HistoryInv, Unbroken
  <2>4. \E k \in Nat : Numbers(d)' = 1..k /\ docs'[d].version \in 1..k
    BY ONLY <2>1, <2>2, <2>3
  <2> QED
    BY ONLY <2>4 DEF Unbroken
<1>6. \A d \in Docs' : Unbroken(d)'
  BY <1>1, <1>4, <1>5
<1>7. CurrentIsKept'
  <2> SUFFICES ASSUME NEW d \in Docs', d \notin mixed
               PROVE  \E i \in DOMAIN rows'[d] : rows'[d][i] = Snapshot(docs'[d])
    BY <1>3 DEF CurrentIsKept, Snapshot
  <2>1. CASE d \in Docs
    BY <1>2, <2>1 DEF HistoryInv, CurrentIsKept
  <2>2. CASE d \notin Docs
    <3>1. d = n + 1
      BY <1>1, <2>2
    <3> QED
      BY <1>3, <3>1
  <2> QED
    BY <2>1, <2>2
<1>8. \A q \in Procs : tx'[q] = tx[q] \/ tx'[q].op = "idle"
  BY CreateShape, EndTx
<1>9. \A q \in Procs : WriteLink(tx[q])'
  <2> SUFFICES ASSUME NEW q \in Procs
               PROVE  WriteLink(tx[q])'
    OBVIOUS
  <2>0. CASE tx'[q].op = "idle"
    BY <2>0 DEF WriteLink
  <2>e. CASE tx'[q] = tx[q] /\ tx[q].op # "write"
    BY <2>e DEF WriteLink
  <2>w. CASE tx'[q] = tx[q] /\ tx[q].op = "write"
    <3>1. tx'[q] = tx[q] /\ tx[q].op = "write" /\ tx[q].doc \in Docs /\ WriteLink(tx[q])
      BY <2>w DEF TypeOK, HistoryInv
    <3>2. docs'[tx[q].doc] = docs[tx[q].doc] /\ rows'[tx[q].doc] = rows[tx[q].doc]
      BY <1>2, <3>1
    <3>3. Numbers(tx[q].doc)' = Numbers(tx[q].doc)
      BY <3>1, <3>2 DEF Numbers
    <3> QED
      BY ONLY <3>1, <3>2, <3>3 DEF WriteLink
  <2> QED
    BY <1>8, <2>0, <2>e, <2>w
<1> QED
  BY <1>6, <1>7, <1>9 DEF HistoryInv

LEMMA WriteKeepsHistory ==
  ASSUME TypeOK, HistoryInv, NEW p \in Procs, WriteCommit(p)
  PROVE  HistoryInv'
<1> PICK t : t = tx[p]
  OBVIOUS
<1> PICK d : d = t.doc
  OBVIOUS
<1> PICK m : m = Len(rows[d])
  OBVIOUS
<1> PICK v : v = Snapshot(t.copy)
  OBVIOUS
<1>1. /\ TypeOK' /\ t.op = "write" /\ d \in Docs /\ Len(docs') = Len(docs) /\ v \in Versions
      /\ \A e \in Docs : e # d => docs'[e] = docs[e] /\ rows'[e] = rows[e]
  BY WriteShape
<1>2. /\ docs'[d].title = IF "title" \in t.dirty THEN t.copy.title ELSE docs[d].title
      /\ docs'[d].content = IF "content" \in t.dirty THEN t.copy.content ELSE docs[d].content
      /\ docs'[d].version = IF t.bumps THEN t.copy.version ELSE docs[d].version
      /\ rows'[d] = IF t.bumps THEN Append(rows[d], v) ELSE rows[d]
      /\ mixed' = IF m # t.base THEN mixed \union {d}
                  ELSE IF t.bumps THEN mixed \ {d} ELSE mixed
  BY WriteShape
<1>3. \A q \in Procs : tx'[q] = tx[q] \/ tx'[q].op = "idle"
  BY WriteShape, EndTx
<1>4. WriteLink(t) /\ rows[d] \in Seq(Versions) /\ m \in Nat
  BY <1>1, RowTypes DEF HistoryInv
<1>5. CASE ~t.bumps
  <2>1. t.dirty = {}
    BY <1>1, <1>4, <1>5 DEF WriteLink
  <2>2. rows' = rows
    BY <1>5 DEF WriteCommit
  <2>3. \A e \in Docs : /\ docs'[e].title = docs[e].title /\ docs'[e].content = docs[e].content
                        /\ docs'[e].version = docs[e].version
    BY <1>1, <1>2, <1>5, <2>1
  <2>4. mixed \subseteq mixed'
    BY <1>2, <1>5
  <2>5. \A q \in Procs : tx'[q] = tx[q] \/ WriteLink(tx'[q])
    BY <1>3 DEF WriteLink
  <2> QED
    BY <1>1, <2>2, <2>3, <2>4, <2>5, HistoryStays
<1>6. CASE t.bumps
  <2>1. Docs' = Docs
    BY <1>1, RowTypes DEF TypeOK, Docs
  <2>2. /\ Len(rows'[d]) = m + 1 /\ rows'[d][m + 1] = v /\ \A i \in 1..m : rows'[d][i] = rows[d][i]
        /\ DOMAIN rows'[d] = 1..(m + 1)
    <3>1. rows'[d] = Append(rows[d], v)
      BY <1>2, <1>6
    <3> QED
      BY <1>1, <1>4, <3>1, Appended
  <2>3. v.version = t.copy.version /\ v.title = t.copy.title /\ v.content = t.copy.content
    BY DEF Snapshot
  <2>4. Numbers(d)' = Numbers(d) \union {t.copy.version}
    <3>1. \A i \in 1..(m + 1) : i \in 1..m \/ i = m + 1
      BY <1>4
    <3>2. m + 1 \in 1..(m + 1) /\ \A i \in 1..m : i \in 1..(m + 1)
      BY <1>4
    <3>3. \A k : (\E i \in 1..(m + 1) : rows'[d][i].version = k) <=>
                   ((\E i \in 1..m : rows[d][i].version = k) \/ k = t.copy.version)
      <4>1. ASSUME NEW i \in 1..(m + 1)
            PROVE  rows'[d][i].version = t.copy.version
                   \/ (i \in 1..m /\ rows'[d][i].version = rows[d][i].version)
        BY <2>2, <2>3, <3>1
      <4>2. \A i \in 1..m : i \in 1..(m + 1) /\ rows'[d][i].version = rows[d][i].version
        BY <2>2, <3>2
      <4>3. m + 1 \in 1..(m + 1) /\ rows'[d][m + 1].version = t.copy.version
        BY <2>2, <2>3, <3>2
      <4> QED
        BY ONLY <4>1, <4>2, <4>3, Zenon
    <3>4. Numbers(d)' = {rows'[d][i].version : i \in 1..(m + 1)}
      BY <2>2 DEF Numbers
    <3>5. Numbers(d) = {rows[d][i].version : i \in 1..m}
      BY DEF Numbers
    <3>6. \A k : k \in Numbers(d)' <=> \E i \in 1..(m + 1) : rows'[d][i].version = k
      BY <3>4
    <3>7. \A k : k \in Numbers(d) <=> \E i \in 1..m : rows[d][i].version = k
      BY <3>5
    <3>8. \A k : k \in Numbers(d)' <=> (k \in Numbers(d) \/ k = t.copy.version)
      BY <3>3, <3>6, <3>7
    <3> QED
      BY <3>8
  <2>5. \A e \in Docs : e # d => Numbers(e)' = Numbers(e)
    BY <1>1 DEF Numbers
  <2>6. \A e \in Docs : Unbroken(e)'
    <3> SUFFICES ASSUME NEW e \in Docs PROVE Unbroken(e)'
      OBVIOUS
    <3>1. CASE e # d
      BY <1>1, <2>5, <3>1 DEF HistoryInv, Unbroken
    <3>2. CASE e = d
      <4>1. PICK n \in Nat : Numbers(d) = 1..n
        BY <1>1 DEF HistoryInv, Unbroken
      <4>2. PICK k \in 1..n : t.copy.version = k + 1
        BY <1>1, <1>4, <1>6, <4>1 DEF WriteLink
      <4>3. \E j \in Nat : (1..n) \union {k + 1} = 1..j /\ k + 1 \in 1..j
        <5>1. CASE k + 1 <= n
          BY <5>1
        <5>2. CASE k = n
          <6>1. (1..n) \union {n + 1} = 1..(n + 1) /\ n + 1 \in 1..(n + 1) /\ n + 1 \in Nat
            OBVIOUS
          <6> QED
            BY <5>2, <6>1
        <5> QED
          BY <5>1, <5>2
      <4>4. docs'[d].version = k + 1 /\ Numbers(d)' = (1..n) \union {k + 1}
        BY <1>2, <1>6, <2>4, <4>1, <4>2
      <4> QED
        BY <3>2, <4>3, <4>4 DEF Unbroken
    <3> QED
      BY <3>1, <3>2
  <2>7. CurrentIsKept'
    <3> SUFFICES ASSUME NEW e \in Docs, e \notin mixed'
                 PROVE  \E i \in DOMAIN rows'[e] : rows'[e][i] = Snapshot(docs'[e])
      BY <2>1 DEF CurrentIsKept, Snapshot
    <3>1. CASE e # d
      <4>1. e \notin mixed
        BY <1>2, <3>1
      <4> QED
        BY <1>1, <3>1, <4>1 DEF HistoryInv, CurrentIsKept
    <3>2. CASE e = d
      <4>1. m = t.base
        BY <1>2, <3>2
      <4>2. /\ docs'[d].title = t.copy.title /\ docs'[d].content = t.copy.content
            /\ docs'[d].version = t.copy.version
        BY <1>1, <1>2, <1>4, <1>6, <4>1 DEF WriteLink
      <4>3. v = Snapshot(docs'[d])
        BY <4>2 DEF Snapshot
      <4>4. m + 1 \in DOMAIN rows'[d]
        BY <1>4, <2>2
      <4> QED
        BY <2>2, <3>2, <4>3, <4>4
    <3> QED
      BY <3>1, <3>2
  <2>8. \A q \in Procs : WriteLink(tx[q])'
    <3> SUFFICES ASSUME NEW q \in Procs
                 PROVE  WriteLink(tx[q])'
      OBVIOUS
    <3> PICK u : u = tx[q]
      OBVIOUS
    <3>1. CASE tx'[q].op = "idle"
      BY <3>1 DEF WriteLink
    <3>2. CASE tx'[q] = u /\ u.op # "write"
      BY <3>2 DEF WriteLink
    <3>3. CASE tx'[q] = u /\ u.op = "write"
      <4>1. u \in Transactions /\ u.op = "write" /\ u.doc \in Docs /\ WriteLink(u)
        BY <3>3 DEF TypeOK, HistoryInv
      <4>2. u.base \in Nat
        BY <4>1, Kinds DEF Writes
      <4>3. CASE u.doc # d
        <5>1. /\ docs'[u.doc] = docs[u.doc] /\ rows'[u.doc] = rows[u.doc]
              /\ Numbers(u.doc)' = Numbers(u.doc)
          BY <1>1, <2>5, <4>1, <4>3
        <5> QED
          BY ONLY <3>3, <4>1, <5>1 DEF WriteLink
      <4>4. CASE u.doc = d
        <5>1. u.base <= m
          BY <4>1, <4>4 DEF WriteLink
        <5>2. u.base <= Len(rows'[d]) /\ u.base # Len(rows'[d])
          BY <1>4, <2>2, <4>2, <5>1
        <5>3. u.bumps => \E n \in Numbers(d)' : u.copy.version = n + 1
          BY <2>4, <4>1, <4>4 DEF WriteLink
        <5>4. ~u.bumps => u.dirty = {}
          BY <4>1 DEF WriteLink
        <5> QED
          BY ONLY <3>3, <4>4, <5>2, <5>3, <5>4 DEF WriteLink
      <4> QED
        BY <4>3, <4>4
    <3> QED
      BY <1>3, <3>1, <3>2, <3>3
  <2> QED
    BY <2>1, <2>6, <2>7, <2>8 DEF HistoryInv
<1> QED
  BY <1>5, <1>6

LEMMA NextKeepsHistory == TypeOK /\ HistoryInv /\ [Next]_vars => HistoryInv'
<1> SUFFICES ASSUME TypeOK, HistoryInv, [Next]_vars PROVE HistoryInv'
  OBVIOUS
<1>0. TypeOK'
  BY NextKeepsTypes
<1>9. \A t : t.op # "write" => WriteLink(t)
  BY DEF WriteLink
<1>1. CASE UNCHANGED <<tables, history, tx, ops>>
  BY <1>0, <1>1, HistoryStays DEF tables, history
<1>2. ASSUME NEW p \in Procs, Quiet(p) PROVE HistoryInv'
  <2>1. PICK t \in Transactions : Put(p, t) /\ (Opens(t) \/ Creates(p, t) \/ GoesOn(p, t))
    BY <1>2 DEF Quiet
  <2>2. WriteLink(t)
    <3>1. CASE GoesOn(p, t)
      <4>1. WriteLink(tx[p])
        BY DEF HistoryInv
      <4> QED
        BY <3>1, <4>1 DEF GoesOn, WriteLink
    <3> QED
      BY <2>1, <3>1, OpensWrite DEF Creates
  <2>3. \A q \in Procs : tx'[q] = tx[q] \/ WriteLink(tx'[q])
    BY <2>1, <2>2, PutTx DEF Put, WriteLink
  <2> QED
    BY <1>0, <2>1, <2>3, HistoryStays DEF Put, tables, history
<1>3. ASSUME NEW p \in Procs, CreateCommit(p) PROVE HistoryInv'
  BY <1>3, CreateKeepsHistory
<1>4. ASSUME NEW p \in Procs, WriteCommit(p) PROVE HistoryInv'
  BY <1>4, WriteKeepsHistory
<1>5. ASSUME NEW p \in Procs, ViewCommit(p) PROVE HistoryInv'
  <2>1. /\ Len(docs') = Len(docs) /\ End(p) /\ rows' = rows /\ mixed' = mixed
        /\ \A d \in Docs : /\ docs'[d].title = docs[d].title /\ docs'[d].content = docs[d].content
                           /\ docs'[d].version = docs[d].version
    BY <1>5, ViewShape
  <2>2. \A q \in Procs : tx'[q] = tx[q] \/ WriteLink(tx'[q])
    BY <2>1, EndTx DEF WriteLink
  <2> QED
    BY <1>0, <2>1, <2>2, HistoryStays
<1>6. ASSUME NEW p \in Procs, DecideCommit(p) PROVE HistoryInv'
  <2>1. /\ Len(docs') = Len(docs) /\ End(p) /\ rows' = rows /\ mixed' = mixed
        /\ \A d \in Docs : /\ docs'[d].title = docs[d].title /\ docs'[d].content = docs[d].content
                           /\ docs'[d].version = docs[d].version
    BY <1>6, DecideShape
  <2>2. \A q \in Procs : tx'[q] = tx[q] \/ WriteLink(tx'[q])
    BY <2>1, EndTx DEF WriteLink
  <2> QED
    BY <1>0, <2>1, <2>2, HistoryStays
<1>7. ASSUME NEW p \in Procs, AddCommit(p) PROVE HistoryInv'
  <2>1. docs' = docs /\ rows' = rows /\ mixed' = mixed /\ End(p)
    BY <1>7, AddShape DEF history
  <2>2. \A q \in Procs : tx'[q] = tx[q] \/ WriteLink(tx'[q])
    BY <2>1, EndTx DEF WriteLink
  <2> QED
    BY <1>0, <2>1, <2>2, HistoryStays
<1>8. ASSUME NEW i \in items, RemoveDocument(i) PROVE HistoryInv'
  BY <1>0, <1>8, RemoveShape, HistoryStays
<1> QED
  BY <1>1, <1>2, <1>3, <1>4, <1>5, <1>6, <1>7, <1>8, Steps

-----------------------------------------------------------------------------
(* Views *)

LEMMA ViewsStay ==
  ASSUME TypeOK, TypeOK', ViewsInv, Len(docs') = Len(docs), views' = views, lost' = lost,
         seed' = seed,
         \A d \in Docs : docs'[d].views = docs[d].views,
         \A q \in Procs : tx'[q] = tx[q] \/ ViewLink(tx'[q])
  PROVE  ViewsInv'
<1>0. \A e : First(e)' = First(e)
  BY DEF First
<1>1. Docs' = Docs
  BY RowTypes DEF TypeOK, Docs
<1>2. ViewsAreLogged'
  BY <1>0, <1>1 DEF ViewsInv, ViewsAreLogged
<1>3. \A q \in Procs : ViewLink(tx'[q])
  BY DEF ViewsInv
<1>4. \A q \in Procs : ViewLink(tx[q])'
  BY <1>0, <1>3 DEF ViewLink
<1> QED
  BY <1>2, <1>4 DEF ViewsInv

LEMMA OpensView ==
  ASSUME TypeOK, ViewsInv, NEW t \in Transactions, Opens(t) \/ t.op = "create"
  PROVE  ViewLink(t)
<1> SUFFICES ASSUME t.op = "view" PROVE ViewLink(t)
  BY DEF ViewLink
<1>1. PICK d \in Docs : t = [op |-> "view", doc |-> d, views |-> docs[d].views, base |-> views[d]]
  BY DEF Opens
<1>2. t.doc = d /\ t.views = docs[d].views /\ t.base = views[d]
  BY <1>1
<1>3. /\ docs[d].views <= First(d).views + views[d] /\ views[d] \in Nat
      /\ d \notin lost => docs[d].views = First(d).views + views[d]
  BY RowTypes DEF ViewsInv, ViewsAreLogged
<1> QED
  BY <1>2, <1>3 DEF ViewLink

LEMMA CreateKeepsViews ==
  ASSUME TypeOK, ViewsInv, NEW p \in Procs, CreateCommit(p)
  PROVE  ViewsInv'
<1> PICK n : n = Len(docs)
  OBVIOUS
<1>1. /\ n \in Nat /\ n >= 1 /\ Docs = 1..n /\ Docs' = 1..(n + 1)
  BY RowTypes, CreateShape DEF TypeOK, Docs
<1>2. /\ \A d \in Docs : docs'[d] = docs[d] /\ views'[d] = views[d]
      /\ docs'[n + 1].views = 0 /\ views'[n + 1] = 0 /\ lost' = lost
  BY CreateShape DEF history
<1>0. \A e : First(e)' = First(e)
  BY CreateShape DEF First, history
<1>3. \A d \in Docs' : d \in Docs \/ d = n + 1
  BY <1>1
<1>7. First(n + 1).views = 0
  BY <1>1, FirstTypes
<1>4. ViewsAreLogged'
  BY <1>0, <1>2, <1>3, <1>7 DEF ViewsInv, ViewsAreLogged
<1>5. \A q \in Procs : tx'[q] = tx[q] \/ tx'[q].op = "idle"
  BY CreateShape, EndTx
<1>6. \A q \in Procs : ViewLink(tx[q])'
  <2>1. \A q \in Procs : tx[q].op = "view" => tx[q].doc \in Docs /\ ViewLink(tx[q])
    BY DEF TypeOK, ViewsInv
  <2> QED
    BY <1>0, <1>2, <1>5, <2>1 DEF ViewLink
<1> QED
  BY <1>4, <1>6 DEF ViewsInv

LEMMA ViewKeepsViews ==
  ASSUME TypeOK, ViewsInv, NEW p \in Procs, ViewCommit(p)
  PROVE  ViewsInv'
<1> PICK t : t = tx[p]
  OBVIOUS
<1> PICK d : d = t.doc
  OBVIOUS
<1>1. /\ TypeOK' /\ t.op = "view" /\ t.views \in Nat /\ d \in Docs /\ Len(docs') = Len(docs)
      /\ \A e \in Docs : /\ docs'[e].views = IF e = d THEN t.views + 1 ELSE docs[e].views
                         /\ views'[e] = IF e = d THEN views[e] + 1 ELSE views[e]
      /\ lost' = IF views[d] # t.base THEN lost \union {d} ELSE lost
  BY ViewShape
<1>0. \A e : First(e)' = First(e)
  BY ViewShape DEF First
<1>2. Docs' = Docs
  BY <1>1, RowTypes DEF TypeOK, Docs
<1>3. t \in Viewings
  BY <1>1, Kinds DEF TypeOK
<1>4. /\ t.base \in Nat /\ t.views <= First(d).views + t.base /\ t.base <= views[d]
      /\ d \notin lost => t.views = First(d).views + t.base
  BY <1>1, <1>3 DEF ViewsInv, ViewLink, Viewings
<1>5. \A e \in Docs : views[e] \in Nat /\ docs[e].views \in Nat /\ First(e).views \in Nat
  BY RowTypes, FirstTypes DEF Documents
<1>6. ViewsAreLogged'
  <2>1. ASSUME NEW e \in Docs
        PROVE  /\ docs'[e].views <= First(e).views + views'[e]
               /\ e \notin lost' => docs'[e].views = First(e).views + views'[e]
    <3>1. CASE e = d
      <4>1. docs'[e].views = t.views + 1 /\ views'[e] = views[e] + 1
        BY <1>1, <3>1
      <4>2. e \notin lost' => views[e] = t.base /\ e \notin lost
        BY <1>1, <3>1
      <4>3. /\ t.views <= First(e).views + t.base /\ t.base <= views[e] /\ t.base \in Nat
            /\ e \notin lost => t.views = First(e).views + t.base
            /\ views[e] \in Nat /\ First(e).views \in Nat /\ t.views \in Nat
        BY <1>1, <1>4, <1>5, <3>1
      <4> QED
        BY ONLY <4>1, <4>2, <4>3
    <3>2. CASE e # d
      <4>1. docs'[e].views = docs[e].views /\ views'[e] = views[e] /\ (e \in lost => e \in lost')
        BY <1>1, <3>2
      <4> QED
        BY <4>1 DEF ViewsInv, ViewsAreLogged
    <3> QED
      BY <3>1, <3>2
  <2> QED
    BY ONLY <1>0, <1>2, <2>1 DEF ViewsAreLogged
<1>7. \A q \in Procs : tx'[q] = tx[q] \/ tx'[q].op = "idle"
  BY ViewShape, EndTx
<1>8. \A q \in Procs : ViewLink(tx[q])'
  <2> SUFFICES ASSUME NEW u \in Transactions, u.op = "view", u.doc \in Docs, ViewLink(u)
               PROVE  /\ u.base <= views'[u.doc]
                      /\ u.doc \notin lost' => u.views = First(u.doc).views + u.base
    <3>1. \A q \in Procs : tx[q].op = "view" =>
            tx[q] \in Transactions /\ tx[q].doc \in Docs /\ ViewLink(tx[q])
      BY DEF TypeOK, ViewsInv
    <3> QED
      BY <1>0, <1>7, <3>1 DEF ViewLink
  <2>1. u.base \in Nat /\ views[u.doc] \in Nat /\ u.base <= views[u.doc]
    BY <1>5, Kinds DEF Viewings, ViewLink
  <2>2. views'[u.doc] >= views[u.doc]
    BY <1>1, <2>1
  <2>3. u.base <= views'[u.doc]
    BY <1>1, <2>1, <2>2
  <2>4. u.doc \notin lost' => u.doc \notin lost
    BY <1>1
  <2> QED
    BY <2>3, <2>4 DEF ViewLink
<1> QED
  BY <1>6, <1>8 DEF ViewsInv

LEMMA NextKeepsViews == TypeOK /\ ViewsInv /\ [Next]_vars => ViewsInv'
<1> SUFFICES ASSUME TypeOK, ViewsInv, [Next]_vars PROVE ViewsInv'
  OBVIOUS
<1>0. TypeOK'
  BY NextKeepsTypes
<1>1. CASE UNCHANGED <<tables, history, tx, ops>>
  BY <1>0, <1>1, ViewsStay DEF tables, history
<1>2. ASSUME NEW p \in Procs, Quiet(p) PROVE ViewsInv'
  <2>1. PICK t \in Transactions : Put(p, t) /\ (Opens(t) \/ Creates(p, t) \/ GoesOn(p, t))
    BY <1>2 DEF Quiet
  <2>2. ViewLink(t)
    BY <2>1, OpensView DEF Creates, GoesOn, ViewLink
  <2>3. \A q \in Procs : tx'[q] = tx[q] \/ ViewLink(tx'[q])
    BY <2>1, <2>2, PutTx DEF Put, ViewLink
  <2> QED
    BY <1>0, <2>1, <2>3, ViewsStay DEF Put, tables, history
<1>3. ASSUME NEW p \in Procs, CreateCommit(p) PROVE ViewsInv'
  BY <1>3, CreateKeepsViews
<1>4. ASSUME NEW p \in Procs, WriteCommit(p) PROVE ViewsInv'
  <2>1. /\ Len(docs') = Len(docs) /\ End(p) /\ views' = views /\ lost' = lost /\ seed' = seed
        /\ \A d \in Docs : docs'[d].views = docs[d].views
    BY <1>4, WriteShape
  <2>2. \A q \in Procs : tx'[q] = tx[q] \/ ViewLink(tx'[q])
    BY <2>1, EndTx DEF ViewLink
  <2> QED
    BY <1>0, <2>1, <2>2, ViewsStay
<1>5. ASSUME NEW p \in Procs, ViewCommit(p) PROVE ViewsInv'
  BY <1>5, ViewKeepsViews
<1>6. ASSUME NEW p \in Procs, DecideCommit(p) PROVE ViewsInv'
  <2>1. /\ Len(docs') = Len(docs) /\ End(p) /\ views' = views /\ lost' = lost /\ seed' = seed
        /\ \A d \in Docs : docs'[d].views = docs[d].views
    BY <1>6, DecideShape
  <2>2. \A q \in Procs : tx'[q] = tx[q] \/ ViewLink(tx'[q])
    BY <2>1, EndTx DEF ViewLink
  <2> QED
    BY <1>0, <2>1, <2>2, ViewsStay
<1>7. ASSUME NEW p \in Procs, AddCommit(p) PROVE ViewsInv'
  <2>1. docs' = docs /\ views' = views /\ lost' = lost /\ seed' = seed /\ End(p)
    BY <1>7, AddShape DEF history
  <2>2. \A q \in Procs : tx'[q] = tx[q] \/ ViewLink(tx'[q])
    BY <2>1, EndTx DEF ViewLink
  <2> QED
    BY <1>0, <2>1, <2>2, ViewsStay
<1>8. ASSUME NEW i \in items, RemoveDocument(i) PROVE ViewsInv'
  BY <1>0, <1>8, RemoveShape, ViewsStay
<1> QED
  BY <1>1, <1>2, <1>3, <1>4, <1>5, <1>6, <1>7, <1>8, Steps

-----------------------------------------------------------------------------
(* Status *)

LEMMA StatusStays ==
  ASSUME TypeOK, TypeOK', StatusInv, Len(docs') = Len(docs), reviews' = reviews,
         crossed' = crossed, seed' = seed, \A d \in Docs : docs'[d].status = docs[d].status,
         \A q \in Procs : tx'[q] = tx[q] \/ DecideLink(tx'[q])
  PROVE  StatusInv'
<1>0. \A e : First(e)' = First(e)
  BY DEF First
<1>1. Docs' = Docs
  BY RowTypes DEF TypeOK, Docs
<1>2. StatusTellsReview'
  BY <1>0, <1>1 DEF StatusInv, StatusTellsReview, Outcome
<1>3. \A q \in Procs : DecideLink(tx'[q])
  BY DEF StatusInv
<1>4. \A q \in Procs : tx'[q].op = "decide" => tx'[q].doc \in Docs
  BY <1>1 DEF TypeOK
<1>5. \A q \in Procs : DecideLink(tx[q])'
  BY <1>3, <1>4 DEF DecideLink
<1> QED
  BY <1>2, <1>5 DEF StatusInv

LEMMA OpensDecide ==
  ASSUME TypeOK, NEW t \in Transactions, Opens(t) \/ t.op = "create"
  PROVE  DecideLink(t)
<1> SUFFICES ASSUME t.op = "decide" PROVE DecideLink(t)
  BY DEF DecideLink
<1>1. PICK d \in Docs, decision \in Judgements :
        t = [op |-> "decide", doc |-> d, from |-> docs[d].status, decision |-> decision,
             base |-> Len(reviews[d])]
  BY DEF Opens
<1>2. t.doc = d /\ t.from = docs[d].status /\ t.base = Len(reviews[d])
  BY <1>1
<1>3. Len(reviews[d]) \in Nat
  BY RowTypes
<1> QED
  BY <1>2, <1>3 DEF DecideLink

LEMMA CreateKeepsStatus ==
  ASSUME TypeOK, StatusInv, NEW p \in Procs, CreateCommit(p)
  PROVE  StatusInv'
<1> PICK n : n = Len(docs)
  OBVIOUS
<1>1. /\ n \in Nat /\ n >= 1 /\ Docs = 1..n /\ Docs' = 1..(n + 1)
  BY RowTypes, CreateShape DEF TypeOK, Docs
<1>2. /\ \A d \in Docs : docs'[d] = docs[d] /\ reviews'[d] = reviews[d]
      /\ docs'[n + 1].status = "draft" /\ reviews'[n + 1] = <<>> /\ crossed' = crossed
  BY CreateShape DEF history
<1>0. \A e : First(e)' = First(e)
  BY CreateShape DEF First, history
<1>3. \A d \in Docs' : d \in Docs \/ d = n + 1
  BY <1>1
<1>7. First(n + 1).status = "draft"
  BY <1>1, FirstTypes
<1>4. StatusTellsReview'
  BY <1>0, <1>2, <1>3, <1>7 DEF StatusInv, StatusTellsReview, Outcome
<1>5. \A q \in Procs : tx'[q] = tx[q] \/ tx'[q].op = "idle"
  BY CreateShape, EndTx
<1>6. \A q \in Procs : DecideLink(tx[q])'
  <2>1. \A q \in Procs : tx[q].op = "decide" => tx[q].doc \in Docs /\ DecideLink(tx[q])
    BY DEF TypeOK, StatusInv
  <2> QED
    BY <1>2, <1>5, <2>1 DEF DecideLink
<1> QED
  BY <1>4, <1>6 DEF StatusInv

LEMMA DecideKeepsStatus ==
  ASSUME TypeOK, StatusInv, NEW p \in Procs, DecideCommit(p)
  PROVE  StatusInv'
<1> PICK t : t = tx[p]
  OBVIOUS
<1> PICK d : d = t.doc
  OBVIOUS
<1> PICK m : m = Len(reviews[d])
  OBVIOUS
<1>1. /\ TypeOK' /\ t.op = "decide" /\ d \in Docs /\ Len(docs') = Len(docs)
      /\ \A e \in Docs : /\ docs'[e].status = IF e = d THEN StatusAfter(t) ELSE docs[e].status
                         /\ e # d => reviews'[e] = reviews[e]
      /\ reviews'[d] = Append(reviews[d], t.decision) /\ t.decision \in Judgements
      /\ crossed' = IF m # t.base THEN crossed \union {d} ELSE crossed \ {d}
  BY DecideShape
<1>0. \A e : First(e)' = First(e)
  BY DecideShape DEF First
<1>2. Docs' = Docs
  BY <1>1, RowTypes DEF TypeOK, Docs
<1>3. DecideLink(t) /\ reviews[d] \in Seq(Judgements) /\ m \in Nat
  BY <1>1, RowTypes DEF StatusInv
<1>4. reviews'[d] # <<>> /\ Len(reviews'[d]) = m + 1 /\ reviews'[d][m + 1] = t.decision
  BY <1>1, <1>3, Appended
<1>5. m = t.base => StatusAfter(t) = Outcome(t.decision)
  BY <1>1, <1>3 DEF DecideLink, StatusAfter
<1>6. StatusTellsReview'
  <2> SUFFICES ASSUME NEW e \in Docs, e \notin crossed'
               PROVE  docs'[e].status =
                        IF reviews'[e] = <<>> THEN First(e).status
                        ELSE Outcome(reviews'[e][Len(reviews'[e])])
    BY <1>0, <1>2 DEF StatusTellsReview, Outcome
  <2>1. CASE e = d
    BY <1>1, <1>4, <1>5, <2>1
  <2>2. CASE e # d
    <3>1. e \notin crossed
      BY <1>1, <2>2
    <3> QED
      BY <1>1, <2>2, <3>1 DEF StatusInv, StatusTellsReview
  <2> QED
    BY <2>1, <2>2
<1>7. \A q \in Procs : tx'[q] = tx[q] \/ tx'[q].op = "idle"
  BY DecideShape, EndTx
<1>8. \A q \in Procs : DecideLink(tx[q])'
  <2> SUFFICES ASSUME NEW u \in Transactions, u.op = "decide", u.doc \in Docs, DecideLink(u)
               PROVE  /\ u.base <= Len(reviews'[u.doc])
                      /\ u.base = Len(reviews'[u.doc]) => docs'[u.doc].status = u.from
    <3>1. \A q \in Procs : tx[q].op = "decide" =>
            tx[q] \in Transactions /\ tx[q].doc \in Docs /\ DecideLink(tx[q])
      BY DEF TypeOK, StatusInv
    <3> QED
      BY <1>7, <3>1 DEF DecideLink
  <2>1. u.base \in Nat
    BY Kinds DEF Deciding
  <2>2. CASE u.doc = d
    BY <1>3, <1>4, <2>1, <2>2 DEF DecideLink
  <2>3. CASE u.doc # d
    BY <1>1, <2>3 DEF DecideLink
  <2> QED
    BY <2>2, <2>3
<1> QED
  BY <1>6, <1>8 DEF StatusInv

LEMMA NextKeepsStatus == TypeOK /\ StatusInv /\ [Next]_vars => StatusInv'
<1> SUFFICES ASSUME TypeOK, StatusInv, [Next]_vars PROVE StatusInv'
  OBVIOUS
<1>0. TypeOK'
  BY NextKeepsTypes
<1>1. CASE UNCHANGED <<tables, history, tx, ops>>
  BY <1>0, <1>1, StatusStays DEF tables, history
<1>2. ASSUME NEW p \in Procs, Quiet(p) PROVE StatusInv'
  <2>1. PICK t \in Transactions : Put(p, t) /\ (Opens(t) \/ Creates(p, t) \/ GoesOn(p, t))
    BY <1>2 DEF Quiet
  <2>2. DecideLink(t)
    BY <2>1, OpensDecide DEF Creates, GoesOn, DecideLink
  <2>3. \A q \in Procs : tx'[q] = tx[q] \/ DecideLink(tx'[q])
    BY <2>1, <2>2, PutTx DEF Put, DecideLink
  <2> QED
    BY <1>0, <2>1, <2>3, StatusStays DEF Put, tables, history
<1>3. ASSUME NEW p \in Procs, CreateCommit(p) PROVE StatusInv'
  BY <1>3, CreateKeepsStatus
<1>4. ASSUME NEW p \in Procs, WriteCommit(p) PROVE StatusInv'
  <2>1. /\ Len(docs') = Len(docs) /\ End(p) /\ reviews' = reviews /\ crossed' = crossed /\ seed' = seed
        /\ \A d \in Docs : docs'[d].status = docs[d].status
    BY <1>4, WriteShape
  <2>2. \A q \in Procs : tx'[q] = tx[q] \/ DecideLink(tx'[q])
    BY <2>1, EndTx DEF DecideLink
  <2> QED
    BY <1>0, <2>1, <2>2, StatusStays
<1>5. ASSUME NEW p \in Procs, ViewCommit(p) PROVE StatusInv'
  <2>1. /\ Len(docs') = Len(docs) /\ End(p) /\ reviews' = reviews /\ crossed' = crossed /\ seed' = seed
        /\ \A d \in Docs : docs'[d].status = docs[d].status
    BY <1>5, ViewShape
  <2>2. \A q \in Procs : tx'[q] = tx[q] \/ DecideLink(tx'[q])
    BY <2>1, EndTx DEF DecideLink
  <2> QED
    BY <1>0, <2>1, <2>2, StatusStays
<1>6. ASSUME NEW p \in Procs, DecideCommit(p) PROVE StatusInv'
  BY <1>6, DecideKeepsStatus
<1>7. ASSUME NEW p \in Procs, AddCommit(p) PROVE StatusInv'
  <2>1. docs' = docs /\ reviews' = reviews /\ crossed' = crossed /\ seed' = seed /\ End(p)
    BY <1>7, AddShape DEF history
  <2>2. \A q \in Procs : tx'[q] = tx[q] \/ DecideLink(tx'[q])
    BY <2>1, EndTx DEF DecideLink
  <2> QED
    BY <1>0, <2>1, <2>2, StatusStays
<1>8. ASSUME NEW i \in items, RemoveDocument(i) PROVE StatusInv'
  BY <1>0, <1>8, RemoveShape, StatusStays
<1> QED
  BY <1>1, <1>2, <1>3, <1>4, <1>5, <1>6, <1>7, <1>8, Steps

-----------------------------------------------------------------------------
(* The order of a collection *)

LEMMA ItemTypes ==
  ASSUME TypeOK
  PROVE  /\ Cardinality(items) \in Nat
         /\ \A i \in items : i.position \in Nat
         /\ \A p \in Procs : Adding(p) => tx[p].position \in Nat
<1>1. Cardinality(items) \in Nat
  BY FS_CardinalityType DEF TypeOK
<1>2. \A i \in items : i.position \in Nat
  BY DEF TypeOK, Added
<1>3. \A p \in Procs : Adding(p) => tx[p].position \in Nat
  <2>1. \A p \in Procs : Adding(p) => tx[p] \in Additions
    BY Kinds DEF TypeOK, Adding
  <2> QED
    BY <2>1 DEF Additions
<1> QED
  BY <1>1, <1>2, <1>3

LEMMA OrderStays ==
  ASSUME OrderInv, items' = items, removed' = removed,
         \A q \in Procs : tx'[q] = tx[q] \/ tx'[q].op # "add"
  PROVE  OrderInv'
BY DEF OrderInv, InItems, Adding

LEMMA AddBeginKeepsOrder ==
  ASSUME TypeOK, OrderInv, NEW p \in Procs, NEW t \in Transactions, Put(p, t), Opens(t),
         t.op = "add"
  PROVE  OrderInv'
<1>1. PICK d \in Docs :
        /\ ~InItems(d)
        /\ t = [op |-> "add", doc |-> d, position |-> Position, saw |-> {i.doc : i \in items}]
  BY DEF Opens
<1>2. /\ t.doc = d /\ t.position = Cardinality(items)
      /\ \A e : e \in t.saw <=> InItems(e)
  BY <1>1 DEF Position, InItems
<1>3. items' = items /\ removed' = removed /\ tx'[p] = t /\ \A q \in Procs : q # p => tx'[q] = tx[q]
  BY PutTx DEF Put, tables, history
<1> SUFFICES ASSUME ~removed PROVE OrderInv'
  BY <1>3 DEF OrderInv
<1>4. /\ \A i, j \in items : i.doc \in j.saw => i.position < j.position
      /\ \A i \in items : i.position < Cardinality(items) /\ i.doc \notin i.saw
                            /\ \A e \in i.saw : InItems(e)
  BY DEF OrderInv
<1>5. \A q \in Procs : Adding(q) =>
        /\ tx[q].position <= Cardinality(items) /\ tx[q].doc \notin tx[q].saw
        /\ InItems(tx[q].doc) => tx[q].position < Cardinality(items)
        /\ \A e \in tx[q].saw : InItems(e)
        /\ \A i \in items : /\ i.doc \in tx[q].saw => i.position < tx[q].position
                            /\ tx[q].doc \in i.saw => tx[q].position < i.position
  BY DEF OrderInv
<1>6. \A q, r \in Procs : Adding(q) /\ Adding(r) =>
        (tx[q].doc \in tx[r].saw => tx[q].position < tx[r].position)
  BY DEF OrderInv
<1>7. Cardinality(items) \in Nat
  BY ItemTypes
<1>8. \A e : InItems(e)' <=> InItems(e)
  BY <1>3 DEF InItems
<1>9. \A q \in Procs : q # p => (Adding(q)' <=> Adding(q))
  BY <1>3 DEF Adding
<1>10. \A i \in items : InItems(i.doc)
  BY DEF InItems
<1>11. \A q \in Procs : Adding(q)' =>
        /\ tx'[q].position <= Cardinality(items) /\ tx'[q].doc \notin tx'[q].saw
        /\ InItems(tx'[q].doc) => tx'[q].position < Cardinality(items)
        /\ \A e \in tx'[q].saw : InItems(e)
        /\ \A i \in items : /\ i.doc \in tx'[q].saw => i.position < tx'[q].position
                            /\ tx'[q].doc \in i.saw => tx'[q].position < i.position
  <2>1. ASSUME NEW q \in Procs, q # p, Adding(q)'
        PROVE  Adding(q) /\ tx'[q] = tx[q]
    BY <1>3, <1>9, <2>1
  <2>2. /\ t.position <= Cardinality(items) /\ t.doc \notin t.saw
        /\ InItems(t.doc) => t.position < Cardinality(items)
        /\ \A e \in t.saw : InItems(e)
        /\ \A i \in items : /\ i.doc \in t.saw => i.position < t.position
                            /\ t.doc \in i.saw => t.position < i.position
    BY <1>1, <1>2, <1>4, <1>7
  <2> QED
    BY <1>3, <1>5, <2>1, <2>2
<1>12. \A q, r \in Procs : Adding(q)' /\ Adding(r)' =>
        (tx'[q].doc \in tx'[r].saw => tx'[q].position < tx'[r].position)
  <2> SUFFICES ASSUME NEW q \in Procs, NEW r \in Procs, Adding(q)', Adding(r)',
                      tx'[q].doc \in tx'[r].saw
               PROVE  tx'[q].position < tx'[r].position
    OBVIOUS
  <2>1. CASE q = p
    <3>1. ~InItems(tx'[q].doc)
      BY <1>1, <1>2, <1>3, <2>1
    <3> QED
      BY <1>11, <3>1
  <2>2. CASE q # p /\ r = p
    <3>1. InItems(tx[q].doc) /\ Adding(q)
      BY <1>2, <1>3, <1>9, <2>2
    <3> QED
      BY <1>2, <1>3, <1>5, <2>2, <3>1
  <2>3. CASE q # p /\ r # p
    BY <1>3, <1>6, <1>9, <2>3
  <2> QED
    BY <2>1, <2>2, <2>3
<1> QED
  BY <1>3, <1>4, <1>8, <1>11, <1>12 DEF OrderInv

LEMMA AddCommitKeepsOrder ==
  ASSUME TypeOK, OrderInv, NEW p \in Procs, AddCommit(p)
  PROVE  OrderInv'
<1> PICK t : t = tx[p]
  OBVIOUS
<1> PICK x : x = [by |-> p, doc |-> t.doc, position |-> t.position, saw |-> t.saw]
  OBVIOUS
<1> PICK c : c = Cardinality(items)
  OBVIOUS
<1>1. /\ items' = items \union {x} /\ removed' = removed /\ TypeOK'
      /\ x.doc = t.doc /\ x.position = t.position /\ x.saw = t.saw
  BY AddShape DEF history
<1>2. \A q \in Procs : IF q = p THEN ~Adding(q)' ELSE tx'[q] = tx[q] /\ (Adding(q)' <=> Adding(q))
  BY AddShape, EndTx DEF Adding
<1>3. Adding(p) /\ c \in Nat /\ t.position \in Nat
  BY AddShape, ItemTypes DEF Adding
<1> SUFFICES ASSUME ~removed PROVE OrderInv'
  BY <1>1 DEF OrderInv
<1>4. /\ \A i, j \in items : i.doc \in j.saw => i.position < j.position
      /\ \A i \in items : i.position < c /\ i.doc \notin i.saw /\ \A e \in i.saw : InItems(e)
  BY DEF OrderInv
<1>5. \A q \in Procs : Adding(q) =>
        /\ tx[q].position <= c /\ tx[q].doc \notin tx[q].saw
        /\ InItems(tx[q].doc) => tx[q].position < c
        /\ \A e \in tx[q].saw : InItems(e)
        /\ \A i \in items : /\ i.doc \in tx[q].saw => i.position < tx[q].position
                            /\ tx[q].doc \in i.saw => tx[q].position < i.position
  BY DEF OrderInv
<1>6. \A q, r \in Procs : Adding(q) /\ Adding(r) =>
        (tx[q].doc \in tx[r].saw => tx[q].position < tx[r].position)
  BY DEF OrderInv
<1>7. CASE x \in items
  <2>1. items' = items
    BY <1>1, <1>7
  <2>2. \A q \in Procs : tx'[q] = tx[q] \/ tx'[q].op # "add"
    BY <1>2 DEF Adding
  <2> QED
    BY <1>1, <2>1, <2>2, OrderStays
<1>8. CASE x \notin items
  <2> PICK k : k = Cardinality(items)'
    OBVIOUS
  <2>1. k = c + 1
    BY <1>1, <1>8, FS_AddElement DEF TypeOK
  <2>2. \A e : InItems(e) => InItems(e)'
    BY <1>1 DEF InItems
  <2>3. \A e : InItems(e)' => InItems(e) \/ e = x.doc
    BY <1>1 DEF InItems
  <2>4. \A i, j \in items' : i.doc \in j.saw => i.position < j.position
    <3>1. \A j \in items : x.doc \in j.saw => x.position < j.position
      BY <1>1, <1>3, <1>5
    <3>2. \A i \in items : i.doc \in x.saw => i.position < x.position
      BY <1>1, <1>3, <1>5
    <3>3. x.doc \notin x.saw
      BY <1>1, <1>3, <1>5
    <3> QED
      BY <1>1, <1>4, <3>1, <3>2, <3>3
  <2>5. \A i \in items' : i.position < k /\ i.doc \notin i.saw /\ \A e \in i.saw : InItems(e)'
    <3>1. x.position < k /\ x.doc \notin x.saw /\ \A e \in x.saw : InItems(e)'
      BY <1>1, <1>3, <1>5, <2>1, <2>2
    <3>2. \A i \in items : i.position < k
      BY <1>3, <1>4, <2>1, ItemTypes
    <3> QED
      BY <1>1, <1>4, <2>2, <3>1, <3>2
  <2>6. \A q \in Procs : Adding(q)' =>
          /\ tx'[q].position <= k /\ tx'[q].doc \notin tx'[q].saw
          /\ InItems(tx[q].doc)' => tx'[q].position < k
          /\ \A e \in tx'[q].saw : InItems(e)'
          /\ \A i \in items' : /\ i.doc \in tx'[q].saw => i.position < tx'[q].position
                               /\ tx'[q].doc \in i.saw => tx'[q].position < i.position
    <3> SUFFICES ASSUME NEW q \in Procs, Adding(q), q # p
                 PROVE  /\ tx[q].position < k /\ tx[q].doc \notin tx[q].saw
                        /\ \A e \in tx[q].saw : InItems(e)'
                        /\ \A i \in items' : /\ i.doc \in tx[q].saw => i.position < tx[q].position
                                             /\ tx[q].doc \in i.saw => tx[q].position < i.position
      <4>1. \A q \in Procs : Adding(q)' => q # p /\ Adding(q) /\ tx'[q] = tx[q]
        BY <1>2
      <4>2. \A q \in Procs : Adding(q) => (tx[q].position < k => tx[q].position <= k)
        BY <1>3, <2>1, ItemTypes
      <4> QED
        BY <4>1, <4>2
    <3>1. tx[q].position < k
      BY <1>3, <1>5, <2>1, ItemTypes
    <3>2. /\ tx[q].doc \notin tx[q].saw /\ \A e \in tx[q].saw : InItems(e)'
          /\ \A i \in items : /\ i.doc \in tx[q].saw => i.position < tx[q].position
                              /\ tx[q].doc \in i.saw => tx[q].position < i.position
      BY <1>5, <2>2
    <3>3. /\ x.doc \in tx[q].saw => x.position < tx[q].position
          /\ tx[q].doc \in x.saw => tx[q].position < x.position
      BY <1>1, <1>3, <1>6
    <3> QED
      BY <1>1, <3>1, <3>2, <3>3
  <2>7. \A q, r \in Procs : Adding(q)' /\ Adding(r)' =>
          (tx'[q].doc \in tx'[r].saw => tx'[q].position < tx'[r].position)
    <3>1. \A q \in Procs : Adding(q)' => Adding(q) /\ tx'[q] = tx[q]
      BY <1>2
    <3> QED
      BY <1>6, <3>1
  <2> QED
    BY <2>4, <2>5, <2>6, <2>7 DEF OrderInv
<1> QED
  BY <1>7, <1>8

LEMMA NextKeepsOrder == TypeOK /\ OrderInv /\ [Next]_vars => OrderInv'
<1> SUFFICES ASSUME TypeOK, OrderInv, [Next]_vars PROVE OrderInv'
  OBVIOUS
<1>1. CASE UNCHANGED <<tables, history, tx, ops>>
  BY <1>1, OrderStays DEF tables, history
<1>2. ASSUME NEW p \in Procs, Quiet(p) PROVE OrderInv'
  <2>1. PICK t \in Transactions : Put(p, t) /\ (Opens(t) \/ Creates(p, t) \/ GoesOn(p, t))
    BY <1>2 DEF Quiet
  <2>2. CASE t.op = "add"
    BY <2>1, <2>2, AddBeginKeepsOrder DEF Creates, GoesOn
  <2>3. CASE t.op # "add"
    <3>1. \A q \in Procs : tx'[q] = tx[q] \/ tx'[q].op # "add"
      BY <2>1, <2>3, PutTx DEF Put
    <3> QED
      BY <2>1, <3>1, OrderStays DEF Put, tables, history
  <2> QED
    BY <2>2, <2>3
<1>3. ASSUME NEW p \in Procs, End(p), items' = items, removed' = removed PROVE OrderInv'
  <2>1. \A q \in Procs : tx'[q] = tx[q] \/ tx'[q].op # "add"
    BY <1>3, EndTx
  <2> QED
    BY <1>3, <2>1, OrderStays
<1>4. ASSUME NEW p \in Procs,
             CreateCommit(p) \/ WriteCommit(p) \/ ViewCommit(p) \/ DecideCommit(p)
      PROVE  OrderInv'
  BY <1>3, <1>4, CreateShape, WriteShape, ViewShape, DecideShape DEF history
<1>5. ASSUME NEW p \in Procs, AddCommit(p) PROVE OrderInv'
  BY <1>5, AddCommitKeepsOrder
<1>6. ASSUME NEW i \in items, RemoveDocument(i) PROVE OrderInv'
  BY <1>6, RemoveShape DEF OrderInv
<1> QED
  BY <1>1, <1>2, <1>4, <1>5, <1>6, Steps

-----------------------------------------------------------------------------
(* The initial state, and the theorems *)

LEMMA InitLinks == Init => CodesInv /\ HistoryInv /\ ViewsInv /\ StatusInv /\ OrderInv
<1> SUFFICES ASSUME Init PROVE CodesInv /\ HistoryInv /\ ViewsInv /\ StatusInv /\ OrderInv
  OBVIOUS
<1> DEFINE text == seed.text
<1>1. /\ docs = <<[code |-> 1, title |-> text, content |-> text, version |-> 1,
                   status |-> seed.status, views |-> seed.views]>>
      /\ rows = <<<<[version |-> 1, title |-> text, content |-> text]>>>>
      /\ First(1) = seed /\ seed.views \in Nat
  BY SeedsAssumption DEF Init, First
<1> HIDE DEF text
<1>2. /\ docs[1].code = 1 /\ docs[1].title = text /\ docs[1].content = text
      /\ docs[1].version = 1 /\ docs[1].status = seed.status /\ docs[1].views = seed.views
      /\ Len(docs) = 1 /\ Docs = 1..1
  BY <1>1 DEF Docs
<1>3. /\ Len(rows[1]) = 1 /\ rows[1][1] = [version |-> 1, title |-> text, content |-> text]
      /\ views[1] = 0 /\ reviews[1] = <<>> /\ items = {}
  BY <1>1 DEF Init
<1>4. \A p \in Procs : tx[p].op = "idle"
  BY DEF Init, Idle
<1>5. \A d \in Docs : d = 1
  BY <1>2
<1>6. 1 \in Docs /\ \A i \in 1..1 : i = 1
  BY <1>2
<1>7. CodesInv
  <2>1. Codes = {1}
    BY <1>2, <1>5, <1>6 DEF Codes
  <2> QED
    BY <1>2, <1>4, <1>5, <2>1 DEF CodesInv, CodesAreCounted, CodeLink, Held
<1>8. HistoryInv
  <2>1. Numbers(1) = 1..1
    BY <1>3, <1>6 DEF Numbers
  <2>2. \E n \in Nat : Numbers(1) = 1..n /\ docs[1].version \in 1..n
    <3>1. 1 \in Nat /\ docs[1].version \in 1..1
      BY <1>2
    <3> QED
      BY ONLY <2>1, <3>1, Zenon
  <2>3. \A d \in Docs : Unbroken(d)
    BY <1>5, <2>2 DEF Unbroken
  <2>4. rows[1][1] = Snapshot(docs[1]) /\ 1 \in DOMAIN rows[1]
    BY <1>1, <1>2, <1>3 DEF Snapshot
  <2>5. CurrentIsKept
    BY <1>5, <2>4 DEF CurrentIsKept
  <2> QED
    BY <1>4, <2>3, <2>5 DEF HistoryInv, WriteLink
<1>9. ViewsInv
  BY <1>1, <1>2, <1>3, <1>4, <1>5 DEF ViewsInv, ViewsAreLogged, ViewLink
<1>10. StatusInv
  BY <1>1, <1>2, <1>3, <1>4, <1>5 DEF StatusInv, StatusTellsReview, DecideLink
<1>11. OrderInv
  BY <1>3, <1>4 DEF OrderInv, Adding
<1> QED
  BY <1>7, <1>8, <1>9, <1>10, <1>11

LEMMA HistoryUnbroken == TypeOK /\ HistoryInv => HistoryIsKept
<1> SUFFICES ASSUME TypeOK, HistoryInv PROVE HistoryIsKept
  OBVIOUS
<1>1. ASSUME NEW d \in Docs
      PROVE  LET numbers == {rows[d][i].version : i \in DOMAIN rows[d]} IN
             numbers = 1..Cardinality(numbers) /\ docs[d].version \in numbers
  <2>1. PICK n \in Nat : Numbers(d) = 1..n /\ docs[d].version \in 1..n
    BY DEF HistoryInv, Unbroken
  <2>2. DOMAIN rows[d] = 1..Len(rows[d])
    BY RowTypes
  <2>3. Cardinality(1..n) = n
    BY <2>1, FS_Interval
  <2> QED
    BY <2>1, <2>2, <2>3 DEF Numbers
<1>2. VersionsUnbroken
  BY <1>1 DEF VersionsUnbroken
<1> QED
  BY <1>2 DEF HistoryIsKept, HistoryInv

\* Every variable keeps its type, and what a transaction, an item or a remark
\* refers to is a document there is: whatever overlaps, deadlocks or is rolled
\* back (KnowledgeService, CollectionService).
THEOREM TypeCorrect == Spec => []TypeOK
<1>1. Init => TypeOK
  BY InitTypes
<1>2. TypeOK /\ [Next]_vars => TypeOK'
  BY NextKeepsTypes
<1> QED
  BY <1>1, <1>2, PTL DEF Spec

\* Codes are given by counting the documents (_next_code): for any number of
\* requests and runs they are 1 to n, and the next one is free.
THEOREM CodesCount == Spec => []CodesAreCounted
<1>1. Init => CodesInv
  BY InitLinks
<1>2. TypeOK /\ CodesInv /\ [Next]_vars => CodesInv'
  BY NextKeepsCodes
<1>3. CodesInv => CodesAreCounted
  BY DEF CodesInv
<1> QED
  BY <1>1, <1>2, <1>3, TypeCorrect, PTL DEF Spec

\* The versions of a document have no gap, its own is one of them, and its text
\* is one of theirs unless its last writer had not read it (update, restore).
THEOREM HistoriesAreKept == Spec => []HistoryIsKept
<1>1. Init => HistoryInv
  BY InitLinks
<1>2. TypeOK /\ HistoryInv /\ [Next]_vars => HistoryInv'
  BY NextKeepsHistory
<1>3. TypeOK /\ HistoryInv => HistoryIsKept
  BY HistoryUnbroken
<1> QED
  BY <1>1, <1>2, <1>3, TypeCorrect, PTL DEF Spec

\* What is read, raised by one and written back is right unless requests
\* overlapped: views (view), beyond those of the seed, and positions in a
\* collection (add_document).
THEOREM CountsAreRight == Spec => []CountsAreKept
<1>1. Init => ViewsInv /\ OrderInv
  BY InitLinks
<1>2. TypeOK /\ ViewsInv /\ [Next]_vars => ViewsInv'
  BY NextKeepsViews
<1>3. TypeOK /\ OrderInv /\ [Next]_vars => OrderInv'
  BY NextKeepsOrder
<1>4. ViewsInv /\ OrderInv => CountsAreKept
  BY DEF ViewsInv, OrderInv, CountsAreKept, CollectionInOrder
<1> QED
  BY <1>1, <1>2, <1>3, <1>4, TypeCorrect, PTL DEF Spec

\* The status of a document is the outcome of its last decision, unless that
\* was given on a status another decision had changed (submit_for_review, review);
\* without any it is the one of the seed, or a draft.
THEOREM StatusIsTold == Spec => []StatusTellsReview
<1>1. Init => StatusInv
  BY InitLinks
<1>2. TypeOK /\ StatusInv /\ [Next]_vars => StatusInv'
  BY NextKeepsStatus
<1>3. StatusInv => StatusTellsReview
  BY DEF StatusInv
<1> QED
  BY <1>1, <1>2, <1>3, TypeCorrect, PTL DEF Spec
=============================================================================
