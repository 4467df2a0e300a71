----------------------- MODULE RepositoryIndexProofs -----------------------
(***************************************************************************)
(* Proofs about scans, for any number of scans, failures and changes of    *)
(* the tree: one that overlaps no other replaces what was indexed, and     *)
(* overlapping ones leave the files of one scan, unless something was      *)
(* empty or they overtook each other too often.                            *)
(***************************************************************************)
EXTENDS RepositoryIndex, TLAPS

LEMMA TablesComplete ==
  /\ Len(Tables) = 10
  /\ \A t \in TableNames : \E k \in 1..10 : Tables[k] = t
  /\ \A k \in 1..10 : Tables[k] \in TableNames
BY DEF Tables, TableNames

LEMMA FilledTables == "architecture" \in TableNames /\ \A kind : Filled(kind) \subseteq TableNames
<1>0. "architecture" \in TableNames
  BY DEF TableNames
<1> SUFFICES ASSUME NEW kind PROVE Filled(kind) \subseteq TableNames
  BY <1>0
<1>1. CASE kind = "empty"
  BY <1>1 DEF Filled, TableNames
<1>2. CASE kind = "prose"
  BY <1>2 DEF Filled, TableNames
<1>3. CASE kind # "empty" /\ kind # "prose"
  BY <1>3 DEF Filled, TableNames
<1> QED
  BY <1>1, <1>2, <1>3

\* What is needed to tell where a scan stands.
IndexType ==
  /\ pc \in [Scans -> InProgress \union {"new", "committed", "rolled back"}]
  /\ next \in [Scans -> Nat \ {0}]
  /\ gone \in [Scans -> SUBSET (TableNames \X (Scans \union {Seed}))]
  /\ rows \in [TableNames -> SUBSET (Scans \union {Seed})]
  /\ target \in [Scans -> SUBSET (Scans \union {Seed})]
  /\ fills \in [Scans -> SUBSET TableNames]
  /\ alone \in [Scans -> BOOLEAN]
  /\ replaces \in [Scans -> BOOLEAN]
  /\ overtaken \in [Scans -> Nat]

\* A scan starts with the first table, and while it clears there is one left.
InOrder(n) ==
  /\ pc[n] = "new" => next[n] = 1
  /\ pc[n] \in {"clearing", "waiting"} => next[n] \in 1..10

\* A scan that is alone meets no lock, and has emptied the tables before the next.
Emptied(n) ==
  alone[n] /\ n \in Open =>
    /\ Open = {n}
    /\ pc[n] # "waiting"
    /\ pc[n] = "clearing" => \A k \in 1..10 : k < next[n] => Visible(n, Tables[k]) = {}
    /\ pc[n] # "clearing" => \A t \in TableNames : Visible(n, t) = {}

IndexInv == IndexType /\ \A n \in Scans : InOrder(n) /\ Emptied(n)

LEMMA IndexInit == Init => IndexInv
<1> SUFFICES ASSUME Init PROVE IndexInv
  OBVIOUS
<1>1. IndexType
  BY DEF Init, IndexType, InProgress, Scans, Seed
<1>2. \A n \in Scans : InOrder(n) /\ Emptied(n)
  BY DEF Init, InOrder, Emptied, Open, InProgress
<1> QED
  BY <1>1, <1>2 DEF IndexInv

-----------------------------------------------------------------------------
(* What a DELETE removes *)

LEMMA RemovedType ==
  ASSUME IndexType, NEW n \in Scans, NEW t \in TableNames,
         NEW S \in SUBSET (Scans \union {Seed})
  PROVE  Removed(n, t, S) \subseteq TableNames \X (Scans \union {Seed})
<1>1. CascadesTo(t) \subseteq TableNames
  BY DEF CascadesTo, TableNames
<1> QED
  BY <1>1 DEF Removed

\* A DELETE that waits for nobody leaves nothing of its table to be seen, and a
\* table in which nothing was to be seen stays so.
LEMMA DeleteEmpties ==
  ASSUME IndexType, NEW n \in Scans, NEW t \in TableNames,
         rows' = rows, gone' = [gone EXCEPT ![n] = @ \union Removed(n, t, Visible(n, t))]
  PROVE  /\ Visible(n, t)' = {}
         /\ \A u \in TableNames : Visible(n, u) = {} => Visible(n, u)' = {}
<1>1. gone'[n] = gone[n] \union Removed(n, t, Visible(n, t))
  BY DEF IndexType
<1>2. \A u : Visible(n, u)' \subseteq Visible(n, u)
  BY <1>1 DEF Visible
<1>3. \A m \in Visible(n, t) : <<t, m>> \in Removed(n, t, Visible(n, t))
  BY DEF Removed
<1> QED
  BY <1>1, <1>2, <1>3 DEF Visible

-----------------------------------------------------------------------------
(* The invariant is preserved *)

\* What an action of another scan, or none, leaves alone.
LEMMA EmptiedKept ==
  ASSUME NEW n \in Scans, Emptied(n), rows' = rows, gone'[n] = gone[n], pc'[n] = pc[n],
         next'[n] = next[n], alone'[n] => alone[n], alone'[n] /\ n \in Open => Open' \subseteq Open
  PROVE  Emptied(n)'
<1>1. n \in Open' <=> n \in Open
  BY DEF Open
<1>2. \A t : Visible(n, t)' = Visible(n, t)
  BY DEF Visible
<1> QED
  BY <1>1, <1>2 DEF Emptied

LEMMA DeletedType ==
  ASSUME IndexType, NEW n \in Scans, InOrder(n), pc[n] \in {"clearing", "waiting"},
         NEW S \in SUBSET (Scans \union {Seed}), Deleted(n, S)
  PROVE  IndexType' /\ \A m \in Scans : InOrder(m) => InOrder(m)'
<1>1. next[n] \in 1..10 /\ Tables[next[n]] \in TableNames
  BY TablesComplete DEF InOrder
<1>2. Removed(n, Tables[next[n]], S) \subseteq TableNames \X (Scans \union {Seed})
  BY <1>1, RemovedType
<1>3. gone' \in [Scans -> SUBSET (TableNames \X (Scans \union {Seed}))]
  BY <1>2 DEF IndexType, Deleted
<1>4. /\ next' \in [Scans -> Nat \ {0}]
      /\ target' \in [Scans -> SUBSET (Scans \union {Seed})]
      /\ pc' \in [Scans -> InProgress \union {"new", "committed", "rolled back"}]
  <2>1. next' \in [Scans -> Nat \ {0}]
    <3>1. next[n] + 1 \in Nat \ {0} /\ next' = [next EXCEPT ![n] = next[n] + 1]
      BY <1>1 DEF Deleted
    <3> QED
      BY <3>1 DEF IndexType
  <2>2. target' \in [Scans -> SUBSET (Scans \union {Seed})]
    BY DEF IndexType, Deleted
  <2>3. pc' \in [Scans -> InProgress \union {"new", "committed", "rolled back"}]
    BY DEF IndexType, Deleted, InProgress
  <2> QED
    BY <2>1, <2>2, <2>3
<1>5. IndexType'
  BY <1>3, <1>4 DEF IndexType, Deleted, hist
<1>6. ASSUME NEW m \in Scans, InOrder(m) PROVE InOrder(m)'
  <2>1. CASE m = n
    <3>1. pc'[n] = IF next[n] = 10 THEN "cleared" ELSE "clearing"
      BY TablesComplete DEF IndexType, Deleted
    <3>2. next'[n] = next[n] + 1
      BY DEF IndexType, Deleted
    <3> QED
      BY <2>1, <1>1, <3>1, <3>2 DEF InOrder
  <2>2. CASE m # n
    BY <2>2, <1>6 DEF IndexType, Deleted, InOrder
  <2> QED
    BY <2>1, <2>2
<1> QED
  BY <1>5, <1>6

LEMMA RolledBackKeeps ==
  ASSUME IndexInv, NEW n \in Scans, RolledBack(n)
  PROVE  IndexInv'
<1>1. IndexType'
  BY DEF IndexInv, IndexType, RolledBack, hist
<1>2. ASSUME NEW m \in Scans PROVE InOrder(m)' /\ Emptied(m)'
  <2>1. CASE m = n
    BY <2>1 DEF IndexInv, IndexType, RolledBack, InOrder, Emptied, Open, InProgress
  <2>2. CASE m # n
    <3>1. InOrder(m)'
      BY <2>2 DEF IndexInv, IndexType, RolledBack, InOrder
    <3>2. Emptied(m)'
      <4>1. Open' \subseteq Open
        BY DEF IndexInv, IndexType, RolledBack, Open, InProgress
      <4>2. gone'[m] = gone[m] /\ pc'[m] = pc[m]
        BY <2>2 DEF IndexInv, IndexType, RolledBack
      <4> QED
        BY <4>1, <4>2, EmptiedKept DEF IndexInv, RolledBack, hist
    <3> QED
      BY <3>1, <3>2
  <2> QED
    BY <2>1, <2>2
<1> QED
  BY <1>1, <1>2 DEF IndexInv

LEMMA IndexNext == IndexInv /\ [Next]_vars => IndexInv'
<1> SUFFICES ASSUME IndexInv, [Next]_vars PROVE IndexInv'
  OBVIOUS
<1> USE DEF IndexInv
<1>1. ASSUME NEW n \in Scans, Begin(n) PROVE IndexInv'
  <2>1. IndexType'
    <3>1. alone' \in [Scans -> BOOLEAN] /\ replaces' \in [Scans -> BOOLEAN]
      BY <1>1 DEF Begin, IndexType
    <3> QED
      BY <1>1, <3>1 DEF Begin, IndexType, InProgress
  <2>2. ASSUME NEW m \in Scans PROVE InOrder(m)' /\ Emptied(m)'
    <3>0. pc[n] = "new" /\ pc' = [pc EXCEPT ![n] = "clearing"] /\ Open' = Open \union {n} /\ n \notin Open
      BY <1>1 DEF Begin, IndexType, Open, InProgress
    <3>1. InOrder(m)'
      <4>1. next' = next /\ (m # n => pc'[m] = pc[m]) /\ pc'[n] = "clearing"
        BY <1>1, <3>0 DEF Begin, IndexType
      <4> QED
        BY <3>0, <4>1 DEF InOrder
    <3>2. CASE m = n
      <4>1. alone'[n] => Open = {}
        BY <1>1 DEF Begin
      <4>2. next'[n] = 1 /\ pc'[n] = "clearing"
        BY <1>1, <3>0 DEF Begin, IndexType, InOrder
      <4> QED
        BY <3>0, <3>1, <3>2, <4>1, <4>2 DEF Emptied
    <3>3. CASE m # n
      <4>1. alone'[m] => alone[m] /\ m \notin Open
        BY <1>1, <3>3 DEF Begin
      <4>2. alone'[m] => m \notin Open'
        BY <3>0, <3>3, <4>1
      <4> QED
        BY <3>1, <4>2 DEF Emptied
    <3> QED
      BY <3>2, <3>3
  <2> QED
    BY <2>1, <2>2
<1>2. ASSUME NEW n \in Scans, Delete(n) PROVE IndexInv'
  <2>0. PICK t \in TableNames :
          /\ t = Tables[next[n]] /\ pc[n] = "clearing" /\ next[n] \in 1..10
          /\ Deleted(n, Visible(n, t))
    BY <1>2, TablesComplete DEF Delete, InOrder
  <2>1. Visible(n, t) \in SUBSET (Scans \union {Seed})
    BY <2>0 DEF IndexType, Visible
  <2>2. IndexType' /\ \A m \in Scans : InOrder(m)'
    BY <2>0, <2>1, DeletedType
  <2>3. ASSUME NEW m \in Scans PROVE Emptied(m)'
    <3>1. pc' = [pc EXCEPT ![n] = IF next[n] = 10 THEN "cleared" ELSE "clearing"]
      BY <2>0, TablesComplete DEF Deleted
    <3>2. Open' = Open
      BY <2>0, <3>1 DEF Open, InProgress, IndexType
    <3>3. CASE m = n
      <4>1. /\ Visible(n, t)' = {}
            /\ \A u \in TableNames : Visible(n, u) = {} => Visible(n, u)' = {}
        BY <2>0, DeleteEmpties DEF Deleted
      <4>2. SUFFICES ASSUME alone[n], n \in Open PROVE Emptied(n)'
        BY <3>2, <3>3, <2>0 DEF Emptied, Deleted, hist
      <4>3. \A k \in 1..10 : k < next[n] + 1 => Visible(n, Tables[k])' = {}
        <5>1. ASSUME NEW k \in 1..10, k < next[n] PROVE Visible(n, Tables[k])' = {}
          BY <5>1, <4>1, <4>2, <2>0, TablesComplete DEF Emptied
        <5> QED
          BY <5>1, <4>1, <2>0
      <4>4. next'[n] = next[n] + 1 /\ pc'[n] = IF next[n] = 10 THEN "cleared" ELSE "clearing"
        BY <2>0, <3>1 DEF Deleted, IndexType
      <4>5. CASE next[n] = 10
        <5>1. \A u \in TableNames : Visible(n, u)' = {}
          BY <4>3, <4>5, TablesComplete
        <5> QED
          BY <5>1, <3>2, <4>2, <4>4, <4>5 DEF Emptied
      <4>6. CASE next[n] # 10
        BY <3>2, <4>2, <4>3, <4>4, <4>6 DEF Emptied
      <4> QED
        BY <4>5, <4>6
    <3>4. CASE m # n
      BY <2>0, <3>1, <3>2, <3>4, EmptiedKept DEF Deleted, hist, IndexType
    <3> QED
      BY <3>3, <3>4
  <2> QED
    BY <2>2, <2>3
<1>3. ASSUME NEW n \in Scans, Wait(n) PROVE IndexInv'
  <2>0. pc[n] = "clearing" /\ n \in Open /\ next[n] \in 1..10 /\ Tables[next[n]] \in TableNames
    BY <1>3, TablesComplete DEF Wait, InOrder, Open, InProgress
  <2>1. IndexType'
    BY <1>3, <2>0 DEF Wait, IndexType, InProgress, Visible, hist
  <2>2. ~alone[n]
    BY <1>3, <2>0 DEF Wait, Emptied, Holders
  <2>3. Open' = Open
    BY <1>3, <2>0 DEF Wait, Open, InProgress, IndexType
  <2>4. ASSUME NEW m \in Scans PROVE InOrder(m)' /\ Emptied(m)'
    <3>1. InOrder(m)'
      BY <1>3, <2>0 DEF Wait, InOrder, IndexType
    <3>2. CASE m = n
      BY <1>3, <2>2, <3>1, <3>2 DEF Wait, Emptied, hist
    <3>3. CASE m # n
      BY <1>3, <2>3, <3>1, <3>3, EmptiedKept DEF Wait, hist, IndexType
    <3> QED
      BY <3>2, <3>3
  <2> QED
    BY <2>1, <2>4
<1>4. ASSUME NEW n \in Scans, Resume(n) PROVE IndexInv'
  <2>0. pc[n] = "waiting" /\ n \in Open /\ Deleted(n, target[n])
    BY <1>4 DEF Resume, Open, InProgress
  <2>1. IndexType' /\ \A m \in Scans : InOrder(m)'
    BY <2>0, DeletedType DEF IndexType
  <2>2. ~alone[n]
    BY <2>0 DEF Emptied
  <2>3. Open' = Open
    BY <2>0 DEF Deleted, Open, InProgress, IndexType
  <2>4. ASSUME NEW m \in Scans PROVE Emptied(m)'
    <3>1. CASE m = n
      BY <2>0, <2>2, <3>1 DEF Deleted, Emptied, hist
    <3>2. CASE m # n
      BY <2>0, <2>3, <3>2, EmptiedKept DEF Deleted, hist, IndexType
    <3> QED
      BY <3>1, <3>2
  <2> QED
    BY <2>1, <2>4
<1>5. ASSUME NEW n \in Scans, Insert(n) \/ CountLayers(n) PROVE IndexInv'
  <2>0. /\ pc[n] \in {"cleared", "filled"} /\ pc' = [pc EXCEPT ![n] = pc'[n]]
        /\ pc'[n] \in {"filled", "counted"}
    BY <1>5 DEF Insert, CountLayers, IndexType
  <2>1. IndexType'
    <3>1. fills' \in [Scans -> SUBSET TableNames]
      <4>1. fills' = fills \/ \E S \in SUBSET TableNames : fills' = [fills EXCEPT ![n] = S]
        <5>1. CASE Insert(n)
          BY <5>1, FilledTables DEF Insert
        <5>2. CASE CountLayers(n)
          <6>1. fills[n] \union {"architecture"} \in SUBSET TableNames
            BY FilledTables DEF IndexType
          <6> QED
            BY <5>2, <6>1 DEF CountLayers
        <5> QED
          BY <1>5, <5>1, <5>2
      <4> QED
        BY <4>1 DEF IndexType
    <3> QED
      BY <1>5, <2>0, <3>1 DEF Insert, CountLayers, IndexType, InProgress, hist
  <2>2. Open' = Open
    BY <2>0 DEF Open, InProgress, IndexType
  <2>3. ASSUME NEW m \in Scans PROVE InOrder(m)' /\ Emptied(m)'
    <3>1. InOrder(m)'
      BY <1>5, <2>0 DEF Insert, CountLayers, InOrder, IndexType
    <3>2. CASE m = n
      <4>1. \A t : Visible(n, t)' = Visible(n, t)
        BY <1>5 DEF Insert, CountLayers, Visible
      <4> QED
        BY <1>5, <2>0, <2>2, <3>1, <3>2, <4>1 DEF Insert, CountLayers, Emptied, hist
    <3>3. CASE m # n
      <4>1. pc'[m] = pc[m]
        BY <2>0, <3>3 DEF IndexType
      <4> QED
        BY <1>5, <2>2, <3>1, <4>1, EmptiedKept DEF Insert, CountLayers, hist
    <3> QED
      BY <3>2, <3>3
  <2> QED
    BY <2>1, <2>3
<1>6. ASSUME NEW n \in Scans, Commit(n) PROVE IndexInv'
  <2>0. pc[n] = "counted" /\ n \in Open /\ pc' = [pc EXCEPT ![n] = "committed"]
    BY <1>6 DEF Commit, Open, InProgress
  <2>1. IndexType'
    <3>1. rows' \in [TableNames -> SUBSET (Scans \union {Seed})]
      BY <1>6 DEF Commit, IndexType, Visible
    <3>2. overtaken' \in [Scans -> Nat]
      <4>1. \A m \in Scans : overtaken[m] \in Nat /\ overtaken[m] + 1 \in Nat
        <5>1. \A m \in Scans : overtaken[m] \in Nat
          BY DEF IndexType
        <5>2. \A x \in Nat : x + 1 \in Nat
          OBVIOUS
        <5> QED
          BY <5>1, <5>2
      <4>2. overtaken' = [m \in Scans |-> IF m \in Open \ {n} THEN overtaken[m] + 1 ELSE overtaken[m]]
        BY <1>6 DEF Commit
      <4> QED
        BY <4>1, <4>2
    <3> QED
      BY <1>6, <3>1, <3>2 DEF Commit, IndexType, InProgress, hist
  <2>2. ASSUME NEW m \in Scans PROVE InOrder(m)' /\ Emptied(m)'
    <3>1. InOrder(m)'
      BY <1>6, <2>0 DEF Commit, InOrder, IndexType
    <3>2. CASE m = n
      BY <2>0, <3>1, <3>2 DEF Emptied, Open, InProgress, IndexType
    <3>3. CASE m # n
      <4>1. alone[m] => m \notin Open
        BY <2>0, <3>3 DEF Emptied
      <4>2. alone'[m] => m \notin Open'
        BY <1>6, <2>0, <3>3, <4>1 DEF Commit, Open, IndexType, hist
      <4> QED
        BY <3>1, <4>2 DEF Emptied
    <3> QED
      BY <3>2, <3>3
  <2> QED
    BY <2>1, <2>2
<1>7. ASSUME NEW n \in Scans, Deadlock(n) \/ Fail(n) PROVE IndexInv'
  BY <1>7, RolledBackKeeps DEF Deadlock, Fail
<1>8. CASE Change \/ UNCHANGED vars
  <2>1. UNCHANGED <<rows, scan, hist>>
    BY <1>8 DEF Change, vars
  <2> QED
    BY <2>1 DEF IndexType, InOrder, Emptied, Open, Visible, scan, hist
<1> QED
  BY <1>1, <1>2, <1>3, <1>4, <1>5, <1>6, <1>7, <1>8 DEF Next, Step

-----------------------------------------------------------------------------
(* The theorem *)

\* Only Commit(n) makes a scan committed.
LEMMA CommitsByCommit ==
  ASSUME IndexInv, [Next]_vars, NEW n \in Scans, Commits(n)
  PROVE  Commit(n)
<1>1. pc[n] = "counted" /\ pc'[n] = "committed"
  BY DEF Commits
<1>2. \A m \in Scans : Begin(m) \/ Delete(m) \/ Wait(m) \/ Resume(m) \/ Insert(m)
        \/ CountLayers(m) \/ Deadlock(m) \/ Fail(m) => pc'[n] # "committed"
  BY <1>1 DEF Begin, Delete, Wait, Resume, Deleted, Insert, CountLayers, Deadlock, Fail,
              RolledBack, IndexInv, IndexType
<1>3. ~Change /\ ~UNCHANGED vars
  BY <1>1 DEF Change, vars, scan
<1>4. \A m \in Scans : Commit(m) => m = n
  BY <1>1 DEF Commit, IndexInv, IndexType
<1> QED
  BY <1>1, <1>2, <1>3, <1>4 DEF Next, Step

LEMMA CommitReplaces ==
  ASSUME IndexInv, [Next]_vars, NEW n \in Scans, Commits(n), alone[n]
  PROVE  \A t \in TableNames : rows'[t] \subseteq {n}
<1>1. n \in Open /\ pc[n] = "counted" /\ pc'[n] = "committed"
  BY DEF Commits, Open, InProgress
<1>2. Commit(n)
  BY CommitsByCommit
<1>3. \A t \in TableNames : Visible(n, t) = {}
  BY <1>1 DEF IndexInv, Emptied
<1> QED
  BY <1>2, <1>3 DEF Commit

\* A scan that overlaps no other leaves its rows and no others in every table
\* (IndexerService.scan, "Re-scanning is idempotent").
THEOREM RescansReplace == Spec => RescanReplaces
<1>1. Init => IndexInv
  BY IndexInit
<1>2. IndexInv /\ [Next]_vars => IndexInv'
  BY IndexNext
<1>3. IndexInv /\ [Next]_vars =>
        [\A n \in Scans : Commits(n) /\ alone[n] => \A t \in TableNames : rows'[t] \subseteq {n}]_vars
  BY CommitReplaces
<1> QED
  BY <1>1, <1>2, <1>3, PTL DEF Spec, RescanReplaces

-----------------------------------------------------------------------------
(* Overlapping scans *)

\* Everything in the tables and in the locks was committed; a row is locked once,
\* and by a scan in progress.
LockInv ==
  /\ \A t \in TableNames : \A m \in rows[t] : m = Seed \/ pc[m] = "committed"
  /\ \A n \in Scans : \A r \in gone[n] : r[2] = Seed \/ pc[r[2]] = "committed"
  /\ \A n \in Scans : n \notin Open => gone[n] = {}
  /\ \A m, n \in Scans : m # n => gone[m] \intersect gone[n] = {}

\* A scan that is done clearing has been through every table; files come with
\* their names and with layers.
CourseInv ==
  \A n \in Scans :
    /\ pc[n] \in {"cleared", "filled", "counted"} => next[n] = 11
    /\ "file" \in fills[n] => {"search", "architecture"} \subseteq fills[n]

\* What the property assumes, as far as it stays true backwards in time.
Favourable ==
  \A m \in Scans :
    /\ pc[m] # "new" => replaces[m]
    /\ pc[m] = "committed" => "file" \in fills[m] /\ overtaken[m] <= 1

\* Scan n has the files of l, with their names and symbols.
Holds(n, l) ==
  /\ {<<"search", l>>, <<"file", l>>} \subseteq gone[n]
  /\ l \in rows["symbol"] => <<"symbol", l>> \in gone[n]

\* Scan l is the last one that committed.
IsLast(l) ==
  /\ rows["search"] = {l} /\ rows["file"] = {l}
  /\ rows["symbol"] \subseteq {l} /\ l \in rows["architecture"]

\* Where scan n has or awaits the rows of l, and how often it was overtaken if not.
Catches(n, l) ==
  /\ next[n] > 1 => <<"search", l>> \in gone[n] \/ overtaken[n] >= 1
  /\ next[n] > 5 => <<"architecture", l>> \in gone[n] \/ overtaken[n] >= 2
  /\ next[n] > 8 => Holds(n, l) \/ overtaken[n] >= 3
  /\ <<"file", l>> \in gone[n] => Holds(n, l)

Awaits(n, l) ==
  pc[n] = "waiting" =>
    /\ next[n] = 1 => l \in target[n] \/ <<"search", l>> \in gone[n] \/ overtaken[n] >= 1
    /\ next[n] = 5 => l \in target[n] \/ <<"architecture", l>> \in gone[n] \/ overtaken[n] >= 2
    /\ next[n] = 8 => l \in target[n] \/ <<"file", l>> \in gone[n] \/ overtaken[n] >= 3

LastInv ==
  \/ rows["search"] = {} /\ \A m \in Scans : pc[m] = "new"
  \/ \E l \in Scans \union {Seed} :
       IsLast(l) /\ \A n \in Open : Catches(n, l) /\ Awaits(n, l)

OverlapInv == LockInv /\ CourseInv /\ (Favourable => LastInv)

LEMMA OverlapInit == Init => OverlapInv
<1> SUFFICES ASSUME Init PROVE OverlapInv
  OBVIOUS
<1>1. LockInv
  BY DEF Init, LockInv, Scans
<1>2. CourseInv
  BY DEF Init, CourseInv
<1>3. LastInv
  <2>1. PICK S \in {{}, {Seed}} : rows = [t \in TableNames |-> S]
    BY DEF Init
  <2>2. \A m \in Scans : pc[m] = "new"
    BY DEF Init
  <2>3. Open = {}
    BY <2>2 DEF Open, InProgress
  <2>4. /\ rows["search"] = S /\ rows["file"] = S
        /\ rows["symbol"] = S /\ rows["architecture"] = S
    BY <2>1 DEF TableNames
  <2>5. CASE S = {}
    BY <2>2, <2>4, <2>5 DEF LastInv
  <2>6. CASE S = {Seed}
    BY <2>3, <2>4, <2>6 DEF LastInv, IsLast
  <2> QED
    BY <2>5, <2>6
<1> QED
  BY <1>1, <1>2, <1>3 DEF OverlapInv

\* A DELETE that meets no lock, with the rows it found.
Deletes(n, S) ==
  /\ pc[n] \in {"clearing", "waiting"} /\ next[n] \in 1..10 /\ Tables[next[n]] \in TableNames
  /\ S \in SUBSET (Scans \union {Seed})
  /\ Holders(n, Removed(n, Tables[next[n]], S)) = {}
  /\ Deleted(n, S)

LEMMA DeleteDeletes ==
  ASSUME IndexInv, NEW n \in Scans, Delete(n)
  PROVE  Deletes(n, Visible(n, Tables[next[n]])) /\ pc[n] = "clearing"
<1>1. pc[n] = "clearing" /\ next[n] \in 1..10 /\ Tables[next[n]] \in TableNames
  BY TablesComplete DEF Delete, IndexInv, InOrder
<1>2. Visible(n, Tables[next[n]]) \in SUBSET (Scans \union {Seed})
  BY <1>1 DEF IndexInv, IndexType, Visible
<1> QED
  BY <1>1, <1>2 DEF Delete, Deletes

LEMMA ResumeDeletes ==
  ASSUME IndexInv, NEW n \in Scans, Resume(n)
  PROVE  Deletes(n, target[n]) /\ pc[n] = "waiting"
<1>1. pc[n] = "waiting" /\ next[n] \in 1..10 /\ Tables[next[n]] \in TableNames
  BY TablesComplete DEF Resume, IndexInv, InOrder
<1>2. target[n] \in SUBSET (Scans \union {Seed})
  BY DEF IndexInv, IndexType
<1> QED
  BY <1>1, <1>2 DEF Resume, Deletes, WaitsFor

\* What such a step changes of the scan, and that it leaves alone the rest.
LEMMA DeletesFrame ==
  ASSUME IndexInv, NEW n \in Scans, NEW S, Deletes(n, S)
  PROVE  /\ rows' = rows /\ fills' = fills /\ replaces' = replaces /\ overtaken' = overtaken
         /\ gone'[n] = gone[n] \union Removed(n, Tables[next[n]], S)
         /\ next'[n] = next[n] + 1
         /\ pc[n] \in {"clearing", "waiting"}
         /\ pc'[n] = IF next[n] = 10 THEN "cleared" ELSE "clearing"
         /\ \A m \in Scans \ {n} : /\ gone'[m] = gone[m] /\ next'[m] = next[m]
                                   /\ pc'[m] = pc[m] /\ target'[m] = target[m]
         /\ Open' = Open
<1>1. /\ rows' = rows /\ fills' = fills /\ replaces' = replaces /\ overtaken' = overtaken
  BY DEF Deletes, Deleted, hist
<1>2. pc' = [pc EXCEPT ![n] = IF next[n] = 10 THEN "cleared" ELSE "clearing"]
  BY TablesComplete DEF Deletes, Deleted
<1>3. /\ gone' = [gone EXCEPT ![n] = gone[n] \union Removed(n, Tables[next[n]], S)]
      /\ next' = [next EXCEPT ![n] = next[n] + 1]
      /\ target' = [target EXCEPT ![n] = {}]
      /\ pc[n] \in {"clearing", "waiting"}
  BY DEF Deletes, Deleted
<1>4. /\ gone'[n] = gone[n] \union Removed(n, Tables[next[n]], S)
      /\ next'[n] = next[n] + 1
      /\ pc'[n] = IF next[n] = 10 THEN "cleared" ELSE "clearing"
      /\ \A m \in Scans \ {n} : /\ gone'[m] = gone[m] /\ next'[m] = next[m]
                                /\ pc'[m] = pc[m] /\ target'[m] = target[m]
  BY <1>2, <1>3 DEF IndexInv, IndexType
<1>5. Open' = Open
  BY <1>3, <1>4 DEF Open, InProgress
<1> QED
  BY <1>1, <1>3, <1>4, <1>5

LEMMA CommitFrame ==
  ASSUME IndexInv, NEW n \in Scans, Commit(n)
  PROVE  /\ pc[n] = "counted" /\ pc'[n] = "committed" /\ gone'[n] = {}
         /\ rows' = [t \in TableNames |-> Visible(n, t) \union {m \in {n} : t \in fills[n]}]
         /\ next' = next /\ target' = target /\ fills' = fills /\ replaces' = replaces
         /\ \A m \in Scans \ {n} : gone'[m] = gone[m] /\ pc'[m] = pc[m]
         /\ n \in Open /\ Open' = Open \ {n}
         /\ overtaken'[n] = overtaken[n]
         /\ \A m \in Open' : overtaken'[m] = overtaken[m] + 1
         /\ \A m \in Scans \ Open : overtaken'[m] = overtaken[m]
<1>1. /\ pc[n] = "counted" /\ pc' = [pc EXCEPT ![n] = "committed"]
      /\ gone' = [gone EXCEPT ![n] = {}]
      /\ rows' = [t \in TableNames |-> Visible(n, t) \union {m \in {n} : t \in fills[n]}]
      /\ next' = next /\ target' = target /\ fills' = fills /\ replaces' = replaces
      /\ overtaken' = [m \in Scans |-> IF m \in Open \ {n} THEN overtaken[m] + 1 ELSE overtaken[m]]
  BY DEF Commit
<1>2. /\ pc'[n] = "committed" /\ gone'[n] = {}
      /\ \A m \in Scans \ {n} : gone'[m] = gone[m] /\ pc'[m] = pc[m]
  BY <1>1 DEF IndexInv, IndexType
<1>3. n \in Open /\ Open' = Open \ {n}
  BY <1>1, <1>2 DEF Open, InProgress
<1>4. /\ overtaken'[n] = overtaken[n]
      /\ \A m \in Open' : overtaken'[m] = overtaken[m] + 1
      /\ \A m \in Scans \ Open : overtaken'[m] = overtaken[m]
  BY <1>1, <1>3 DEF Open
<1> QED
  BY <1>1, <1>2, <1>3, <1>4

LEMMA RolledBackFrame ==
  ASSUME IndexInv, NEW n \in Scans, RolledBack(n)
  PROVE  /\ pc'[n] = "rolled back" /\ gone'[n] = {} /\ Open' = Open \ {n}
         /\ rows' = rows /\ next' = next /\ fills' = fills /\ replaces' = replaces
         /\ overtaken' = overtaken
         /\ \A m \in Scans \ {n} : gone'[m] = gone[m] /\ pc'[m] = pc[m] /\ target'[m] = target[m]
<1>1. /\ pc'[n] = "rolled back" /\ gone'[n] = {}
      /\ \A m \in Scans \ {n} : gone'[m] = gone[m] /\ pc'[m] = pc[m] /\ target'[m] = target[m]
  BY DEF RolledBack, IndexInv, IndexType
<1>2. /\ rows' = rows /\ next' = next /\ fills' = fills /\ replaces' = replaces
      /\ overtaken' = overtaken
  BY DEF RolledBack, hist
<1> QED
  BY <1>1, <1>2 DEF Open, InProgress

\* The steps that touch neither rows nor locks.
Quiet ==
  \/ \E n \in Scans : Begin(n) \/ Wait(n) \/ Insert(n) \/ CountLayers(n)
  \/ Change \/ UNCHANGED vars

LEMMA QuietFrame ==
  ASSUME IndexInv, Quiet
  PROVE  /\ rows' = rows /\ gone' = gone /\ next' = next /\ overtaken' = overtaken
         /\ \A m \in Scans : pc'[m] # pc[m] => m \in Open' /\ pc[m] \in {"new"} \union InProgress
         /\ Open \subseteq Open'
<1>1. ASSUME NEW n \in Scans, Begin(n) \/ Wait(n) \/ Insert(n) \/ CountLayers(n)
      PROVE  /\ rows' = rows /\ gone' = gone /\ next' = next /\ overtaken' = overtaken
             /\ pc[n] \in {"new", "clearing", "cleared", "filled"}
             /\ pc'[n] \in {"clearing", "waiting", "filled", "counted"}
             /\ \A m \in Scans : m # n => pc'[m] = pc[m]
  BY <1>1 DEF Begin, Wait, Insert, CountLayers, IndexInv, IndexType, hist
<1>2. CASE Change \/ UNCHANGED vars
  <2>1. /\ rows' = rows /\ gone' = gone /\ next' = next /\ overtaken' = overtaken /\ pc' = pc
    BY <1>2 DEF Change, vars, scan, hist
  <2> QED
    BY <2>1 DEF Open
<1>3. CASE \E n \in Scans : Begin(n) \/ Wait(n) \/ Insert(n) \/ CountLayers(n)
  <2>1. PICK n \in Scans : Begin(n) \/ Wait(n) \/ Insert(n) \/ CountLayers(n)
    BY <1>3
  <2>2. n \in Open'
    BY <1>1, <2>1 DEF Open, InProgress
  <2> QED
    BY <1>1, <2>1, <2>2 DEF Open, InProgress
<1> QED
  BY <1>2, <1>3 DEF Quiet

\* A step is of one of four kinds.
LEMMA Kinds ==
  ASSUME IndexInv, [Next]_vars
  PROVE  \/ Quiet
         \/ \E n \in Scans : \/ Delete(n) \/ Resume(n)
                             \/ Commit(n)
                             \/ RolledBack(n) /\ n \in Open
<1>1. \A n \in Scans : Deadlock(n) \/ Fail(n) => RolledBack(n) /\ n \in Open
  BY DEF Deadlock, Fail, InCycle
<1> QED
  BY <1>1 DEF Next, Step, Quiet

LEMMA LockedType ==
  ASSUME IndexInv, NEW n \in Scans, NEW r \in gone[n]
  PROVE  r[1] \in TableNames /\ r[2] \in Scans \union {Seed}
<1>1. gone[n] \subseteq TableNames \X (Scans \union {Seed})
  BY DEF IndexInv, IndexType
<1> QED
  BY <1>1

LEMMA LocksNext == IndexInv /\ LockInv /\ [Next]_vars => LockInv'
<1> SUFFICES ASSUME IndexInv, LockInv, [Next]_vars PROVE LockInv'
  OBVIOUS
<1>1. CASE Quiet
  <2>1. /\ rows' = rows /\ gone' = gone /\ Open \subseteq Open'
        /\ \A m \in Scans : pc[m] = "committed" => pc'[m] = "committed"
    BY <1>1, QuietFrame DEF InProgress
  <2>2. \A n \in Scans : \A r \in gone[n] : r[2] \in Scans \union {Seed}
    BY LockedType
  <2>3. \A t \in TableNames : \A m \in rows[t] : m \in Scans \union {Seed}
    BY DEF IndexInv, IndexType
  <2> QED
    BY <2>1, <2>2, <2>3 DEF LockInv
<1>2. ASSUME NEW n \in Scans, NEW S, Deletes(n, S) PROVE LockInv'
  <2> DEFINE R == Removed(n, Tables[next[n]], S)
  <2>1. \A r \in R : r[1] \in TableNames /\ r[2] \in rows[r[1]] /\ r[2] \in Scans \union {Seed}
    <3>1. R \subseteq TableNames \X (Scans \union {Seed})
      BY <1>2, RemovedType DEF Deletes, IndexInv
    <3>2. \A r \in R : r[2] \in Visible(n, r[1])
      BY DEF Removed
    <3> QED
      BY <3>1, <3>2 DEF Visible
  <2>2. \A m \in Scans \ {n} : gone[m] \intersect R = {}
    <3>1. \A m \in Open \ {n} : gone[m] \intersect R = {}
      BY <1>2 DEF Deletes, Holders
    <3> QED
      BY <3>1 DEF LockInv
  <2> HIDE DEF R
  <2>3. /\ rows' = rows /\ Open' = Open /\ gone'[n] = gone[n] \union R
        /\ \A m \in Scans \ {n} : gone'[m] = gone[m] /\ pc'[m] = pc[m]
        /\ n \in Open /\ pc[n] # "committed"
    BY <1>2, DeletesFrame DEF R, Open, InProgress
  <2>4. \A m \in Scans : pc[m] = "committed" => pc'[m] = "committed"
    BY <2>3
  <2>5. \A t \in TableNames : \A m \in rows'[t] : m = Seed \/ pc'[m] = "committed"
    <3>1. \A t \in TableNames : \A m \in rows[t] : m \in Scans \union {Seed}
      BY DEF IndexInv, IndexType
    <3> QED
      BY <2>3, <2>4, <3>1 DEF LockInv
  <2>6. ASSUME NEW m \in Scans, NEW r \in gone'[m] PROVE r[2] = Seed \/ pc'[r[2]] = "committed"
    <3>1. CASE r \in gone[m]
      <4>1. r[2] \in Scans \union {Seed}
        BY <3>1, LockedType
      <4> QED
        BY <2>4, <3>1, <4>1 DEF LockInv
    <3>2. CASE r \in R
      BY <2>1, <2>4, <3>2 DEF LockInv
    <3> QED
      BY <2>3, <2>6, <3>1, <3>2
  <2>7. \A m \in Scans : m \notin Open' => gone'[m] = {}
    BY <2>3 DEF LockInv
  <2>8. \A m, k \in Scans : m # k => gone'[m] \intersect gone'[k] = {}
    BY <2>2, <2>3 DEF LockInv
  <2> QED
    BY <2>5, <2>6, <2>7, <2>8 DEF LockInv
<1>3. ASSUME NEW n \in Scans, Commit(n) PROVE LockInv'
  <2>1. /\ pc[n] = "counted" /\ pc'[n] = "committed" /\ gone'[n] = {}
        /\ \A m \in Scans \ {n} : gone'[m] = gone[m] /\ pc'[m] = pc[m]
        /\ rows' = [t \in TableNames |-> Visible(n, t) \union {m \in {n} : t \in fills[n]}]
        /\ Open' = Open \ {n}
    BY <1>3, CommitFrame
  <2>2. \A t \in TableNames : \A m \in rows'[t] : m \in rows[t] \/ m = n
    BY <2>1 DEF Visible
  <2>3. \A m \in Scans : pc[m] = "committed" => pc'[m] = "committed"
    BY <2>1
  <2>4. \A t \in TableNames : \A m \in rows'[t] : m = Seed \/ pc'[m] = "committed"
    <3>1. \A t \in TableNames : \A m \in rows[t] : m \in Scans \union {Seed}
      BY DEF IndexInv, IndexType
    <3> QED
      BY <2>1, <2>2, <2>3, <3>1 DEF LockInv
  <2>5. ASSUME NEW m \in Scans, NEW r \in gone'[m] PROVE r[2] = Seed \/ pc'[r[2]] = "committed"
    <3>1. r \in gone[m]
      BY <2>1, <2>5
    <3>2. r[2] \in Scans \union {Seed}
      BY <3>1, LockedType
    <3> QED
      BY <2>3, <3>1, <3>2 DEF LockInv
  <2>6. /\ \A m \in Scans : m \notin Open' => gone'[m] = {}
        /\ \A m, k \in Scans : m # k => gone'[m] \intersect gone'[k] = {}
    BY <2>1 DEF LockInv
  <2> QED
    BY <2>4, <2>5, <2>6 DEF LockInv
<1>4. ASSUME NEW n \in Scans, RolledBack(n), n \in Open PROVE LockInv'
  <2>1. /\ pc'[n] = "rolled back" /\ gone'[n] = {} /\ Open' = Open \ {n} /\ rows' = rows
        /\ \A m \in Scans \ {n} : gone'[m] = gone[m] /\ pc'[m] = pc[m]
    BY <1>4, RolledBackFrame
  <2>2. \A m \in Scans : pc[m] = "committed" => pc'[m] = "committed"
    BY <1>4, <2>1 DEF Open, InProgress
  <2>3. \A t \in TableNames : \A m \in rows'[t] : m = Seed \/ pc'[m] = "committed"
    <3>1. \A t \in TableNames : \A m \in rows[t] : m \in Scans \union {Seed}
      BY DEF IndexInv, IndexType
    <3> QED
      BY <2>1, <2>2, <3>1 DEF LockInv
  <2>4. ASSUME NEW m \in Scans, NEW r \in gone'[m] PROVE r[2] = Seed \/ pc'[r[2]] = "committed"
    <3>1. r \in gone[m]
      BY <2>1, <2>4
    <3>2. r[2] \in Scans \union {Seed}
      BY <3>1, LockedType
    <3> QED
      BY <2>2, <3>1, <3>2 DEF LockInv
  <2>5. /\ \A m \in Scans : m \notin Open' => gone'[m] = {}
        /\ \A m, k \in Scans : m # k => gone'[m] \intersect gone'[k] = {}
    BY <2>1 DEF LockInv
  <2> QED
    BY <2>3, <2>4, <2>5 DEF LockInv
<1> QED
  BY <1>1, <1>2, <1>3, <1>4, Kinds, DeleteDeletes, ResumeDeletes

LEMMA FilledWithFiles ==
  \A kind : "file" \in Filled(kind) => {"search", "architecture"} \subseteq Filled(kind)
<1> SUFFICES ASSUME NEW kind, "file" \in Filled(kind)
             PROVE  {"search", "architecture"} \subseteq Filled(kind)
  OBVIOUS
<1>1. CASE kind = "empty"
  BY <1>1 DEF Filled
<1>2. CASE kind = "prose"
  BY <1>2 DEF Filled
<1>3. CASE kind # "empty" /\ kind # "prose"
  BY <1>3 DEF Filled, TableNames
<1> QED
  BY <1>1, <1>2, <1>3

LEMMA CourseNext == IndexInv /\ CourseInv /\ [Next]_vars => CourseInv'
<1> SUFFICES ASSUME IndexInv, CourseInv, [Next]_vars, NEW m \in Scans
             PROVE  /\ pc'[m] \in {"cleared", "filled", "counted"} => next'[m] = 11
                    /\ "file" \in fills'[m] => {"search", "architecture"} \subseteq fills'[m]
  BY DEF CourseInv
<1>1. ASSUME NEW n \in Scans, Begin(n) \/ Wait(n)
      PROVE  /\ pc'[m] \in {"cleared", "filled", "counted"} => next'[m] = 11
             /\ "file" \in fills'[m] => {"search", "architecture"} \subseteq fills'[m]
  BY <1>1 DEF Begin, Wait, CourseInv, IndexInv, IndexType
<1>2. ASSUME NEW n \in Scans, Insert(n)
      PROVE  /\ pc'[m] \in {"cleared", "filled", "counted"} => next'[m] = 11
             /\ "file" \in fills'[m] => {"search", "architecture"} \subseteq fills'[m]
  <2>1. fills'[m] = Filled(tree) \/ fills'[m] = fills[m]
    BY <1>2 DEF Insert, IndexInv, IndexType
  <2>2. "file" \in fills'[m] => {"search", "architecture"} \subseteq fills'[m]
    BY <2>1, FilledWithFiles DEF CourseInv
  <2> QED
    BY <1>2, <2>2 DEF Insert, CourseInv, IndexInv, IndexType
<1>3. ASSUME NEW n \in Scans, CountLayers(n)
      PROVE  /\ pc'[m] \in {"cleared", "filled", "counted"} => next'[m] = 11
             /\ "file" \in fills'[m] => {"search", "architecture"} \subseteq fills'[m]
  <2>1. fills'[m] = fills[m] \union {"architecture"} \/ fills'[m] = fills[m]
    BY <1>3 DEF CountLayers, IndexInv, IndexType
  <2> QED
    BY <1>3, <2>1 DEF CountLayers, CourseInv, IndexInv, IndexType
<1>4. ASSUME NEW n \in Scans, NEW S, Deletes(n, S)
      PROVE  /\ pc'[m] \in {"cleared", "filled", "counted"} => next'[m] = 11
             /\ "file" \in fills'[m] => {"search", "architecture"} \subseteq fills'[m]
  BY <1>4, DeletesFrame DEF CourseInv, Deletes
<1>5. ASSUME NEW n \in Scans, Commit(n)
      PROVE  /\ pc'[m] \in {"cleared", "filled", "counted"} => next'[m] = 11
             /\ "file" \in fills'[m] => {"search", "architecture"} \subseteq fills'[m]
  BY <1>5, CommitFrame DEF CourseInv
<1>6. ASSUME NEW n \in Scans, RolledBack(n)
      PROVE  /\ pc'[m] \in {"cleared", "filled", "counted"} => next'[m] = 11
             /\ "file" \in fills'[m] => {"search", "architecture"} \subseteq fills'[m]
  BY <1>6, RolledBackFrame DEF CourseInv
<1>7. CASE Change \/ UNCHANGED vars
  BY <1>7 DEF Change, vars, scan, CourseInv
<1> QED
  BY <1>1, <1>2, <1>3, <1>4, <1>5, <1>6, <1>7, Kinds, DeleteDeletes, ResumeDeletes DEF Quiet

LEMMA FavourableBefore == IndexInv /\ [Next]_vars /\ Favourable' => Favourable
<1> SUFFICES ASSUME IndexInv, [Next]_vars, Favourable', NEW m \in Scans
             PROVE  /\ pc[m] # "new" => replaces[m]
                    /\ pc[m] = "committed" => "file" \in fills[m] /\ overtaken[m] <= 1
  BY DEF Favourable
<1>0. SUFFICES /\ pc[m] # "new" => pc'[m] # "new" /\ replaces'[m] = replaces[m]
               /\ pc[m] = "committed" => /\ pc'[m] = "committed" /\ fills'[m] = fills[m]
                                         /\ overtaken'[m] = overtaken[m]
  BY DEF Favourable
<1>1. ASSUME NEW n \in Scans, Begin(n) \/ Wait(n) \/ Insert(n) \/ CountLayers(n)
      PROVE  /\ pc[m] # "new" => pc'[m] # "new" /\ replaces'[m] = replaces[m]
             /\ pc[m] = "committed" => /\ pc'[m] = "committed" /\ fills'[m] = fills[m]
                                       /\ overtaken'[m] = overtaken[m]
  BY <1>1 DEF Begin, Wait, Insert, CountLayers, IndexInv, IndexType, hist
<1>2. ASSUME NEW n \in Scans, NEW S, Deletes(n, S)
      PROVE  /\ pc[m] # "new" => pc'[m] # "new" /\ replaces'[m] = replaces[m]
             /\ pc[m] = "committed" => /\ pc'[m] = "committed" /\ fills'[m] = fills[m]
                                       /\ overtaken'[m] = overtaken[m]
  BY <1>2, DeletesFrame
<1>3. ASSUME NEW n \in Scans, Commit(n)
      PROVE  /\ pc[m] # "new" => pc'[m] # "new" /\ replaces'[m] = replaces[m]
             /\ pc[m] = "committed" => /\ pc'[m] = "committed" /\ fills'[m] = fills[m]
                                       /\ overtaken'[m] = overtaken[m]
  BY <1>3, CommitFrame DEF Open, InProgress
<1>4. ASSUME NEW n \in Scans, RolledBack(n), n \in Open
      PROVE  /\ pc[m] # "new" => pc'[m] # "new" /\ replaces'[m] = replaces[m]
             /\ pc[m] = "committed" => /\ pc'[m] = "committed" /\ fills'[m] = fills[m]
                                       /\ overtaken'[m] = overtaken[m]
  BY <1>4, RolledBackFrame DEF Open, InProgress
<1>5. CASE Change \/ UNCHANGED vars
  BY <1>5 DEF Change, vars, scan, hist
<1> QED
  BY <1>1, <1>2, <1>3, <1>4, <1>5, Kinds, DeleteDeletes, ResumeDeletes DEF Quiet

\* The tables in which a scan can catch up, by their place.
LEMMA CatchingUp == Tables[1] = "search" /\ Tables[5] = "architecture" /\ Tables[8] = "file"
BY DEF Tables

\* A DELETE on the table t takes the rows of l if it found them and they are there.
LEMMA Takes ==
  ASSUME NEW n, NEW t, NEW S, NEW l, l \in S, NEW u \in {t} \union CascadesTo(t),
         l \in rows[u]
  PROVE  <<u, l>> \in gone[n] \union Removed(n, t, S)
BY DEF Removed, Visible

LEMMA HoldsGrows ==
  ASSUME NEW n, NEW l, Holds(n, l), rows' = rows, gone[n] \subseteq gone'[n]
  PROVE  Holds(n, l)'
BY DEF Holds

\* A DELETE brings a scan as far as it has to come.
LEMMA DeletesCatches ==
  ASSUME IndexInv, NEW n \in Scans, NEW S, Deletes(n, S), NEW l, IsLast(l), Catches(n, l),
         next[n] = 1 => l \in S \/ <<"search", l>> \in gone[n] \/ overtaken[n] >= 1,
         next[n] = 5 => l \in S \/ <<"architecture", l>> \in gone[n] \/ overtaken[n] >= 2,
         next[n] = 8 => l \in S \/ <<"file", l>> \in gone[n] \/ overtaken[n] >= 3
  PROVE  Catches(n, l)'
<1> DEFINE t == Tables[next[n]]
<1>1. /\ rows' = rows /\ overtaken' = overtaken /\ next'[n] = next[n] + 1
      /\ gone'[n] = gone[n] \union Removed(n, t, S)
      /\ next[n] \in 1..10
  BY DeletesFrame DEF Deletes
<1>2. /\ l \in rows["search"] /\ l \in rows["file"] /\ l \in rows["architecture"]
  BY DEF IsLast
<1>3. next'[n] > 1 => <<"search", l>> \in gone'[n] \/ overtaken'[n] >= 1
  <2>1. CASE next[n] = 1
    <3>1. t = "search"
      BY <2>1, CatchingUp
    <3> QED
      BY <1>1, <1>2, <2>1, <3>1, Takes
  <2>2. CASE next[n] > 1
    BY <1>1, <2>2 DEF Catches
  <2> QED
    BY <1>1, <2>1, <2>2
<1>4. next'[n] > 5 => <<"architecture", l>> \in gone'[n] \/ overtaken'[n] >= 2
  <2>1. CASE next[n] = 5
    <3>1. t = "architecture"
      BY <2>1, CatchingUp
    <3> QED
      BY <1>1, <1>2, <2>1, <3>1, Takes
  <2>2. CASE next[n] > 5
    BY <1>1, <2>2 DEF Catches
  <2> QED
    BY <1>1, <2>1, <2>2
<1>5. <<"file", l>> \in gone'[n] => Holds(n, l)'
  <2>1. CASE <<"file", l>> \in gone[n]
    BY <1>1, <2>1, HoldsGrows DEF Catches
  <2>2. CASE <<"file", l>> \in Removed(n, t, S)
    <3>1. l \in S /\ "file" \in {t} \union CascadesTo(t)
      BY <2>2 DEF Removed
    <3>2. t = "file"
      BY <3>1 DEF CascadesTo
    <3>3. {"file", "search", "symbol"} \subseteq {t} \union CascadesTo(t)
      BY <3>2 DEF CascadesTo
    <3>4. /\ <<"file", l>> \in gone'[n] /\ <<"search", l>> \in gone'[n]
          /\ l \in rows["symbol"] => <<"symbol", l>> \in gone'[n]
      BY <1>1, <1>2, <3>1, <3>3, Takes
    <3> QED
      BY <1>1, <3>4 DEF Holds
  <2>3. SUFFICES ASSUME <<"file", l>> \in gone'[n] PROVE Holds(n, l)'
    OBVIOUS
  <2> QED
    BY <1>1, <2>1, <2>2, <2>3
<1>6. next'[n] > 8 => Holds(n, l)' \/ overtaken'[n] >= 3
  <2>1. CASE next[n] = 8
    <3>1. t = "file"
      BY <2>1, CatchingUp
    <3>2. <<"file", l>> \in gone'[n] \/ overtaken'[n] >= 3
      BY <1>1, <1>2, <2>1, <3>1, Takes
    <3> QED
      BY <1>5, <3>2
  <2>2. CASE next[n] > 8
    BY <1>1, <2>2, HoldsGrows DEF Catches
  <2> QED
    BY <1>1, <2>1, <2>2
<1> QED
  BY <1>3, <1>4, <1>5, <1>6 DEF Catches

\* A scan of which nothing that matters has changed is where it was.
LEMMA StaysThere ==
  ASSUME NEW n, NEW l, Catches(n, l) /\ Awaits(n, l),
         rows' = rows, gone'[n] = gone[n], next'[n] = next[n], overtaken'[n] = overtaken[n],
         pc'[n] = "waiting" => pc[n] = "waiting" /\ target'[n] = target[n]
  PROVE  (Catches(n, l) /\ Awaits(n, l))'
BY DEF Catches, Awaits, Holds

LEMMA LastDeletes ==
  ASSUME IndexInv, LastInv, NEW n \in Scans, NEW S, Deletes(n, S),
         S = Visible(n, Tables[next[n]]) \/ (pc[n] = "waiting" /\ S = target[n])
  PROVE  LastInv'
<1>1. PICK l \in Scans \union {Seed} :
        IsLast(l) /\ \A m \in Open : Catches(m, l) /\ Awaits(m, l)
  BY DEF LastInv, Deletes
<1>2. n \in Open
  BY DEF Deletes, Open, InProgress
<1>3. IsLast(l)'
  BY <1>1, DeletesFrame DEF IsLast
<1>4. Catches(n, l)'
  <2>1. /\ l \in rows["search"] /\ l \in rows["file"] /\ l \in rows["architecture"]
    BY <1>1 DEF IsLast
  <2>2. /\ next[n] = 1 => l \in S \/ <<"search", l>> \in gone[n] \/ overtaken[n] >= 1
        /\ next[n] = 5 => l \in S \/ <<"architecture", l>> \in gone[n] \/ overtaken[n] >= 2
        /\ next[n] = 8 => l \in S \/ <<"file", l>> \in gone[n] \/ overtaken[n] >= 3
    <3>1. CASE S = Visible(n, Tables[next[n]])
      BY <2>1, <3>1, CatchingUp DEF Visible
    <3>2. CASE pc[n] = "waiting" /\ S = target[n]
      BY <1>1, <1>2, <3>2 DEF Awaits
    <3> QED
      BY <3>1, <3>2
  <2> QED
    BY <1>1, <1>2, <2>2, DeletesCatches
<1>5. Awaits(n, l)'
  <2>1. pc'[n] # "waiting"
    BY DeletesFrame
  <2> QED
    BY <2>1 DEF Awaits
<1>6. \A m \in Open \ {n} : (Catches(m, l) /\ Awaits(m, l))'
  <2> SUFFICES ASSUME NEW m \in Open \ {n} PROVE (Catches(m, l) /\ Awaits(m, l))'
    OBVIOUS
  <2>1. m \in Scans \ {n}
    BY DEF Open
  <2> QED
    BY <1>1, <2>1, StaysThere, DeletesFrame
<1>7. Open' = Open
  BY DeletesFrame
<1> QED
  BY <1>3, <1>4, <1>5, <1>6, <1>7 DEF LastInv

\* A scan that lost the rows of l to the scan that commits was overtaken once
\* more, and is that much further behind.
LEMMA FallsBehind ==
  ASSUME IndexInv, NEW n \in Scans, NEW m \in Open, NEW l, m # n, Commit(n), LockInv,
         Holds(n, l), <<"architecture", l>> \in gone[n],
         Catches(m, l) /\ Awaits(m, l)
  PROVE  (Catches(m, n) /\ Awaits(m, n))'
<1>1. /\ next' = next /\ target' = target /\ gone'[m] = gone[m] /\ pc'[m] = pc[m]
      /\ overtaken'[m] = overtaken[m] + 1 /\ pc[n] = "counted" /\ m \in Scans
  <2>1. m \in Scans
    BY DEF Open
  <2> QED
    BY <2>1, CommitFrame
<1>2. overtaken[m] \in Nat /\ next[m] \in Nat
  BY <1>1 DEF IndexInv, IndexType
<1>3. /\ <<"search", l>> \notin gone[m] /\ <<"file", l>> \notin gone[m]
      /\ <<"architecture", l>> \notin gone[m]
  BY <1>1 DEF LockInv, Holds
<1>4. /\ next[m] > 1 => overtaken[m] >= 1
      /\ next[m] > 5 => overtaken[m] >= 2
      /\ next[m] > 8 => overtaken[m] >= 3
  BY <1>3 DEF Catches, Holds
<1>5. <<"file", n>> \notin gone'[m]
  <2>1. n # Seed
    BY DEF Scans, Seed
  <2> QED
    BY <1>1, <2>1 DEF LockInv
<1>6. Catches(m, n)'
  BY <1>1, <1>2, <1>4, <1>5 DEF Catches
<1>7. Awaits(m, n)'
  <2>1. /\ next[m] = 1 => overtaken'[m] >= 1
        /\ next[m] = 5 => overtaken'[m] >= 2
        /\ next[m] = 8 => overtaken'[m] >= 3
    BY <1>1, <1>2, <1>4
  <2> QED
    BY <1>1, <2>1 DEF Awaits
<1> QED
  BY <1>6, <1>7

\* A scan in progress that is done and was not left behind holds the rows of the last one.
LEMMA LastCommit ==
  ASSUME IndexInv, LockInv, CourseInv, LastInv, NEW n \in Scans, Commit(n), Favourable'
  PROVE  LastInv'
<1>1. PICK l \in Scans \union {Seed} :
        IsLast(l) /\ \A m \in Open : Catches(m, l) /\ Awaits(m, l)
  BY CommitFrame DEF LastInv
<1>2. n \in Open /\ next[n] = 11 /\ overtaken[n] <= 1 /\ "file" \in fills[n] /\ overtaken[n] \in Nat
  BY CommitFrame DEF CourseInv, Favourable, IndexInv, IndexType
<1>3. Holds(n, l) /\ <<"architecture", l>> \in gone[n]
  BY <1>1, <1>2 DEF Catches
<1>4. IsLast(n)'
  <2>1. \A t \in TableNames : rows'[t] = Visible(n, t) \union {m \in {n} : t \in fills[n]}
    BY CommitFrame
  <2>2. {"search", "file", "symbol", "architecture"} \subseteq TableNames
    BY DEF TableNames
  <2>3. /\ Visible(n, "search") = {} /\ Visible(n, "file") = {} /\ Visible(n, "symbol") = {}
    BY <1>1, <1>3 DEF Visible, Holds, IsLast
  <2>4. {"search", "file", "architecture"} \subseteq fills[n]
    BY <1>2 DEF CourseInv
  <2> QED
    BY <2>1, <2>2, <2>3, <2>4 DEF IsLast
<1>5. \A m \in Open' : (Catches(m, n) /\ Awaits(m, n))'
  <2> SUFFICES ASSUME NEW m \in Open' PROVE (Catches(m, n) /\ Awaits(m, n))'
    OBVIOUS
  <2>1. m \in Open /\ m # n
    BY CommitFrame
  <2> QED
    BY <1>1, <1>3, <2>1, FallsBehind
<1> QED
  BY <1>4, <1>5 DEF LastInv

LEMMA LastRolledBack ==
  ASSUME IndexInv, LastInv, NEW n \in Scans, RolledBack(n), n \in Open
  PROVE  LastInv'
<1>1. PICK l \in Scans \union {Seed} :
        IsLast(l) /\ \A m \in Open : Catches(m, l) /\ Awaits(m, l)
  BY DEF LastInv, Open, InProgress
<1>2. IsLast(l)'
  BY <1>1, RolledBackFrame DEF IsLast
<1>3. ASSUME NEW m \in Open' PROVE (Catches(m, l) /\ Awaits(m, l))'
  <2>1. m \in Open /\ m \in Scans \ {n}
    BY RolledBackFrame DEF Open
  <2> QED
    BY <1>1, <2>1, StaysThere, RolledBackFrame
<1> QED
  BY <1>2, <1>3 DEF LastInv

\* A scan that begins has everything before it, and one that starts to wait has
\* found what is there.
LEMMA LastBegin ==
  ASSUME IndexInv, LastInv, NEW n \in Scans, Begin(n), Favourable', LockInv
  PROVE  LastInv'
<1>1. /\ rows' = rows /\ gone' = gone /\ next' = next /\ overtaken' = overtaken /\ target' = target
      /\ pc[n] = "new" /\ pc'[n] = "clearing" /\ \A m \in Scans \ {n} : pc'[m] = pc[m]
      /\ replaces'[n] = (rows["search"] # {})
  BY DEF Begin, IndexInv, IndexType
<1>2. rows["search"] # {}
  BY <1>1 DEF Favourable
<1>3. PICK l \in Scans \union {Seed} :
        IsLast(l) /\ \A m \in Open : Catches(m, l) /\ Awaits(m, l)
  BY <1>2 DEF LastInv
<1>4. IsLast(l)'
  BY <1>1, <1>3 DEF IsLast
<1>5. ASSUME NEW m \in Open' PROVE (Catches(m, l) /\ Awaits(m, l))'
  <2>1. CASE m = n
    <3>1. next'[n] = 1 /\ gone'[n] = {}
      BY <1>1 DEF IndexInv, InOrder, LockInv, Open, InProgress
    <3> QED
      BY <1>1, <2>1, <3>1 DEF Catches, Awaits
  <2>2. CASE m # n
    <3>1. m \in Open /\ pc'[m] = pc[m]
      BY <1>1, <2>2 DEF Open
    <3> QED
      BY <1>1, <1>3, <3>1, StaysThere
  <2> QED
    BY <2>1, <2>2
<1> QED
  BY <1>4, <1>5 DEF LastInv

LEMMA LastWait ==
  ASSUME IndexInv, LastInv, NEW n \in Scans, Wait(n)
  PROVE  LastInv'
<1>1. /\ rows' = rows /\ gone' = gone /\ next' = next /\ overtaken' = overtaken
      /\ pc[n] = "clearing" /\ pc'[n] = "waiting" /\ target'[n] = Visible(n, Tables[next[n]])
      /\ \A m \in Scans \ {n} : pc'[m] = pc[m] /\ target'[m] = target[m]
  BY DEF Wait, IndexInv, IndexType, hist
<1>2. n \in Open /\ Open' = Open
  BY <1>1 DEF Open, InProgress
<1>3. PICK l \in Scans \union {Seed} :
        IsLast(l) /\ \A m \in Open : Catches(m, l) /\ Awaits(m, l)
  BY <1>1 DEF LastInv
<1>4. IsLast(l)'
  BY <1>1, <1>3 DEF IsLast
<1>5. ASSUME NEW m \in Open PROVE (Catches(m, l) /\ Awaits(m, l))'
  <2>1. CASE m = n
    <3>1. Catches(n, l)'
      BY <1>1, <1>2, <1>3 DEF Catches, Holds
    <3>2. /\ l \in rows["search"] /\ l \in rows["file"] /\ l \in rows["architecture"]
      BY <1>3 DEF IsLast
    <3>3. Awaits(n, l)'
      BY <1>1, <3>2, CatchingUp DEF Awaits, Visible
    <3> QED
      BY <2>1, <3>1, <3>3
  <2>2. CASE m # n
    BY <1>1, <1>3, <2>2, StaysThere DEF Open
  <2> QED
    BY <2>1, <2>2
<1> QED
  BY <1>2, <1>4, <1>5 DEF LastInv

LEMMA LastNext ==
  IndexInv /\ LockInv /\ CourseInv /\ LastInv /\ Favourable' /\ [Next]_vars => LastInv'
<1> SUFFICES ASSUME IndexInv, LockInv, CourseInv, LastInv, Favourable', [Next]_vars
             PROVE  LastInv'
  OBVIOUS
<1>1. ASSUME NEW n \in Scans, Insert(n) \/ CountLayers(n) PROVE LastInv'
  <2>1. /\ rows' = rows /\ gone' = gone /\ next' = next /\ overtaken' = overtaken
        /\ target' = target /\ pc[n] # "new" /\ Open' = Open
        /\ \A m \in Scans : pc'[m] = "waiting" => pc[m] = "waiting"
    BY <1>1 DEF Insert, CountLayers, IndexInv, IndexType, hist, Open, InProgress
  <2>2. PICK l \in Scans \union {Seed} :
          IsLast(l) /\ \A m \in Open : Catches(m, l) /\ Awaits(m, l)
    BY <2>1 DEF LastInv
  <2>3. IsLast(l)'
    BY <2>1, <2>2 DEF IsLast
  <2>4. \A m \in Open : (Catches(m, l) /\ Awaits(m, l))'
    BY <2>1, <2>2, StaysThere DEF Open
  <2> QED
    BY <2>1, <2>3, <2>4 DEF LastInv
<1>2. CASE Change \/ UNCHANGED vars
  <2>1. /\ rows' = rows /\ gone' = gone /\ next' = next /\ overtaken' = overtaken
        /\ target' = target /\ pc' = pc /\ Open' = Open
    BY <1>2 DEF Change, vars, scan, hist, Open
  <2>2. CASE rows["search"] = {} /\ \A m \in Scans : pc[m] = "new"
    BY <2>1, <2>2 DEF LastInv
  <2>3. CASE \E l \in Scans \union {Seed} :
               IsLast(l) /\ \A m \in Open : Catches(m, l) /\ Awaits(m, l)
    <3>0. PICK l \in Scans \union {Seed} :
            IsLast(l) /\ \A m \in Open : Catches(m, l) /\ Awaits(m, l)
      BY <2>3
    <3>1. IsLast(l)'
      BY <2>1, <3>0 DEF IsLast
    <3>2. \A m \in Open : (Catches(m, l) /\ Awaits(m, l))'
      BY <2>1, <3>0, StaysThere DEF Open
    <3> QED
      BY <2>1, <3>1, <3>2 DEF LastInv
  <2> QED
    BY <2>2, <2>3 DEF LastInv
<1>3. CASE Quiet
  BY <1>1, <1>2, <1>3, LastBegin, LastWait DEF Quiet
<1>4. ASSUME NEW n \in Scans, Delete(n) PROVE LastInv'
  BY <1>4, DeleteDeletes, LastDeletes
<1>5. ASSUME NEW n \in Scans, Resume(n) PROVE LastInv'
  BY <1>5, ResumeDeletes, LastDeletes
<1>6. ASSUME NEW n \in Scans, Commit(n) PROVE LastInv'
  BY <1>6, LastCommit
<1>7. ASSUME NEW n \in Scans, RolledBack(n), n \in Open PROVE LastInv'
  BY <1>7, LastRolledBack
<1> QED
  BY <1>3, <1>4, <1>5, <1>6, <1>7, Kinds

LEMMA OverlapNext == IndexInv /\ OverlapInv /\ [Next]_vars => OverlapInv'
BY LocksNext, CourseNext, FavourableBefore, LastNext DEF OverlapInv

LEMMA OverlappingCommit ==
  ASSUME IndexInv, OverlapInv, [Next]_vars, NEW n \in Scans, Commits(n), NeverEmpty,
         FewOvertakings(n)
  PROVE  \A t \in {"search", "symbol", "file"} : rows'[t] \subseteq {n}
<1>1. Commit(n)
  BY CommitsByCommit
<1>2. n \in Open /\ next[n] = 11 /\ pc[n] # "new" /\ overtaken[n] <= 2 /\ overtaken[n] \in Nat
  BY <1>1, CommitFrame
     DEF OverlapInv, CourseInv, FewOvertakings, IndexInv, IndexType, Open, InProgress
<1>3. Favourable
  BY DEF Favourable, NeverEmpty, FewOvertakings
<1>4. PICK l \in Scans \union {Seed} : IsLast(l) /\ Catches(n, l)
  BY <1>2, <1>3 DEF OverlapInv, LastInv
<1>5. Holds(n, l)
  BY <1>2, <1>4 DEF Catches
<1>6. /\ Visible(n, "search") = {} /\ Visible(n, "file") = {} /\ Visible(n, "symbol") = {}
  BY <1>4, <1>5 DEF Visible, Holds, IsLast
<1>7. \A t \in TableNames : rows'[t] = Visible(n, t) \union {m \in {n} : t \in fills[n]}
  BY <1>1, CommitFrame
<1> QED
  BY <1>6, <1>7 DEF TableNames

\* As long as no scan began with nothing indexed and each one so far left files,
\* a scan overtaken by at most two others, each of which was overtaken by at most
\* one, leaves its own files, names and symbols only: the lock on the rows of the
\* scan before it makes it wait, and it catches up in a later table
\* (IndexerService._clear and scan).
THEOREM OverlapsReplace == Spec => OverlapReplaces
<1>1. Init => IndexInv /\ OverlapInv
  BY IndexInit, OverlapInit
<1>2. IndexInv /\ OverlapInv /\ [Next]_vars => (IndexInv /\ OverlapInv)'
  BY IndexNext, OverlapNext
<1>3. IndexInv /\ OverlapInv /\ [Next]_vars =>
        [\A n \in Scans : Commits(n) /\ NeverEmpty /\ FewOvertakings(n) =>
           \A t \in {"search", "symbol", "file"} : rows'[t] \subseteq {n}]_vars
  BY OverlappingCommit
<1> QED
  BY <1>1, <1>2, <1>3, PTL DEF Spec, OverlapReplaces
=============================================================================
