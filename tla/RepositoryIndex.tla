-------------------------- MODULE RepositoryIndex --------------------------
(***************************************************************************)
(* The index of one scanned repository: IndexerService of                  *)
(* app/services/repository_service.py, with the scanner and the parser it  *)
(* calls.  A scan is one request and one transaction: it deletes what is   *)
(* indexed, table after table, walks the tree, inserts what it finds, and  *)
(* commits at the end of the request.                                      *)
(*                                                                         *)
(* Scans may overlap.  At READ COMMITTED each DELETE works on the rows     *)
(* that were committed when the statement began; it waits for a            *)
(* transaction that is deleting one of them, and afterwards skips the rows *)
(* that are gone without looking for new ones.  All that keeps the rows of *)
(* two scans apart is this wait, so the module keeps the row locks.        *)
(*                                                                         *)
(* Rows are told apart by the scan that wrote them and by their table, not *)
(* one by one.                                                             *)
(***************************************************************************)
EXTENDS Naturals, Sequences, FiniteSets

CONSTANTS
  MaxScans,     \* bound: scans, which are numbered as they begin
  MaxChanges,   \* bound: changes of the kind of the tree
  MaxFailures   \* bound: scans that fail or end with their process

Scans == 1 .. MaxScans
Seed == 0      \* the scan of seed_repository, if there was one

ASSUME BoundsAssumption == {MaxScans, MaxChanges, MaxFailures} \subseteq Nat

\* Mutants: a table is forgotten; files come first, since most rows go with them.
TablesForgotten == <<"search", "symbol", "dependency", "relationship",
                     "issue", "todo", "file", "module", "metrics">>
TablesFilesFirst == <<"file", "search", "symbol", "dependency", "relationship",
                      "architecture", "issue", "todo", "module", "metrics">>

\* The tables of _clear, in its order.
Tables == <<"search", "symbol", "dependency", "relationship", "architecture",
            "issue", "todo", "file", "module", "metrics">>

TableNames == {"search", "symbol", "dependency", "relationship", "architecture",
               "issue", "todo", "file", "module", "metrics"}

\* The tables whose rows go with a row of this one (ON DELETE CASCADE).
CascadesTo(t) ==
  CASE t = "file"   -> {"symbol", "search"}
    [] t = "symbol" -> {"search"}
    [] OTHER        -> {}

VARIABLES
  tree,       \* file system: what is to be found under root_path
  rows,       \* rows[t]: the scans whose rows are committed in table t
  pc,         \* scan: where it stands
  next,       \* scan: the next table of _clear
  target,     \* scan: the rows the current DELETE found, while it waits
  gone,       \* scan: <<t, n>> when it has deleted the rows of n in t (and holds their locks)
  fills,      \* scan: the tables it leaves rows in
  replaces,   \* history: the scan found something indexed when it began
  alone,      \* history: no other scan was in progress since it began
  overtaken,  \* history: how many scans committed while it was in progress
  changes, failures   \* counters behind the bounds

scan == <<pc, next, target, gone, fills>>
hist == <<replaces, alone, overtaken>>
vars == <<tree, rows, scan, hist, changes, failures>>

\* No files at all (nothing is mounted there), files nothing is parsed from,
\* and code with something for every table.
Trees == {"empty", "prose", "code"}

InProgress == {"clearing", "waiting", "cleared", "filled", "counted"}
Open == {n \in Scans : pc[n] \in InProgress}

Init ==
  /\ tree \in Trees
  /\ \E S \in {{}, {Seed}} : rows = [t \in TableNames |-> S]
  /\ pc = [n \in Scans |-> "new"]
  /\ next = [n \in Scans |-> 1]
  /\ target = [n \in Scans |-> {}]
  /\ gone = [n \in Scans |-> {}]
  /\ fills = [n \in Scans |-> {}]
  /\ replaces = [n \in Scans |-> FALSE]
  /\ alone = [n \in Scans |-> FALSE]
  /\ overtaken = [n \in Scans |-> 0]
  /\ changes = 0 /\ failures = 0

\* The rows of t that scan n sees: committed, and not deleted by itself.
Visible(n, t) == {m \in rows[t] : <<t, m>> \notin gone[n]}

\* What goes when the rows of table t written by the scans in S are deleted.
Removed(n, t, S) ==
  {r \in ({t} \union CascadesTo(t)) \X S : r[2] \in Visible(n, r[1])}

\* The scans that hold one of the rows.
Holders(n, R) == {m \in Open \ {n} : gone[m] \intersect R # {}}

-----------------------------------------------------------------------------
\* scan: the row of the scan is added; nobody sees it before the commit.
Begin(n) ==
  /\ pc[n] = "new" /\ \A m \in Scans : m < n => pc[m] # "new"
  /\ pc' = [pc EXCEPT ![n] = "clearing"]
  /\ replaces' = [replaces EXCEPT ![n] = rows["search"] # {}]
  /\ alone' = [m \in Scans |-> IF m = n THEN Open = {} ELSE alone[m] /\ m \notin Open]
  /\ UNCHANGED <<tree, rows, next, target, gone, fills, overtaken, changes, failures>>

\* The DELETE of one table is done with the rows of the scans in S.
Deleted(n, S) ==
  /\ gone' = [gone EXCEPT ![n] = @ \union Removed(n, Tables[next[n]], S)]
  /\ next' = [next EXCEPT ![n] = @ + 1]
  /\ target' = [target EXCEPT ![n] = {}]
  /\ pc' = [pc EXCEPT ![n] = IF next[n] = Len(Tables) THEN "cleared" ELSE "clearing"]
  /\ UNCHANGED <<tree, rows, fills, hist, changes, failures>>

\* _clear, a DELETE that finds no row locked.
Delete(n) ==
  LET S == Visible(n, Tables[next[n]]) IN
  /\ pc[n] = "clearing"
  /\ Holders(n, Removed(n, Tables[next[n]], S)) = {}
  /\ Deleted(n, S)

\* _clear, a DELETE that has to wait: what it found is settled.
Wait(n) ==
  LET S == Visible(n, Tables[next[n]]) IN
  /\ pc[n] = "clearing"
  /\ Holders(n, Removed(n, Tables[next[n]], S)) # {}
  /\ target' = [target EXCEPT ![n] = S]
  /\ pc' = [pc EXCEPT ![n] = "waiting"]
  /\ UNCHANGED <<tree, rows, next, gone, fills, hist, changes, failures>>

\* Whom a waiting scan waits for.
WaitsFor(n) ==
  IF pc[n] = "waiting" THEN Holders(n, Removed(n, Tables[next[n]], target[n])) ELSE {}

\* The transaction it waited for has ended; the DELETE goes on with the rows it
\* had found, as far as they are still there.
Resume(n) ==
  /\ pc[n] = "waiting" /\ WaitsFor(n) = {}
  /\ Deleted(n, target[n])

\* The tables in which a scan of such a tree leaves rows: metrics in any case,
\* files and their names, directories and layers if there are files, and what
\* the parser finds if there is code.
Filled(kind) ==
  CASE kind = "empty" -> {"metrics"}
    [] kind = "prose" -> {"search", "architecture", "file", "module", "metrics"}
    [] OTHER          -> TableNames

\* scan_tree, and the first two parts of _index: directories, files, and what is
\* parsed from them.
Insert(n) ==
  /\ pc[n] = "cleared"
  /\ pc' = [pc EXCEPT ![n] = "filled"]
  /\ fills' = [fills EXCEPT ![n] = Filled(tree)]
  /\ UNCHANGED <<tree, rows, next, target, gone, hist, changes, failures>>

\* _index: the layers come from a query over all the files it sees.
CountLayers(n) ==
  /\ pc[n] = "filled"
  /\ pc' = [pc EXCEPT ![n] = "counted"]
  /\ fills' = IF Visible(n, "file") = {} THEN fills
              ELSE [fills EXCEPT ![n] = @ \union {"architecture"}]
  /\ UNCHANGED <<tree, rows, next, target, gone, hist, changes, failures>>

\* The commit at the end of the request.
Commit(n) ==
  /\ pc[n] = "counted"
  /\ rows' = [t \in TableNames |-> Visible(n, t) \union {m \in {n} : t \in fills[n]}]
  /\ pc' = [pc EXCEPT ![n] = "committed"]
  /\ gone' = [gone EXCEPT ![n] = {}]
  /\ overtaken' = [m \in Scans |-> IF m \in Open \ {n} THEN overtaken[m] + 1 ELSE overtaken[m]]
  /\ UNCHANGED <<tree, next, target, fills, replaces, alone, changes, failures>>

\* The request ends without a trace: its changes, its row and its locks go.
RolledBack(n) ==
  /\ pc' = [pc EXCEPT ![n] = "rolled back"]
  /\ gone' = [gone EXCEPT ![n] = {}]
  /\ target' = [target EXCEPT ![n] = {}]
  /\ UNCHANGED <<tree, rows, next, fills, hist, changes>>

\* Mutant: nobody looks for cycles.
InCycleNever(n) == FALSE

\* Scans that wait for each other.
InCycle(n) ==
  \E D \in SUBSET Open :
    /\ n \in D
    /\ \A m \in D : WaitsFor(m) \intersect D # {}
    /\ \A m \in D : \E k \in D : m \in WaitsFor(k)

\* The database aborts a scan of a cycle.  The handler of scan() tries to
\* record the failure in the aborted transaction, which fails as well.
Deadlock(n) ==
  /\ InCycle(n)
  /\ RolledBack(n) /\ UNCHANGED failures

\* The database refuses a statement, or the process ends.
Fail(n) ==
  /\ n \in Open /\ failures < MaxFailures
  /\ failures' = failures + 1
  /\ RolledBack(n)

\* Files come and go under root_path.
Change ==
  /\ changes < MaxChanges
  /\ changes' = changes + 1
  /\ tree' \in Trees \ {tree}
  /\ UNCHANGED <<rows, scan, hist, failures>>

-----------------------------------------------------------------------------
Step(n) ==
  \/ Delete(n) \/ Wait(n) \/ Resume(n)
  \/ Insert(n) \/ CountLayers(n) \/ Commit(n)
  \/ Deadlock(n)

Next ==
  \/ \E n \in Scans : Begin(n) \/ Step(n) \/ Fail(n)
  \/ Change

\* A request that was accepted is worked on, and the database resolves
\* deadlocks.  Nobody has to ask for a scan.
Spec == Init /\ [][Next]_vars /\ \A n \in Scans : WF_vars(Step(n))

-----------------------------------------------------------------------------
(* Properties *)

Commits(n) == pc[n] = "counted" /\ pc'[n] = "committed"

\* "Re-scanning is idempotent (previous index rows are replaced)": a scan that
\* overlaps no other leaves its rows and no others, in every table, whatever
\* overlapping or failed scans left behind before it.
RescanReplaces ==
  [][\A n \in Scans : Commits(n) /\ alone[n] =>
       \A t \in TableNames : rows'[t] \subseteq {n}]_vars

\* Every scan so far found something indexed when it began, and left files.
NeverEmpty ==
  \A m \in Scans :
    /\ pc[m] # "new" => replaces[m]
    /\ pc[m] = "committed" => "file" \in fills[m]

\* Scan n may have been overtaken by two others, the scans before it by one.
FewOvertakings(n) ==
  /\ overtaken[n] <= 2
  /\ \A m \in Scans : pc[m] = "committed" => overtaken[m] <= 1

\* As long as neither the index nor the tree is ever empty, each scan leaves its
\* own files, names and symbols only, although scans overlap: the rows of the
\* scan before it are its own to delete, in the first table or, when it was
\* overtaken there, in a later one.  Each scan that overtakes it takes one of
\* the tables it could have caught up in; there are two before the files.
OverlapReplaces ==
  [][\A n \in Scans : Commits(n) /\ NeverEmpty /\ FewOvertakings(n) =>
       \A t \in {"search", "symbol", "file"} : rows'[t] \subseteq {n}]_vars

\* A scan ends, although scans wait for each other.
ScansEnd == \A n \in Scans : n \in Open ~> n \notin Open
=============================================================================
