------------------------------ MODULE Sandbox ------------------------------
(***************************************************************************)
(* The git sandbox of one development task (services/dev_git.py), the      *)
(* changes a run makes in it (ModificationPlanner and                      *)
(* RepositoryModificationService in development_service.py) and the edits  *)
(* gated by tests that maintain it (services/dev_maintenance.py).          *)
(*                                                                         *)
(* A commit is the tree it leaves: what is at each path.  An edit of the   *)
(* maintenance is two steps, the commit and the judgement of the tests.    *)
(* The formulas bear the name of the module: the proofs are beside those   *)
(* of DevTask, which has an Init and a Next of its own.                    *)
(***************************************************************************)
EXTENDS CodeModification

CONSTANTS
    Sources,     \* what the repository has at the target: files, or NoFile
    Specs,       \* the changes a task may ask for
    Drafts,      \* what the generator may write: a module, its tests and notes
    Edits,       \* the edits the maintenance may be asked for
    Suites,      \* the names the tests on main import from the target
    NoFile,
    MaxEdits,    \* bound on maintenance edits
    MaxSlow,     \* bound on test runs that are cut off after 120 s
    MaxUntold    \* bound on the commits of edits made for no task

\* What is edited are texts, and what edits say is about texts.
ASSUME FilesAssumption ==
    /\ Sources \subseteq File \cup {NoFile}
    /\ Specs \subseteq Change /\ Edits \subseteq Change
    /\ Drafts \subseteq [code: File, test: File, notes: File]

VARIABLES
    base,      \* the tree on main
    log,       \* the commits of the feature branch, oldest first
    rows,      \* the GeneratedChange rows, in order
    suite,     \* the names the tests on main import from the target
    task,      \* what became of the implementation stage
    pending,   \* the maintenance edit that is committed and not judged
    edits, slow,
    untold     \* the commits on the branch of edits made for no task (history)

sandboxVars == <<base, log, rows, suite, task, pending, edits, slow, untold>>

Paths == {"target", "test", "moved", "notes"}

NoEdit == [op |-> "none"]

Tip == IF log = <<>> THEN base ELSE Last(log)

\* The tree before commit k of the branch.
Before(k) == IF k = 1 THEN base ELSE log[k - 1]

\* The row of one path of a commit.  The code keeps the difference to main; the
\* edit, the file as the commit left it and the number of the commit are history.
Row(type, path, edit, tree, k) ==
    [type |-> type, path |-> path, edit |-> edit, file |-> tree[path], commit |-> k, status |-> "applied"]

\* The paths a row tells of: a rename names the old one too.
Told(row) == IF row.type = "rename" THEN {"target", "moved"} ELSE {row.path}

\* The rows marked applied, by position.
Applied == {i \in DOMAIN rows : rows[i].status = "applied"}

SandboxInit ==
    /\ \E source \in Sources : base = [p \in Paths |-> IF p = "target" THEN source ELSE NoFile]
    /\ log = <<>> /\ rows = <<>>
    /\ suite \in Suites
    /\ task = "open" /\ pending = NoEdit /\ edits = 0 /\ slow = 0 /\ untold = {}

-----------------------------------------------------------------------------
(* The implementation stage of a run. *)

\* The trees a specification leads to, each with its row: DELETE, RENAME and
\* MODIFY of what is on main, CREATE of what is not there.
Plans(spec) ==
    LET has == base["target"] # NoFile
        deleted == [base EXCEPT !["target"] = NoFile]
        moved == [base EXCEPT !["target"] = NoFile, !["moved"] = base["target"]]
    IN  CASE has /\ spec.op = "delete_file" -> {<<deleted, Row("delete", "target", spec, deleted, 1)>>}
          [] has /\ spec.op = "rename_file" -> {<<moved, Row("rename", "moved", spec, moved, 1)>>}
          [] has /\ spec.op \notin {"delete_file", "rename_file"} ->
               {<<tree, Row("modify", "target", spec, tree, 1)>> :
                   tree \in {[base EXCEPT !["target"] = file] : file \in Transform(base["target"], spec)}}
          [] OTHER ->
               {<<tree, Row("create", "target", spec, tree, 1)>> :
                   tree \in {[base EXCEPT !["target"] = file] : file \in spec.content}}

Untouched == log = <<>> /\ rows = <<>> /\ edits = 0

\* plan_and_apply.  git refuses to commit nothing; an edit that is refused and
\* a commit that is refused fail the task with nothing on the branch.
PlanAndApply ==
    /\ task = "open" /\ Untouched
    /\ \E spec \in Specs :
          \/ \E plan \in Plans(spec) :
                /\ plan[1] # base
                /\ log' = <<plan[1]>>
                /\ rows' = <<plan[2]>>
                /\ task' = "implemented"
          \/ /\ Plans(spec) = {} \/ \E plan \in Plans(spec) : plan[1] = base
             /\ task' = "failed"
             /\ UNCHANGED <<log, rows>>
    /\ UNCHANGED <<base, suite, pending, edits, slow, untold>>

\* apply: the generated module and its tests in one commit, the notes in a
\* second, and a row for each of the three files.
ApplyGenerated ==
    /\ task = "open" /\ Untouched
    /\ base["target"] = NoFile
    /\ \E draft \in Drafts :
          LET code == [base EXCEPT !["target"] = draft.code, !["test"] = draft.test]
              all == [code EXCEPT !["notes"] = draft.notes]
          IN  /\ log' = <<code, all>>
              /\ rows' = <<Row("create", "target", NoEdit, code, 1), Row("create", "test", NoEdit, code, 1),
                          Row("create", "notes", NoEdit, all, 2)>>
    /\ task' = "implemented"
    /\ UNCHANGED <<base, suite, pending, edits, slow, untold>>

-----------------------------------------------------------------------------
(* CodeMaintenanceService.modify_file. *)

ChangeType(op) == IF op = "remove_symbol" THEN "delete" ELSE "modify"

\* Up to the commit.  A refused edit, a missing file and an edit that changes
\* nothing end here and leave everything as it was.
ModifyFile(path, edit) ==
    /\ pending = NoEdit
    /\ edits < MaxEdits
    /\ Tip[path] # NoFile
    /\ \E file \in Transform(Tip[path], edit) :
          /\ file # Tip[path]
          /\ log' = Append(log, [Tip EXCEPT ![path] = file])
    /\ pending' = [op |-> edit.op, edit |-> edit, path |-> path, checkpoint |-> Len(log)]
    /\ edits' = edits + 1
    /\ UNCHANGED <<base, rows, suite, task, slow, untold>>

\* What the tests of a tree import from the target: those on main and the
\* generated ones.
Imported(tree) ==
    suite \cup IF tree["test"] = NoFile THEN {}
              ELSE {item.name : item \in {i \in ToSet(tree["test"].items) : i.kind = "import"}}

\* The tests are collected when every name they import is there.
Collected(tree) ==
    /\ tree["target"] # NoFile /\ Valid(tree["target"])
    /\ tree["test"] # NoFile => Valid(tree["test"])
    /\ Imported(tree) \subseteq Bound(tree["target"].items)

\* A test fails when the definition it calls, the last of its name, does not
\* do what it asks or uses a name the module does not have.
Fails(items, n) ==
    LET k == SelectLastInSeq(items, LAMBDA item : item.name = n)
    IN  ~items[k].sound \/ ~(items[k].uses \subseteq Bound(items))

\* The outcome of the pytest run.
PytestRun(tree) ==
    IF suite = {} /\ tree["test"] = NoFile THEN "no tests"
    ELSE IF ~Collected(tree) THEN "error"
    ELSE IF \E n \in Imported(tree) : Fails(tree["target"].items, n) THEN "failed" ELSE "passed"

\* Mutant: counts only the runs that were not collected.
CountsErrors(outcome) == outcome = "error"

\* failed_count is read off the words "n failed": an error of collection and
\* a run that is cut off have none.
CountsFailures(outcome) == outcome = "failed"

\* py_compile, of Python files only.
CompileFails(file) == file.python /\ ~Parses(file)

\* _record: an edit made for no task leaves no row.
Recorded(status) ==
    \/ /\ rows' = Append(rows, [Row(ChangeType(pending.op), pending.path, pending.edit, Tip, Len(log))
                                   EXCEPT !.status = status])
       /\ UNCHANGED untold
    \/ /\ Cardinality(untold) < MaxUntold
       /\ untold' = IF status = "applied" THEN untold \cup {Len(log)} ELSE untold
       /\ UNCHANGED rows

\* Mutant: resets to main instead of the checkpoint.
RollbackToMain(checkpoint) == log' = <<>>

Rollback(checkpoint) == log' = SubSeq(log, 1, checkpoint)

\* The test gate: keep, or reset to the checkpoint.
Judge ==
    /\ pending # NoEdit
    /\ \E outcome \in {PytestRun(Tip), "cut off"} :
          /\ outcome = "cut off" => PytestRun(Tip) # "no tests" /\ slow < MaxSlow
          /\ slow' = IF outcome = "cut off" THEN slow + 1 ELSE slow
          /\ IF CountsFailures(outcome) \/ CompileFails(Tip[pending.path])
             THEN Rollback(pending.checkpoint) /\ Recorded("reverted")
             ELSE UNCHANGED log /\ Recorded("applied")
    /\ pending' = NoEdit
    /\ UNCHANGED <<base, suite, task, edits>>

SandboxNext ==
    \/ PlanAndApply
    \/ ApplyGenerated
    \/ \E path \in Paths : \E edit \in Edits : ModifyFile(path, edit)
    \/ Judge

SandboxSpec == SandboxInit /\ [][SandboxNext]_sandboxVars

-----------------------------------------------------------------------------
(* Properties. *)

\* Between edits the rows marked applied tell the branch: each is of a commit on
\* it, with what that commit left at its path, no two are of the same path of one
\* commit, and whatever a commit has changed there is a row of - unless the edit
\* was made for no task.  The desk shows the rows, the pipeline builds the branch.
RowsTellBranch ==
    pending = NoEdit =>
        /\ \A i \in Applied : /\ rows[i].commit \in DOMAIN log
                              /\ log[rows[i].commit][rows[i].path] = rows[i].file
        /\ \A i, j \in Applied : rows[i].commit = rows[j].commit /\ rows[i].path = rows[j].path => i = j
        /\ \A k \in DOMAIN log \ untold, p \in Paths :
              log[k][p] # Before(k)[p] => \E i \in Applied : rows[i].commit = k /\ p \in Told(rows[i])

\* Between edits nothing stays on the branch that the tests have failed or that
\* does not compile, as long as the sandbox started from what passes and no test
\* run was cut off: an edit that is red goes, and what it went back to was green.
FailuresAreUndone ==
    pending = NoEdit /\ slow = 0 /\ task # "implemented" =>
        /\ PytestRun(base) # "failed" => PytestRun(Tip) # "failed"
        /\ \A p \in Paths : Tip[p] # NoFile /\ Parses(base[p]) => ~CompileFails(Tip[p])

\* What the commit of row i did to the file of the row.
Old(i) == Before(rows[i].commit)[rows[i].path].items
New(i) == log[rows[i].commit][rows[i].path].items

Mentioned(items) == UNION {{item.name} \cup item.methods \cup item.uses : item \in ToSet(items)}

\* Both texts are the same around the items from .. to of the old one, which n
\* others have replaced in the new one.
SameAround(old, new, from, to, n) ==
    /\ \A k \in 1..(from - 1) : k \in DOMAIN new /\ new[k] = old[k]
    /\ \A k \in (to + 1)..Len(old) :
          LET moved == k + n - (to + 1 - from) IN moved \in DOMAIN new /\ new[moved] = old[k]

\* The new text is the old one with one block more inside and one behind, of
\* the snippet or of imports.
OnlyAdds(old, new, edit) ==
    \E at \in 0..Len(old), n \in 0..Len(new) :
        /\ SameAround(old, new, at + 1, at, n)
        /\ \A k \in ((at + 1)..(at + n)) \cup ((Len(old) + n + 1)..Len(new)) :
              new[k] \in ToSet(edit.snippet) \/ new[k].kind = "import"

\* Both texts are the same around one definition of the edit's name in the old
\* one and the snippet, or nothing, in the new one.
OnlyExchanges(old, new, edit) ==
    \E k \in DOMAIN old :
        LET n == Len(new) + 1 - Len(old)
        IN  /\ IsSymbol(old[k]) /\ old[k].name = edit.name
            /\ n = IF edit.op = "remove_symbol" THEN 0 ELSE Len(edit.snippet)
            /\ SameAround(old, new, k, k, n)
            /\ \A j \in 1..n : new[k - 1 + j] = edit.snippet[j]

\* Only the class gets a method, and only the one.
OnlyExtends(old, new, edit) ==
    /\ DOMAIN old = DOMAIN new
    /\ \A k \in DOMAIN old :
          \/ old[k] = new[k]
          \/ /\ old[k].kind = "class" /\ old[k].name = edit.name
             /\ [new[k] EXCEPT !.methods = @ \ {edit.new}] = old[k]

\* Renaming back gives the old text.
IsReversible(old, new, edit) == [k \in DOMAIN new |-> RenamedItem(new[k], edit.new, edit.name)] = old

KeepsRest(old, new, edit) ==
    CASE edit.op = "add_method" -> OnlyExtends(old, new, edit)
      [] edit.op \in {"replace_function", "remove_symbol"} -> OnlyExchanges(old, new, edit)
      [] edit.op = "rename_symbol" -> edit.new \notin Mentioned(old) => IsReversible(old, new, edit)
      [] OTHER -> OnlyAdds(old, new, edit)

\* The rows of edits of a file: those of the two editing services.
Edited == {i \in Applied : rows[i].edit.op \in Operations /\ rows[i].file # NoFile
                            /\ Before(rows[i].commit)[rows[i].path] # NoFile}

\* Every edit on the branch has kept what it was not about: all other items are
\* there, unchanged and in order, and a rename to a name the file did not
\* mention loses no distinction between names.  Two cases are left out because
\* the engine does not keep the rest there: an anchor inside an item of a
\* Python file, and an anchor on a last line without a newline.
RestIsKept ==
    pending = NoEdit =>
        \A i \in Edited :
            \/ KeepsRest(Old(i), New(i), rows[i].edit)
            \/ ~Parses(log[rows[i].commit][rows[i].path])
            \/ /\ ~Before(rows[i].commit)[rows[i].path].ended
               /\ rows[i].edit.op = "insert_after_anchor"

Defines(item, n) == IsSymbol(item) /\ item.name = n

DefinedTwice(items, n) ==
    \E j, k \in DOMAIN items : j # k /\ Defines(items[j], n) /\ Defines(items[k], n)

\* The engine looks for the name of the function it adds; what else the snippet
\* defines, and whether it does so twice, it does not look at.
Unseen(edit, n) ==
    /\ edit.op = "add_function"
    /\ \/ n # edit.name /\ \E k \in DOMAIN edit.snippet : Defines(edit.snippet[k], n)
       \/ DefinedTwice(edit.snippet, n)

\* Adding a function, adding a method, removing and renaming never leave a name
\* defined twice that was defined once: the later definition would silently
\* replace the earlier one.
NoSecondDefinition ==
    pending = NoEdit =>
        \A i \in Edited : \A n \in Names :
            LET edit == rows[i].edit
                before == IF edit.op = "rename_symbol" /\ n = edit.new THEN edit.name ELSE n
            IN  /\ edit.op \in {"add_function", "add_method", "remove_symbol", "rename_symbol"}
                /\ DefinedTwice(New(i), n)
                => DefinedTwice(Old(i), before) \/ Unseen(edit, n)

\* An edit changes what it is about and nothing else.
EditsAreLocal == RestIsKept /\ NoSecondDefinition
=============================================================================
