----------------------------- MODULE MCSandbox -----------------------------
(* Small instances of Sandbox: two Python modules, a file of another       *)
(* language and a target that does not exist yet.                          *)
EXTENDS Sandbox

CONSTANTS f, g, shape, lib

Def(n, uses, sound) == [kind |-> "def", name |-> n, methods |-> {}, uses |-> uses, sound |-> sound]
Class(n, methods, uses) == [kind |-> "class", name |-> n, methods |-> methods, uses |-> uses, sound |-> TRUE]
Plain(kind, n) == [kind |-> kind, name |-> n, methods |-> {}, uses |-> {}, sound |-> TRUE]
Text(python, items, ended) == [python |-> python, items |-> items, ended |-> ended]

\* A documented module, one that is all imports, one without.
Module == Text(TRUE, <<Plain("doc", shape), Def(f, {g}, TRUE), Class(shape, {f}, {}), Def(g, {}, TRUE)>>, TRUE)
Bare == Text(TRUE, <<Plain("import", lib)>>, FALSE)
Page(ended) == Text(FALSE, <<Plain("line", f), Plain("line", g), Plain("line", f)>>, ended)
MCSources == {Module, Bare, Page(TRUE), Page(FALSE), NoFile}

Edit(op, n, new, snippet, imports, nth) ==
    [op |-> op, name |-> n, new |-> new, snippet |-> snippet, imports |-> imports, nth |-> nth, content |-> {}]

MCEdits ==
    {Edit("add_function", n, n, <<Def(m, {lib}, TRUE)>>, imports, 1) : n \in {g, lib}, m \in {g, lib}, imports \in {<<>>, <<lib>>}}
    \cup {Edit("add_function", lib, lib, <<Def(lib, {}, TRUE), Def(g, {}, FALSE), Def(lib, {}, TRUE)>>, <<>>, 1)}
    \cup {Edit("add_method", n, f, <<>>, <<>>, 1) : n \in {shape, g}}
    \cup {Edit("replace_function", n, n, <<Def(m, {}, sound)>>, <<>>, 1) : n \in {f, g}, m \in {f, g}, sound \in BOOLEAN}
    \cup {Edit("remove_symbol", n, n, <<>>, <<>>, 1) : n \in {f, g, shape}}
    \cup {Edit("rename_symbol", n, m, <<>>, <<>>, 1) : n \in {f, g, shape}, m \in {g, lib}}
    \cup {Edit(op, f, f, <<Plain(kind, lib)>>, <<>>, nth) :
             op \in {"insert_after_anchor", "insert_before_anchor"}, kind \in {"line", "bracket"}, nth \in {1, 2}}

MCSpecs ==
    MCEdits \cup {Edit("delete_file", f, f, <<>>, <<>>, 1), Edit("rename_file", f, f, <<>>, <<>>, 1),
                  [Edit("insert_after_anchor", f, f, <<Plain("line", lib)>>, <<>>, 1) EXCEPT !.content = {Module}]}

\* A module of two functions, the tests that import both, and notes.
MCDrafts ==
    {[code |-> Text(TRUE, <<Plain("doc", shape), Def(f, {}, TRUE), Def(g, {f}, TRUE)>>, TRUE),
      test |-> Text(TRUE, <<Plain("import", f), Plain("import", g), Def(shape, {f, g}, TRUE)>>, TRUE),
      notes |-> Text(FALSE, <<Plain("line", f)>>, TRUE)]}

MCNames == {f, g, shape, lib}
MCSuites == {{}, {f, g}}
=============================================================================
