-------------------------- MODULE CodeModification --------------------------
(***************************************************************************)
(* The code modification engine (services/dev_modification.py): functions  *)
(* from the text of a file and an edit to the new text.                    *)
(*                                                                         *)
(* A text is the sequence of its top-level items: the definitions of a     *)
(* Python module, the lines of any other file.  An item has the names it   *)
(* mentions and, for a definition, whether its body does what the tests    *)
(* ask.  Blank lines, decorators and indentation are left out; that the    *)
(* last line may lack its newline is kept, because two operations depend   *)
(* on it.  An operation is the set of texts it can return: none when it    *)
(* raises ModificationError.                                               *)
(***************************************************************************)
EXTENDS Naturals, FiniteSets, SequencesExt

CONSTANT Names   \* the identifiers of the program

ItemKinds == {"doc", "import", "assign", "def", "class", "line", "bracket", "broken"}

Item == [kind: ItemKinds, name: Names, methods: SUBSET Names, uses: SUBSET Names, sound: BOOLEAN]

\* A text; ended: its last line has a newline.
File == [python: BOOLEAN, items: Seq(Item), ended: BOOLEAN]

\* What an edit says: the operation and its parameters, or the content of a file.
Change == [op: STRING, name: Names, new: Names, snippet: Seq(Item),
           imports: Seq(Names), nth: Nat, content: SUBSET File]

Operations == {"add_function", "add_method", "replace_function", "remove_symbol",
               "rename_symbol", "insert_after_anchor", "insert_before_anchor"}

IsSymbol(item) == item.kind \in {"def", "class"}

Whole(items) == \A k \in DOMAIN items : items[k].kind \notin {"bracket", "broken"}

Parses(file) == Whole(file.items)

\* ast.parse accepts the text; it accepts no file of another language.
Valid(file) == file.python /\ Parses(file)

\* The position of the first top-level function or class of a name, or 0.
TopLevel(items, n) == SelectInSeq(items, LAMBDA item : IsSymbol(item) /\ item.name = n)

\* The names the module can use: imported, assigned or defined at its top level.
Bound(items) == {item.name : item \in {i \in ToSet(items) : i.kind \in {"import", "assign", "def", "class"}}}

Cut(items, from, to, piece) ==
    SubSeq(items, 1, from - 1) \o piece \o SubSeq(items, to + 1, Len(items))

Finalized(items) == [python |-> TRUE, items |-> items, ended |-> TRUE]

\* New imports go behind the last one, else behind the docstring, else on top.
ImportLine(items) ==
    LET last == SelectLastInSeq(items, LAMBDA item : item.kind = "import")
    IN  IF last > 0 THEN last
        ELSE IF items # <<>> /\ items[1].kind = "doc" THEN 1 ELSE 0

Import(n) == [kind |-> "import", name |-> n, methods |-> {}, uses |-> {}, sound |-> TRUE]

\* Those that are not there yet, in their order.
NewImports(items, imports) ==
    LET new == {k \in DOMAIN imports : Import(imports[k]) \notin ToSet(items)}
    IN  [r \in 1..Cardinality(new) |-> imports[CHOOSE k \in new : Cardinality({j \in new : j <= k}) = r]]

\* An import behind a last line without a newline is written onto that line,
\* the result does not parse and the edit is refused.
MergeImports(file, imports) ==
    LET new == NewImports(file.items, imports)
        at == ImportLine(file.items)
        block == [k \in DOMAIN new |-> Import(new[k])]
    IN  IF new = <<>> THEN {file}
        ELSE IF at > 0 /\ at = Len(file.items) /\ ~file.ended THEN {}
        ELSE {Finalized(Cut(file.items, at + 1, at, block))}

AddFunction(file, edit) ==
    IF /\ Valid(file) /\ Whole(edit.snippet)
       /\ \E k \in DOMAIN edit.snippet : edit.snippet[k].kind = "def" /\ edit.snippet[k].name = edit.name
       /\ TopLevel(file.items, edit.name) = 0
    THEN {Finalized(merged.items \o edit.snippet) : merged \in MergeImports(file, edit.imports)}
    ELSE {}

\* edit.name is the class and edit.new the method.
AddMethod(file, edit) ==
    LET k == TopLevel(file.items, edit.name)
    IN  IF Valid(file) /\ k > 0 /\ file.items[k].kind = "class" /\ edit.new \notin file.items[k].methods
        THEN {Finalized([file.items EXCEPT ![k].methods = @ \cup {edit.new}])}
        ELSE {}

\* The name the snippet defines is not looked at.
ReplaceFunction(file, edit) ==
    LET k == TopLevel(file.items, edit.name)
    IN  IF Valid(file) /\ Whole(edit.snippet) /\ k > 0 /\ file.items[k].kind = "def"
        THEN {Finalized(Cut(file.items, k, k, edit.snippet))}
        ELSE {}

\* Mutant: swallows the item that follows as well.
RemoveSymbolGreedy(file, edit) ==
    LET k == TopLevel(file.items, edit.name)
    IN  IF Valid(file) /\ k > 0 THEN {Finalized(Cut(file.items, k, k + 1, <<>>))} ELSE {}

RemoveSymbol(file, edit) ==
    LET k == TopLevel(file.items, edit.name)
    IN  IF Valid(file) /\ k > 0 THEN {Finalized(Cut(file.items, k, k, <<>>))} ELSE {}

Renamed(n, old, new) == IF n = old THEN new ELSE n

\* Every occurrence that no dot precedes: definitions, methods and uses.
RenamedItem(item, old, new) ==
    [item EXCEPT !.name = Renamed(@, old, new),
                 !.methods = {Renamed(n, old, new) : n \in @},
                 !.uses = {Renamed(n, old, new) : n \in @}]

\* The proof by AST that follows the substitution (the old symbol gone, the
\* new one there) can only confirm it and is left out.
RenameSymbol(file, edit) ==
    IF /\ Valid(file)
       /\ TopLevel(file.items, edit.name) > 0
       /\ TopLevel(file.items, edit.new) = 0
    THEN {Finalized([k \in DOMAIN file.items |-> RenamedItem(file.items[k], edit.name, edit.new)])}
    ELSE {}

Balanced(snippet) == \A k \in DOMAIN snippet : snippet[k].kind # "bracket"

\* The lines the anchor's requested occurrence is on: one, or none.
AnchorLines(items, edit) ==
    {k \in DOMAIN items : /\ items[k].name = edit.name
                          /\ Cardinality({j \in 1..k : items[j].name = edit.name}) = edit.nth}

\* A text that no longer parses, whatever it is.
Garbled(file) ==
    [file EXCEPT !.items = << [kind |-> "broken", name |-> @[1].name, methods |-> {}, uses |-> {}, sound |-> FALSE] >>]

\* The snippet behind item k of the text.  Nothing is added between an
\* unterminated last line and the snippet: its first line becomes one with it.
InsertedAfter(file, k, snippet) ==
    IF k < Len(file.items) \/ file.ended
    THEN [file EXCEPT !.items = Cut(@, k + 1, k, snippet)]
    ELSE [file EXCEPT !.items = IF snippet = <<>> THEN @
                                ELSE Cut(@, k, k, <<[file.items[k] EXCEPT !.uses = @ \cup {Head(snippet).name}]>> \o Tail(snippet)),
                      !.ended = TRUE]

InsertedBefore(file, k, snippet) == [file EXCEPT !.items = Cut(@, k, k - 1, snippet)]

\* In a Python file the line of the anchor may lie inside an item, and nothing
\* looks whether the result parses.
Anchored(file, edit) ==
    IF ~Balanced(edit.snippet) THEN {}
    ELSE UNION {{IF edit.op = "insert_after_anchor" THEN InsertedAfter(file, k, edit.snippet)
                                                    ELSE InsertedBefore(file, k, edit.snippet)}
                \cup IF file.python THEN {Garbled(file)} ELSE {}
                : k \in AnchorLines(file.items, edit)}

\* CodeMaintenanceService._apply_edit and ModificationPlanner._transform.
Transform(file, edit) ==
    CASE edit.op = "add_function"     -> AddFunction(file, edit)
      [] edit.op = "add_method"       -> AddMethod(file, edit)
      [] edit.op = "replace_function" -> ReplaceFunction(file, edit)
      [] edit.op = "remove_symbol"    -> RemoveSymbol(file, edit)
      [] edit.op = "rename_symbol"    -> RenameSymbol(file, edit)
      [] OTHER                        -> Anchored(file, edit)
=============================================================================
