------------------------------- MODULE HtmlParser -------------------------------
(***************************************************************************)
(* parsers/languages/html.py: the scripts of a page, each parsed as a      *)
(* JavaScript file with the number of the script in its name.              *)
(***************************************************************************)
EXTENDS SyntaxTrees, SequencesExt

JavaScript == INSTANCE JavaScriptParser

Scripts(f) == OfType(f, DOMAIN f, {"script_element"})

\* The text inside a script, a file that begins at the script.
Body(f, i) ==
    [n \in 1..Cardinality(Below(f, i)) |->
        [depth |-> f[i + n].depth - f[i].depth - 1, node |-> f[i + n].node]]

\* Mutant: all scripts of a page have one name.
PageName(f, stem, i) == stem

\* enumerate: scripts without a body are counted as well.
ScriptName(f, stem, i) ==
    stem \o "#script" \o ToString(Cardinality({k \in Scripts(f) : k < i}))

ScriptResult(f, stem, i, pathLayer) ==
    JavaScript!parse_javascript_file(Body(f, i), ScriptName(f, stem, i), pathLayer)

\* A script without a body, or with a blank one, is skipped.
parse_html_file(f, stem, pathLayer) ==
    LET results == {ScriptResult(f, stem, i, pathLayer) : i \in {k \in Scripts(f) : Body(f, k) # <<>>}}
    IN  [package |-> None,
         imports |-> UNION {r.imports : r \in results},
         classes |-> UNION {r.classes : r \in results}]
================================================================================
