----------------------------- MODULE SourceParsers -----------------------------
(***************************************************************************)
(* parsers/registry.py: the parser of a suffix; and the part of            *)
(* graph/mappings.py that reads a parsed file alone, up to the records of  *)
(* CodeGraph.                                                              *)
(***************************************************************************)
EXTENDS SyntaxTrees

Java       == INSTANCE JavaParser
JavaScript == INSTANCE JavaScriptParser
TypeScript == INSTANCE TypeScriptParser
Python     == INSTANCE PythonParser
Html       == INSTANCE HtmlParser

\* language_support_for: the parser of suffix s; stem is the name of the file
\* without .js, .jsx, .ts, .tsx or .py.
Parse(s, f, stem, pathLayer) ==
    CASE s = ".java"            -> Java!parse_java_file(f, pathLayer)
      [] s \in {".js", ".jsx"}  -> JavaScript!parse_javascript_file(f, stem, pathLayer)
      [] s \in {".ts", ".tsx"}  -> TypeScript!parse_typescript_file(f, stem, pathLayer)
      [] s = ".py"              -> Python!parse_python_file(f, stem, pathLayer)
      [] s = ".html"            -> Html!parse_html_file(f, stem, pathLayer)

-----------------------------------------------------------------------------
(* _map_file_document: what a class refers to, by name; imports are those  *)
(* of the whole file                                                       *)

References(imports, c) ==
    LET ref(type, n) == [type |-> type, name |-> n, simple |-> n]
        managed == IF c.layer = "Repository" THEN {FirstOf(c.generics)} ELSE {None}
    IN  {[type |-> "IMPORTS", name |-> n.name, simple |-> n.simple] : n \in imports}
        \cup {ref("EXTENDS", n) : n \in {c.extends} \ {None}}
        \cup {ref("IMPLEMENTS", n) : n \in {c.implements[i] : i \in DOMAIN c.implements}}
        \cup {ref("MANAGES", n) : n \in managed \ {None}}

MapFile(result) ==
    [package |-> result.package,
     classes |-> {[name |-> c.name, qualified_name |-> c.qualified_name, kind |-> c.kind,
                   fields |-> c.fields, references |-> References(result.imports, c),
                   methods |-> c.methods] : c \in result.classes}]
================================================================================
