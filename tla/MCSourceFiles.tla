----------------------------- MODULE MCSourceFiles -----------------------------
(***************************************************************************)
(* A small file in each of the languages and a page with scripts.  A       *)
(* developer writes classes into classes, into methods and into            *)
(* expressions, functions into functions, and calls into all of them.      *)
(***************************************************************************)
EXTENDS SourceFiles

Class(type, name, annotation, route) ==
    [type |-> type, name |-> name, bases |-> <<>>, generics |-> <<>>, implements |-> <<>>,
     annotation |-> annotation, suffix |-> None, route |-> route]

Method(type, name) == [type |-> type, name |-> name, signature |-> "()", route |-> None]

Declarator(name, value) ==
    [type |-> "variable_declarator", name |-> name, signature |-> "()", value |-> value]

Call(type, object, name) == [type |-> type, object |-> object, name |-> name, route |-> None]
Field(type, name, of)    == [type |-> type, name |-> name, of |-> of]
Plain(type)              == [type |-> type]

Route(verb, part) == [verb |-> verb, path |-> <<part>>]

JavaNodes ==
    {Class("class_declaration", "A", "Controller", Route("REQUEST", "a")),
     Class("interface_declaration", "B", None, None), Plain("enum_declaration"),
     [Method("method_declaration", "m") EXCEPT !.route = Route("GET", "m")],
     Method("constructor_declaration", "A"), Plain("other"),
     Call("method_invocation", <<"this", "b">>, "m"), Field("field_declaration", "b", "B"),
     [type |-> "package_declaration", name |-> "app"]}

ScriptNodes ==
    {Class("class_declaration", "A", None, None), Method("method_definition", "m"),
     Method("function_declaration", "m"), Declarator("m", "arrow_function"),
     [Call("call_expression", <<"fetch">>, "m") EXCEPT !.route = Route("GET", "m")]}

TypedNodes ==
    {Class("class_declaration", "A", None, None), Class("interface_declaration", "A", None, None),
     Method("method_definition", "constructor"), Field("public_field_definition", "b", "B"),
     Method("function_declaration", "m"), Declarator("m", "function_expression"),
     Plain("export_statement"), Call("call_expression", <<"this", "b">>, "m")}

PythonNodes ==
    {Class("class_definition", "A", None, None), Method("function_definition", "__init__"),
     Method("function_definition", "m"), Plain("decorated_definition"),
     Field("self_assignment", "b", "B"), Field("annotation", "b", "C"),
     Call("call", <<"self", "b">>, "m")}

PageNodes ==
    {Plain("script_element"), Method("function_declaration", "m"), Call("call_expression", <<>>, "m")}

MCPaths == {"A.java", "a.js", "a.ts", "a.py", "a.html"}

MCSuffixOf ==
    [p \in MCPaths |-> CASE p = "A.java" -> ".java" [] p = "a.js" -> ".js" [] p = "a.ts" -> ".ts"
                         [] p = "a.py" -> ".py" [] p = "a.html" -> ".html"]

MCStemOf == [p \in MCPaths |-> IF p = "a.html" THEN "a.html" ELSE "a"]

MCKeywordLayer == [p \in MCPaths |-> None]

MCNodes ==
    [s \in {MCSuffixOf[p] : p \in MCPaths} |->
        CASE s = ".java" -> JavaNodes [] s = ".js" -> ScriptNodes [] s = ".ts" -> TypedNodes
          [] s = ".py" -> PythonNodes [] s = ".html" -> PageNodes]

\* Which node has which below it.
JavaGrammar ==
    LET types == {"class_declaration", "interface_declaration", "enum_declaration"}
        code  == {"method_declaration", "constructor_declaration"}
    IN  ({"program"} \X (types \cup {"package_declaration"}))
        \cup (types \X (types \cup {"method_declaration", "field_declaration"}))
        \cup ({"class_declaration", "enum_declaration"} \X {"constructor_declaration"})
        \cup (code \X {"class_declaration", "method_invocation", "other"})
        \* the body of an anonymous class
        \cup ({"other"} \X {"class_declaration", "method_declaration", "field_declaration"})

ScriptGrammar ==
    LET code == {"program", "function_declaration", "variable_declarator", "method_definition"}
    IN  (code \X {"class_declaration", "function_declaration", "variable_declarator",
                  "call_expression"})
        \cup {<<"class_declaration", "method_definition">>}

TypedGrammar ==
    LET code == {"program", "function_declaration", "variable_declarator", "method_definition"}
        declarations == {"class_declaration", "interface_declaration", "function_declaration",
                         "variable_declarator"}
    IN  (code \X (declarations \cup {"call_expression"}))
        \cup ({"program"} \X {"export_statement"}) \cup ({"export_statement"} \X declarations)
        \cup ({"class_declaration"} \X {"method_definition", "public_field_definition"})

PythonGrammar ==
    LET code == {"program", "function_definition", "class_definition"}
        declarations == {"class_definition", "function_definition"}
    IN  (code \X (declarations \cup {"decorated_definition", "call"}))
        \cup ({"decorated_definition"} \X (declarations \cup {"call"}))
        \cup {<<"class_definition", "annotation">>, <<"function_definition", "self_assignment">>}

PageGrammar ==
    LET code == {"script_element", "function_declaration"} IN
    ({"program"} \X {"script_element"})
    \cup (code \X {"function_declaration", "call_expression"})

MCGrammar ==
    [s \in DOMAIN MCNodes |->
        CASE s = ".java" -> JavaGrammar [] s = ".js" -> ScriptGrammar [] s = ".ts" -> TypedGrammar
          [] s = ".py" -> PythonGrammar [] s = ".html" -> PageGrammar]

\* Two scripts with a function each, of which one calls.
MCMaxNodes == [s \in DOMAIN MCNodes |-> IF s = ".html" THEN 5 ELSE 4]

\* The method m of a class A.
MCOldMethods ==
    [p \in MCPaths |-> IF p \in {"A.java", "a.js"} THEN {<<"Method", p, "class", "A", "m", "()">>} ELSE {}]
================================================================================
