---------------------------- MODULE JavaScriptParser ----------------------------
(***************************************************************************)
(* parsers/languages/javascript.py: the classes of a JavaScript file, and  *)
(* one more for its functions, the module class.                           *)
(***************************************************************************)
EXTENDS SyntaxTrees, SequencesExt

ClassTypes         == {"class_declaration"}
FunctionValueTypes == {"arrow_function", "function_expression"}

classify_layer(node, pathLayer) ==
    FirstLayer(<<pathLayer, node.suffix>>, "Module")

\* Import statements stand anywhere.
extract_imports(f) == Imports(f, OfType(f, DOMAIN f, {"import_statement"}))

extract_receiver(object) == ReceiverOf(object, "this")

\* A call is reported with every function it is inside of.
extract_invoked_names(f, i) ==
    LET calls == OfType(f, Below(f, i), {"call_expression"}) IN
    {[receiver |-> extract_receiver(f[j].node.object), name |-> f[j].node.name] : j \in calls}

extract_http_calls(f, i) == Requests(f, OfType(f, Below(f, i), {"call_expression"}))

\* A method, a function or the declarator of one.
MethodResult(f, i, class) ==
    LET node == f[i].node IN
    [name |-> IF node.type = "method_definition" /\ node.name = "constructor"
              THEN "new " \o class ELSE node.name,
     signature |-> node.signature,
     start_line |-> StartLine(f, i),
     text |-> Text(f, i),
     api_mapping |-> None,
     invoked_calls |-> extract_invoked_names(f, i),
     http_calls |-> extract_http_calls(f, i)]

Methods(f, i) == OfType(f, Children(f, i), {"method_definition"})

ClassResult(f, i, pathLayer) ==
    LET node == f[i].node IN
    [name |-> node.name, qualified_name |-> node.name, kind |-> "class",
     layer |-> classify_layer(node, pathLayer),
     extends |-> FirstOf(node.bases), generics |-> <<>>, implements |-> <<>>,
     fields |-> FieldTypes(f, OfType(f, Children(f, i), {"field_definition"})),
     methods |-> {MethodResult(f, j, node.name) : j \in Methods(f, i)}]

\* A function declaration, or a declarator whose value is a function.
IsFunction(node) ==
    \/ node.type = "function_declaration"
    \/ node.type = "variable_declarator" /\ node.value \in FunctionValueTypes

\* _collect_module_functions: the named functions outside the classes, however deep.
\* An export statement is no obstacle.
ModuleFunctions(f) == {i \in Walk(f, DOMAIN f, ClassTypes) : IsFunction(f[i].node)}

\* Mutant: a number keeps the module class apart from a class of the file.
CountedName(f, name) == name \o "$module" \o ToString(Cardinality(OfType(f, DOMAIN f, ClassTypes)))

ModuleName(f, name) == name \o "$module"

\* _build_module_class_result; stem is the name of the file.
ModuleClass(f, stem, pathLayer) ==
    LET name == ModuleName(f, stem) IN
    [name |-> name, qualified_name |-> name, kind |-> "class",
     layer |-> FirstLayer(<<pathLayer>>, "Module"),
     extends |-> None, generics |-> <<>>, implements |-> <<>>, fields |-> <<>>,
     methods |-> {MethodResult(f, i, name) : i \in ModuleFunctions(f)}]

parse_javascript_file(f, stem, pathLayer) ==
    [package |-> None,
     imports |-> extract_imports(f),
     classes |-> {ClassResult(f, i, pathLayer) : i \in OfType(f, DOMAIN f, ClassTypes)}
                 \cup IF ModuleFunctions(f) = {} THEN {} ELSE {ModuleClass(f, stem, pathLayer)}]
================================================================================
