---------------------------- MODULE TypeScriptParser ----------------------------
(***************************************************************************)
(* parsers/languages/typescript.py: classes, interfaces without members,   *)
(* and a module class for the functions at the top of the file.  The       *)
(* parser of JavaScript is repeated there, not used; the classes declared  *)
(* abstract are another type of node, which nothing asks for.              *)
(***************************************************************************)
EXTENDS SyntaxTrees, SequencesExt

FunctionValueTypes == {"arrow_function", "function_expression"}

classify_layer(node, pathLayer) == FirstLayer(<<pathLayer, node.suffix>>, "Module")

extract_imports(f) == Imports(f, OfType(f, DOMAIN f, {"import_statement"}))

extract_receiver(object) == ReceiverOf(object, "this")

extract_invoked_names(f, i) ==
    LET calls == OfType(f, Below(f, i), {"call_expression"}) IN
    {[receiver |-> extract_receiver(f[j].node.object), name |-> f[j].node.name] : j \in calls}

extract_http_calls(f, i) == Requests(f, OfType(f, Below(f, i), {"call_expression"}))

\* A field counts when its type is written.
extract_field_definitions(f, i) ==
    LET typed == {j \in OfType(f, Children(f, i), {"public_field_definition"}) :
                     f[j].node.of # None}
    IN  FieldTypes(f, typed)

MethodResult(f, i, class) ==
    LET node == f[i].node IN
    [name |-> IF node.type = "method_definition" /\ node.name = "constructor"
              THEN "new " \o class ELSE node.name,
     signature |-> node.signature,
     start_line |-> StartLine(f, i),
     text |-> Text(f, i),
     api_mapping |-> None,
     invoked_calls |-> extract_invoked_names(f, i),
     http_calls |-> extract_http_calls(f, i)]

Methods(f, i) == OfType(f, Children(f, i), {"method_definition"})

ClassResult(f, i, pathLayer) ==
    LET node == f[i].node IN
    [name |-> node.name, qualified_name |-> node.name, kind |-> "class",
     layer |-> classify_layer(node, pathLayer),
     extends |-> FirstOf(node.bases), generics |-> node.generics,
     implements |-> node.implements,
     fields |-> extract_field_definitions(f, i),
     methods |-> {MethodResult(f, j, node.name) : j \in Methods(f, i)}]

\* The first base of an interface is what it extends, the others it implements.
InterfaceResult(f, i, pathLayer) ==
    LET node == f[i].node IN
    [name |-> node.name, qualified_name |-> node.name, kind |-> "interface",
     layer |-> classify_layer(node, pathLayer),
     extends |-> FirstOf(node.bases), generics |-> <<>>,
     implements |-> IF node.bases = <<>> THEN <<>> ELSE Tail(node.bases),
     fields |-> <<>>, methods |-> {}]

\* The children of the root, an export opened; a function inside another one is not
\* reported.  A declarator stands where its statement does.
ModuleFunctions(f) ==
    {i \in Unwrapped(f, TopLevel(f), "export_statement") :
        \/ TypeIn(f, i, {"function_declaration"})
        \/ TypeIn(f, i, {"variable_declarator"}) /\ f[i].node.value \in FunctionValueTypes}

ModuleName(stem) == stem \o "$module"

ModuleClass(f, stem, pathLayer) ==
    LET name == ModuleName(stem) IN
    [name |-> name, qualified_name |-> name, kind |-> "class",
     layer |-> FirstLayer(<<pathLayer>>, "Module"),
     extends |-> None, generics |-> <<>>, implements |-> <<>>, fields |-> <<>>,
     methods |-> {MethodResult(f, i, name) : i \in ModuleFunctions(f)}]

parse_typescript_file(f, stem, pathLayer) ==
    [package |-> None,
     imports |-> extract_imports(f),
     classes |-> {ClassResult(f, i, pathLayer) : i \in OfType(f, DOMAIN f, {"class_declaration"})}
                 \cup {InterfaceResult(f, i, pathLayer) :
                          i \in OfType(f, DOMAIN f, {"interface_declaration"})}
                 \cup IF ModuleFunctions(f) = {} THEN {} ELSE {ModuleClass(f, stem, pathLayer)}]
================================================================================
