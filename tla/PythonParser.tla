------------------------------ MODULE PythonParser ------------------------------
(***************************************************************************)
(* parsers/languages/python.py: the classes of a Python file, and a module *)
(* class for the functions at the top of it.  A decorated_definition holds *)
(* its decorators, which are no part of the function, and the definition.  *)
(* An annotation is x: Type in the body of a class, a self_assignment      *)
(* self.x = Type(), which is a call as well.                               *)
(***************************************************************************)
EXTENDS SyntaxTrees, SequencesExt

classify_layer(node, pathLayer) == FirstLayer(<<pathLayer, node.suffix>>, "Module")

extract_imports(f) ==
    Imports(f, OfType(f, DOMAIN f, {"import_statement", "import_from_statement"}))

\* _extract_receiver.
extract_receiver(object) == ReceiverOf(object, "self")

extract_invoked_names(f, i) ==
    LET calls == OfType(f, Below(f, i), {"call"})
        made  == OfType(f, Below(f, i), {"self_assignment"})
    IN  {[receiver |-> extract_receiver(f[j].node.object), name |-> f[j].node.name] : j \in calls}
        \cup {[receiver |-> None, name |-> f[j].node.of] : j \in made}

\* _unwrap_decorated, of every child.
Functions(f, S) == OfType(f, Unwrapped(f, S, "decorated_definition"), {"function_definition"})

\* Annotated fields first; then the attributes of self to which the first __init__
\* assigns a new object of a class.
extract_field_definitions(f, i) ==
    LET annotated == OfType(f, Children(f, i), {"annotation"})
        inits     == {j \in Functions(f, Children(f, i)) : f[j].node.name = "__init__"}
        assigned  == IF inits = {} THEN {}
                     ELSE OfType(f, Below(f, First(inits)), {"self_assignment"})
        seen      == {f[j].node.name : j \in annotated}
    IN  FieldTypes(f, annotated \cup {j \in assigned : f[j].node.name \notin seen})

MethodResult(f, i, class) ==
    LET node == f[i].node IN
    [name |-> IF node.name = "__init__" THEN "new " \o class ELSE node.name,
     signature |-> node.signature,
     start_line |-> StartLine(f, i),
     text |-> Text(f, i),
     api_mapping |-> None,
     invoked_calls |-> extract_invoked_names(f, i),
     http_calls |-> {}]

\* The first base is what the class extends, the others it implements.
ClassResult(f, i, pathLayer) ==
    LET node == f[i].node IN
    [name |-> node.name, qualified_name |-> node.name, kind |-> "class",
     layer |-> classify_layer(node, pathLayer),
     extends |-> FirstOf(node.bases), generics |-> <<>>,
     implements |-> IF node.bases = <<>> THEN <<>> ELSE Tail(node.bases),
     fields |-> extract_field_definitions(f, i),
     methods |-> {MethodResult(f, j, node.name) : j \in Functions(f, Children(f, i))}]

ModuleFunctions(f) == Functions(f, TopLevel(f))

ModuleName(stem) == stem \o "$module"

ModuleClass(f, stem, pathLayer) ==
    LET name == ModuleName(stem) IN
    [name |-> name, qualified_name |-> name, kind |-> "class",
     layer |-> FirstLayer(<<pathLayer>>, "Module"),
     extends |-> None, generics |-> <<>>, implements |-> <<>>, fields |-> <<>>,
     methods |-> {MethodResult(f, i, name) : i \in ModuleFunctions(f)}]

parse_python_file(f, stem, pathLayer) ==
    [package |-> None,
     imports |-> extract_imports(f),
     classes |-> {ClassResult(f, i, pathLayer) : i \in OfType(f, DOMAIN f, {"class_definition"})}
                 \cup IF ModuleFunctions(f) = {} THEN {} ELSE {ModuleClass(f, stem, pathLayer)}]
================================================================================
