------------------------------- MODULE JavaParser -------------------------------
(***************************************************************************)
(* parsers/languages/java.py: the classes and interfaces of a Java file.   *)
(* An enum, a record and the body of an anonymous class are not among      *)
(* them; a constructor has the name it has in its key.                     *)
(***************************************************************************)
EXTENDS SyntaxTrees, SequencesExt

\* _CLASS_LIKE_TYPES and _MEMBER_TYPES.
ClassLike   == {"class_declaration", "interface_declaration"}
MemberTypes == {"method_declaration", "constructor_declaration"}

InheritanceLayers ==
    [JpaRepository |-> "Repository", CrudRepository |-> "Repository",
     PagingAndSortingRepository |-> "Repository", OncePerRequestFilter |-> "Filter",
     Filter |-> "Filter", HandlerInterceptor |-> "Interceptor",
     ApplicationListener |-> "EventListener", Exception |-> "Exception",
     RuntimeException |-> "Exception"]

\* Annotation, then inheritance, then the name, then the path.
classify_layer(node, pathLayer) ==
    LET targets == <<FirstOf(node.bases)>> \o node.implements
        inherited == [n \in DOMAIN targets |->
                         IF targets[n] \in DOMAIN InheritanceLayers
                         THEN InheritanceLayers[targets[n]] ELSE None]
    IN  FirstLayer(<<node.annotation>> \o inherited \o <<node.suffix, pathLayer>>, "Other")

extract_package(f) ==
    LET found == OfType(f, TopLevel(f), {"package_declaration"}) IN
    IF found = {} THEN None ELSE f[First(found)].node.name

extract_imports(f) == Imports(f, OfType(f, TopLevel(f), {"import_declaration"}))

extract_receiver(object) == ReceiverOf(object, "this")

\* A call in a lambda or an anonymous class is a call of the method around it.
extract_invoked_names(f, i) ==
    LET calls == OfType(f, Below(f, i), {"method_invocation"}) IN
    {[receiver |-> extract_receiver(f[j].node.object), name |-> f[j].node.name] : j \in calls}

\* The path of the class, then that of the method; both are sequences of parts.
ApiMapping(base, route) ==
    [verb |-> route.verb, path |-> (IF base = None THEN <<>> ELSE base.path) \o route.path]

\* Mutant: every method below the class.
AllBelow(f, i) == OfType(f, Below(f, i), MemberTypes)

\* _direct_class_members: the methods a walk comes to that enters no class or
\* interface.  It does enter method bodies.
DirectMembers(f, i) == OfType(f, Walk(f, Below(f, i), ClassLike), MemberTypes)

MethodResult(f, i, class) ==
    LET node == f[i].node
        constructor == node.type = "constructor_declaration"
    IN  [name |-> IF constructor THEN "new " \o class.name ELSE node.name,
         signature |-> node.signature,
         start_line |-> StartLine(f, i),
         text |-> Text(f, i),
         api_mapping |-> IF constructor \/ node.route = None THEN None
                         ELSE ApiMapping(class.route, node.route),
         invoked_calls |-> extract_invoked_names(f, i),
         http_calls |-> {}]

\* The fields of nested classes belong to those.
extract_fields(f, i) ==
    FieldTypes(f, OfType(f, Walk(f, Below(f, i), ClassLike), {"field_declaration"}))

\* Mutant: a nested class has the name of a class of the package.
OwnNameOnly(f, i) == <<f[i].node.name>>

\* Mutant: a nested class is numbered, as in the names of class files.
NumberedName(f, i) == <<f[i].node.name, ToString(Cardinality(OfType(f, 1..i, ClassLike)))>>

\* _enclosing_class_names and the name of the class itself.
NestedName(f, i) ==
    LET chain == SelectSeq([k \in 1..i |-> k],
                           LAMBDA k : TypeIn(f, k, ClassLike) /\ i \in {k} \cup Below(f, k))
    IN  [n \in DOMAIN chain |-> f[chain[n]].node.name]

\* java_qualified_name.
QualifiedName(package, names) ==
    LET parts == IF package = None THEN names ELSE <<package>> \o names IN
    FoldLeft(LAMBDA joined, part : joined \o "." \o part, parts[1], Tail(parts))

ClassResult(f, i, pathLayer) ==
    LET node == f[i].node
    IN  [name |-> node.name,
         qualified_name |-> QualifiedName(extract_package(f), NestedName(f, i)),
         kind |-> IF node.type = "interface_declaration" THEN "interface" ELSE "class",
         layer |-> classify_layer(node, pathLayer),
         fields |-> extract_fields(f, i),
         extends |-> FirstOf(node.bases), generics |-> node.generics,
         implements |-> node.implements,
         methods |-> {MethodResult(f, j, node) : j \in DirectMembers(f, i)}]

parse_java_file(f, pathLayer) ==
    [package |-> extract_package(f),
     imports |-> extract_imports(f),
     classes |-> {ClassResult(f, i, pathLayer) : i \in OfType(f, DOMAIN f, ClassLike)}]
================================================================================
