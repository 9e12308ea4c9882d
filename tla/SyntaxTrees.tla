------------------------------ MODULE SyntaxTrees ------------------------------
(***************************************************************************)
(* The source of one file as the parsers see it, and the walks over it     *)
(* that the parsers of all languages share (parsers/tree_sitter.py).       *)
(*                                                                         *)
(* A file is the sequence of its nodes in document order, each with the    *)
(* depth it has in the tree.  Only nodes that some parser asks for are     *)
(* there, and those that decide which node is the child of which: a body   *)
(* or a modifier list is part of its declaration, a statement or an        *)
(* expression that holds declarations is a node of the type "other".       *)
(*                                                                         *)
(* node.type is the name tree-sitter has for the node.  A class has bases, *)
(* generics and implements (sequences of names), annotation and suffix     *)
(* (the layer its annotation or its name stands for, or None) and route;   *)
(* a method a name, a signature and a route; a declarator also the type of *)
(* its value; a field the type it has; a call its name and its object, the *)
(* path of names before the dot, and the route of an HTTP request, or      *)
(* None; an import a name and its last part.                               *)
(***************************************************************************)
EXTENDS Naturals, Sequences

CONSTANT None

TypeIn(f, i, types) == f[i].node.type \in types

\* The nodes below i: those that follow it as long as they are deeper.
Below(f, i) ==
    {j \in DOMAIN f : i < j /\ \A k \in (i + 1)..j : f[k].depth > f[i].depth}

Children(f, i) == {j \in Below(f, i) : f[j].depth = f[i].depth + 1}

\* The children of the root.
TopLevel(f) == {i \in DOMAIN f : f[i].depth = 0}

\* find_nodes_by_type, of what a walk came to.
OfType(f, S, types) == {i \in S : TypeIn(f, i, types)}

\* walk with a visitor that returns True for the types of stop: what is below
\* such a node is not visited.
Walk(f, S, stop) == {j \in S : \A k \in OfType(f, S, stop) : j \notin Below(f, k)}

\* The declarations among S, those inside a node of type wrapper included.
Unwrapped(f, S, wrapper) ==
    {i \in S : ~TypeIn(f, i, {wrapper})}
    \cup UNION {Children(f, k) : k \in OfType(f, S, {wrapper})}

First(S) == CHOOSE i \in S : \A j \in S : i <= j

\* The text of a node: what it is and all that is below it, wherever it stands.
Text(f, i) == {<<j - i, f[j].depth - f[i].depth, f[j].node>> : j \in {i} \cup Below(f, i)}

\* The line a node begins on, when every node has a line of its own.
StartLine(f, i) == i

-----------------------------------------------------------------------------
(* What a parser hands over: the results of dtos/analysis.py.  Names are   *)
(* those of the protocols of dtos/protocols.py, which every language has.  *)

\* The object of a call: a name, or a field of the object itself, which self
\* stands for; a chain has no receiver.
ReceiverOf(object, self) ==
    IF Len(object) = 1 /\ object[1] # self THEN object[1]
    ELSE IF Len(object) = 2 /\ object[1] = self THEN object[2]
    ELSE None

\* The requests whose path stands in the source.
Requests(f, S) == {f[j].node.route : j \in S} \ {None}

\* The first field of a name counts, as _resolve_receiver_type reads them.
FieldTypes(f, S) ==
    [n \in {f[i].node.name : i \in S} |-> f[First({i \in S : f[i].node.name = n})].node.of]

FirstOf(s) == IF s = <<>> THEN None ELSE s[1]

Imports(f, S) == {[name |-> f[i].node.name, simple |-> f[i].node.simple] : i \in S}

\* The first of the layers that is known.
FirstLayer(layers, otherwise) ==
    LET known == {i \in DOMAIN layers : layers[i] # None} IN
    IF known = {} THEN otherwise ELSE layers[First(known)]
================================================================================
