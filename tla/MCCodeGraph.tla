------------------------------ MODULE MCCodeGraph ------------------------------
(***************************************************************************)
(* A repository of four Java files, a page in JavaScript and a committed   *)
(* bundle.  Service.run calls save on its field; Repo has it in one tree   *)
(* and inherits it from Base in the other; Audit, the page and the bundle  *)
(* have a save of their own, and so many trees make a call ambiguous, for  *)
(* certain or to nobody.                                                   *)
(***************************************************************************)
EXTENDS CodeGraph

CONSTANTS b1, b2

\* Nodes of a file, each with its depth.
Node(depth, node) == [depth |-> depth, node |-> node]

Class(depth, name, bases, implements) ==
    Node(depth, [type |-> "class_declaration", name |-> name, bases |-> bases, generics |-> <<>>,
                 implements |-> implements, annotation |-> None, suffix |-> None, route |-> None])

Function(depth, type, name, route) ==
    Node(depth, [type |-> type, name |-> name, signature |-> "()", route |-> route])

Method(name)       == Function(1, "method_declaration", name, None)
Call(object, name) == Node(2, [type |-> "method_invocation", object |-> object, name |-> name])

Package(name) == Node(0, [type |-> "package_declaration", name |-> name])
Import(name, simple) ==
    Node(0, [type |-> "import_declaration", name |-> name, simple |-> simple])

\* Its callers know the type of repo; local is a variable.  With it comes an
\* import, so that the same check begins at another line.
Service(body) ==
    <<Package("app"), Import("app.Repo", "Repo"), Import("java.util.List", "List")>>
    \o (IF body = "local" THEN <<Import("java.util.Map", "Map")>> ELSE <<>>)
    \o
    <<Class(0, "Service", <<>>, <<>>),
      Node(1, [type |-> "field_declaration", name |-> "repo", of |-> "Repo"]),
      Function(1, "method_declaration", "run", [verb |-> "GET", path |-> <<"items/{id}">>]),
      Call(<<body>>, "save"), Call(<<>>, "check"), Method("check")>>

Repo(own) ==
    <<Package("app"), Class(0, "Repo", <<"Base">>, <<>>), Method(IF own THEN "save" ELSE "find")>>

Base == <<Package("app"), Class(0, "Base", <<>>, <<>>), Method("save")>>

Audit ==
    <<Package("log"), Class(0, "Audit", <<>>, <<"Base">>), Method("save"), Call(<<"list">>, "add")>>

\* A page that saves through a function of its own.
Page(path) ==
    <<Function(0, "function_declaration", "load", None),
      Node(1, [type |-> "call_expression", object |-> <<>>, name |-> "fetch",
               route |-> [verb |-> "GET", path |-> <<path>>]]),
      Node(1, [type |-> "call_expression", object |-> <<>>, name |-> "save", route |-> None]),
      Function(0, "function_declaration", "save", None)>>

Bundle == <<Function(0, "function_declaration", "save", None)>>

MCPaths == {"Service.java", "Repo.java", "Base.java", "Audit.java", "page.js", "dist/lib.js"}

MCLanguageOf == [p \in MCPaths |-> IF p \in {"page.js", "dist/lib.js"} THEN "javascript" ELSE "java"]

Route(path) == [verb |-> "GET", path |-> <<path>>]

MCRouteKey ==
    [r \in {Route("items/{id}"), Route("items/:id"), Route("items/${id}")} |->
        IF r = Route("items/${id}") THEN None ELSE Route(":param")]

Parsers == INSTANCE SourceParsers

\* What the parser of its language hands over for a file.
Parsed(p, file) ==
    IF file = None THEN None
    ELSE Parsers!MapFile(Parsers!Parse(IF MCLanguageOf[p] = "java" THEN ".java" ELSE ".js", file, p, None))

Tree(service, repo, audit, page, bundle) ==
    [p \in MCPaths |->
        Parsed(p, CASE p = "Service.java" -> service [] p = "Repo.java" -> repo [] p = "Base.java" -> Base
                    [] p = "Audit.java" -> audit [] p = "page.js" -> page [] p = "dist/lib.js" -> bundle)]

\* What the two branches may hold.
MCTrees ==
    {Tree(Service("repo"), Repo(TRUE), Audit, Page("items/:id"), None),
     Tree(Service("repo"), Repo(FALSE), None, Page("items/:id"), Bundle),
     Tree(Service("local"), Repo(TRUE), Audit, None, Bundle),
     Tree(Service("repo"), Repo(FALSE), Audit, Page("items/${id}"), None)}

\* The caller and an unrelated class change, the class it calls does not.
MCPartialTrees ==
    {Tree(Service("local"), Repo(TRUE), None, None, None),
     Tree(Service("repo"), Repo(TRUE), Audit, None, None)}

\* Two commits on one branch and one on the other.
MCMaxCommits == [b \in Branches |-> IF b = b1 THEN 2 ELSE 1]

ASSUME TreesApart == VersionsApart
================================================================================
