------------------------------ MODULE SourceFiles ------------------------------
(***************************************************************************)
(* A source file that a developer works on, what the parser of its         *)
(* language hands over for it, and the chunks that one analysis after the  *)
(* other keeps of it for the vector search (ChunkImportService).           *)
(*                                                                         *)
(* An analysis works on a checkout, so that the file may as well stand     *)
(* still for as long as it takes.  Rows stored before there were versions  *)
(* have a method and no version (content_hash of zeros); the embedding and *)
(* the header of a chunk go with its text and are left out.                *)
(***************************************************************************)
EXTENDS SourceParsers, Identifiers

CONSTANTS
    Paths,          \* files, one of which is worked on
    SuffixOf,       \* SuffixOf[p]: the extension of p in small letters
    StemOf,         \* StemOf[p]: the name of the file, without .js, .jsx, .ts, .tsx, .py
    KeywordLayer,   \* KeywordLayer[p]: the layer a part of the path stands for, or None
    Nodes,          \* Nodes[s]: what a developer writes in a file with the suffix s
    Grammar,        \* Grammar[s]: <<t, u>> when a node of type u stands in one of type t
                    \* (the grammars of tree-sitter); the root has the type "program"
    Strict,         \* suffixes of the languages that refuse a second declaration
    OldMethods,     \* OldMethods[p]: methods with a row from before the versions
    MaxNodes,       \* bound: nodes of a file with the suffix s
    MaxImports      \* bound: analyses

\* The suffixes the registry has a parser for; what was stored before there were
\* versions has the key of a method.
ASSUME FilesAssumption ==
    /\ \A p \in Paths : SuffixOf[p] \in {".java", ".js", ".jsx", ".ts", ".tsx", ".py", ".html"}
    /\ \A p \in Paths : \A k \in OldMethods[p] : k[1] = "Method"

VARIABLES
    path,       \* the file
    file,       \* its nodes
    rows,       \* code_chunks
    run,        \* "idle", "embedding" or, while the file is as it was, "stored"
    pending,    \* the chunks that are embedded
    imports     \* analyses so far

vars == <<path, file, rows, run, pending, imports>>

\* The methods of all classes.
MethodsOf(p, f) ==
    UNION {{[path |-> p, class |-> c, method |-> m] : m \in c.methods} :
              c \in Parse(SuffixOf[p], f, StemOf[p], KeywordLayer[p]).classes}

-----------------------------------------------------------------------------
(* The developer (external) *)

\* The node that a node put after the first n, at depth d, is a child of.
ParentType(n, d) ==
    IF d = 0 THEN "program"
    ELSE file[CHOOSE k \in 1..n : file[k].depth = d - 1 /\ \A j \in (k + 1)..n : file[j].depth >= d].node.type

\* f with one more node, which has nothing below it, after the first n.
Inserted(f, n, d, node) ==
    SubSeq(f, 1, n) \o <<[depth |-> d, node |-> node]>> \o SubSeq(f, n + 1, Len(f))

\* Two declarations of one name and signature side by side.
Redeclared(f) ==
    \E i, j \in DOMAIN f :
        /\ i < j /\ f[i].depth = f[j].depth
        /\ \A k \in i..j : f[k].depth >= f[i].depth
        /\ f[i].node = f[j].node
        /\ f[i].node.type \notin {"other", "method_invocation", "call_expression", "script_element"}

Insert(n, d, node) ==
    /\ run # "embedding"
    /\ Len(file) < MaxNodes[SuffixOf[path]]
    /\ d = 0 \/ (n > 0 /\ d <= file[n].depth + 1)
    /\ (n < Len(file) => file[n + 1].depth <= d)
    /\ <<ParentType(n, d), node.type>> \in Grammar[SuffixOf[path]]
    /\ file' = Inserted(file, n, d, node)
    /\ (SuffixOf[path] \in Strict => ~Redeclared(file'))
    /\ run' = "idle"
    /\ UNCHANGED <<path, rows, pending, imports>>

-----------------------------------------------------------------------------
(* ChunkImportService.import_repository *)

\* build_chunks_from_file; the other columns of a row are written with these.
Chunk(m) == [node |-> VersionKey(m), method |-> MethodKey(m), legacy |-> FALSE]

\* Mutant: a method that has a chunk needs no other.
MethodKnown(chunks) == {c \in chunks : c.method \notin {r.method : r \in rows}}

\* find_existing_graph_node_ids: a version that has a chunk is not embedded again.
NewChunks(chunks) == {c \in chunks : c.node \notin {r.node : r \in rows}}

\* Read the checkout and the table.
StartImport ==
    /\ run # "embedding"
    /\ imports < MaxImports
    /\ imports' = imports + 1
    /\ pending' = NewChunks({Chunk(m) : m \in MethodsOf(path, file)})
    /\ run' = IF pending' = {} THEN "stored" ELSE "embedding"
    /\ UNCHANGED <<path, file, rows>>

\* Mutant: the old row of a method stays.
KeepLegacy(chunks) == {}

\* _find_legacy: the row that the first version of its method takes over.
TakenOver(chunks) == {r \in rows : r.legacy /\ r.method \in {c.method : c \in chunks}}

\* upsert_chunks, one transaction.
Store ==
    /\ run = "embedding"
    /\ rows' = (rows \ TakenOver(pending)) \cup pending
    /\ pending' = {}
    /\ run' = "stored"
    /\ UNCHANGED <<path, file, imports>>

\* The embedding of a batch or a statement fails, and nothing is stored.
ImportFails ==
    /\ run = "embedding"
    /\ pending' = {}
    /\ run' = "idle"
    /\ UNCHANGED <<path, file, rows, imports>>

-----------------------------------------------------------------------------

Init ==
    /\ path \in Paths
    /\ file = <<>>
    /\ rows \in SUBSET {[node |-> k, method |-> k, legacy |-> TRUE] : k \in OldMethods[path]}
    /\ run = "idle" /\ pending = {} /\ imports = 0

Next ==
    \/ \E n \in 0..Len(file), d \in 0..Len(file), node \in Nodes[SuffixOf[path]] : Insert(n, d, node)
    \/ StartImport \/ Store \/ ImportFails

Spec == Init /\ [][Next]_vars

-----------------------------------------------------------------------------
(* Properties *)

Page == SuffixOf[path] = ".html"

\* A method or a function belongs to one class, nested and local classes,
\* anonymous ones and functions in methods notwithstanding.  (The lines of a page
\* are counted in each script anew.)
OneOwner ==
    ~Page => \A m, n \in MethodsOf(path, file) :
                m.method.start_line = n.method.start_line => m.class = n.class

\* Whether something that has no name of its own in a key, an enum, a method, an
\* initializer or the body of an anonymous class, stands around a Java method.
Unnamed(i) ==
    \E k \in DOMAIN file : i \in Below(file, k) /\ ~TypeIn(file, k, Java!ClassLike)

\* Two methods of a Java file share a key only inside of a method, an enum or an
\* anonymous class, and functions in two scripts of a page never do.
KeysApart ==
    \A m, n \in MethodsOf(path, file) :
        MethodKey(m) = MethodKey(n) /\ m # n =>
            /\ SuffixOf[path] = ".java" => Unnamed(m.method.start_line) \/ Unnamed(n.method.start_line)
            /\ Page => m.class = n.class

\* The line that line i is after one was put after the first n.
Moved(i, n) == IF i <= n THEN i ELSE i + 1

\* What is written in one place changes the methods it is written in and no other,
\* and no method gets another key: the history of the others goes on.  (The
\* package is a part of every key; the scripts of a page are numbered.)
EditsStayLocal ==
    [][\A n \in 0..Len(file) :
          (/\ Len(file') > Len(file)
           /\ file' = Inserted(file, n, file'[n + 1].depth, file'[n + 1].node)
           /\ n < Len(file) => file[n + 1].depth <= file'[n + 1].depth
           /\ ~Page /\ file'[n + 1].node.type # "package_declaration") =>
             \E after \in {MethodsOf(path, file')} :
             \A m \in MethodsOf(path, file) :
                LET i == m.method.start_line IN
                \E k \in after :
                    /\ k.method.start_line = Moved(i, n)
                    /\ MethodKey(k) = MethodKey(m)
                    /\ k.method.text = m.method.text
                         <=> (n + 1) \notin Below(file', Moved(i, n))]_file

\* After an analysis every method of the file has a chunk of the text it has now,
\* and none from before the versions, although only new versions are stored.
ChunksOfHead ==
    run = "stored" => \A m \in MethodsOf(path, file) :
        /\ Chunk(m) \in rows
        /\ ~\E r \in rows : r.legacy /\ r.method = MethodKey(m)
================================================================================
