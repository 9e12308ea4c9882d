--------------------------- MODULE SourceFilesProofs ---------------------------
(***************************************************************************)
(* Which class a method belongs to, and that the chunks follow the file,   *)
(* for files of any nodes in any nesting, any length and any number of     *)
(* analyses.                                                               *)
(***************************************************************************)
EXTENDS SourceFiles, SequenceTheorems, TLAPS

\* A file is a sequence of nodes with depths; which nodes does not matter.
IsFile(f) ==
    /\ \E n \in Nat : DOMAIN f = 1 .. n
    /\ \A i \in DOMAIN f : f[i].depth \in Nat

\* Every parser walks the same tree.
LEMMA SameBelow ==
    ASSUME NEW f, NEW i
    PROVE  /\ Java!Below(f, i) = Below(f, i) /\ JavaScript!Below(f, i) = Below(f, i)
           /\ TypeScript!Below(f, i) = Below(f, i) /\ Python!Below(f, i) = Below(f, i)
BY DEF Below, Java!Below, JavaScript!Below, TypeScript!Below, Python!Below

LEMMA SameChildren ==
    ASSUME NEW f, NEW i
    PROVE  /\ JavaScript!Children(f, i) = Children(f, i)
           /\ TypeScript!Children(f, i) = Children(f, i) /\ Python!Children(f, i) = Children(f, i)
BY SameBelow DEF Children, JavaScript!Children, TypeScript!Children, Python!Children

\* Of two nodes around a third one, the one that comes first is around the other.
LEMMA Nested ==
    ASSUME NEW f, IsFile(f), NEW a \in DOMAIN f, NEW b \in DOMAIN f, NEW i,
           i \in Below(f, a), i \in Below(f, b), a < b
    PROVE  b \in Below(f, a)
BY DEF Below, IsFile

\* What is below a node is deeper.
LEMMA Deeper ==
    ASSUME NEW f, IsFile(f), NEW a \in DOMAIN f, NEW i \in Below(f, a)
    PROVE  i \in DOMAIN f /\ a < i /\ f[i].depth > f[a].depth
BY DEF Below, IsFile

\* A node is the child of one node.
LEMMA OneParent ==
    ASSUME NEW f, IsFile(f), NEW a \in DOMAIN f, NEW b \in DOMAIN f,
           NEW i \in Children(f, a), i \in Children(f, b)
    PROVE  a = b
<1>1. /\ a \in Nat /\ b \in Nat /\ f[a].depth \in Nat /\ f[b].depth \in Nat
      /\ i \in Below(f, a) /\ i \in Below(f, b) /\ f[a].depth = f[b].depth
  <2>1. i \in Below(f, a) /\ i \in Below(f, b)
        /\ f[i].depth = f[a].depth + 1 /\ f[i].depth = f[b].depth + 1
    BY DEF Children
  <2>2. QED BY <2>1 DEF IsFile
<1>2. CASE a < b
  <2>1. b \in Below(f, a)
    BY <1>1, <1>2, Nested
  <2>2. QED BY <1>1, <2>1, Deeper
<1>3. CASE b < a
  <2>1. a \in Below(f, b)
    BY <1>1, <1>3, Nested
  <2>2. QED BY <1>1, <2>1, Deeper
<1>4. QED BY <1>1, <1>2, <1>3

\* The walk that collects the methods of a Java class enters no other class.
LEMMA JavaOwner ==
    ASSUME NEW f, IsFile(f), NEW l, NEW c \in Java!parse_java_file(f, l).classes,
           NEW d \in Java!parse_java_file(f, l).classes,
           NEW m \in c.methods, NEW n \in d.methods, m.start_line = n.start_line
    PROVE  c = d
<1>1. PICK a \in Java!OfType(f, DOMAIN f, Java!ClassLike) : c = Java!ClassResult(f, a, l)
  BY DEF Java!parse_java_file
<1>2. PICK b \in Java!OfType(f, DOMAIN f, Java!ClassLike) : d = Java!ClassResult(f, b, l)
  BY DEF Java!parse_java_file
<1>3. PICK i \in Java!DirectMembers(f, a) : m = Java!MethodResult(f, i, f[a].node)
  BY <1>1 DEF Java!ClassResult
<1>4. PICK j \in Java!DirectMembers(f, b) : n = Java!MethodResult(f, j, f[b].node)
  BY <1>2 DEF Java!ClassResult
<1>5. i = j
  <2>1. m.start_line = i
    BY <1>3 DEF Java!MethodResult, Java!StartLine
  <2>2. n.start_line = j
    BY <1>4 DEF Java!MethodResult, Java!StartLine
  <2>3. QED BY <2>1, <2>2
<1>6. /\ a \in DOMAIN f /\ b \in DOMAIN f /\ a \in Nat /\ b \in Nat
      /\ Java!TypeIn(f, a, Java!ClassLike) /\ Java!TypeIn(f, b, Java!ClassLike)
  BY DEF Java!OfType, IsFile
<1>7. i \in Below(f, a) /\ \A k \in Below(f, a) : Java!TypeIn(f, k, Java!ClassLike) => i \notin Below(f, k)
  BY SameBelow DEF Java!DirectMembers, Java!Walk, Java!OfType
<1>8. i \in Below(f, b) /\ \A k \in Below(f, b) : Java!TypeIn(f, k, Java!ClassLike) => i \notin Below(f, k)
  BY <1>5, SameBelow DEF Java!DirectMembers, Java!Walk, Java!OfType
<1>9. ~(a < b)
  BY <1>6, <1>7, <1>8, Nested
<1>10. ~(b < a)
  BY <1>6, <1>7, <1>8, Nested
<1>11. a = b
  BY <1>6, <1>9, <1>10
<1>12. QED BY <1>1, <1>2, <1>11

\* A method is the child of its class; a function of the module has another type.
LEMMA JavaScriptOwner ==
    ASSUME NEW f, IsFile(f), NEW s, NEW l,
           NEW c \in JavaScript!parse_javascript_file(f, s, l).classes,
           NEW d \in JavaScript!parse_javascript_file(f, s, l).classes,
           NEW m \in c.methods, NEW n \in d.methods, m.start_line = n.start_line
    PROVE  c = d
<1> DEFINE types == JavaScript!OfType(f, DOMAIN f, JavaScript!ClassTypes)
           module == JavaScript!ModuleClass(f, s, l)
<1>1. \A x \in JavaScript!parse_javascript_file(f, s, l).classes :
          (\E a \in types : x = JavaScript!ClassResult(f, a, l)) \/ x = module
  BY DEF JavaScript!parse_javascript_file
<1>2. \A a \in types : \A x \in JavaScript!ClassResult(f, a, l).methods :
          /\ x.start_line \in Children(f, a)
          /\ f[x.start_line].node.type = "method_definition"
  <2>1. SUFFICES ASSUME NEW a \in types, NEW x \in JavaScript!ClassResult(f, a, l).methods
                 PROVE  /\ x.start_line \in Children(f, a)
                        /\ f[x.start_line].node.type = "method_definition"
    OBVIOUS
  <2>2. PICK i \in JavaScript!Methods(f, a) : x = JavaScript!MethodResult(f, i, f[a].node.name)
    BY DEF JavaScript!ClassResult
  <2>3. x.start_line = i
    BY <2>2 DEF JavaScript!MethodResult, JavaScript!StartLine
  <2>4. QED BY <2>3, SameChildren DEF JavaScript!Methods, JavaScript!OfType, JavaScript!TypeIn
<1>3. \A x \in module.methods : f[x.start_line].node.type # "method_definition"
  <2>1. SUFFICES ASSUME NEW x \in module.methods
                 PROVE  f[x.start_line].node.type # "method_definition"
    OBVIOUS
  <2>2. PICK i \in JavaScript!ModuleFunctions(f) :
            x = JavaScript!MethodResult(f, i, JavaScript!ModuleName(f, s))
    BY DEF JavaScript!ModuleClass
  <2>3. x.start_line = i
    BY <2>2 DEF JavaScript!MethodResult, JavaScript!StartLine
  <2>4. QED BY <2>3 DEF JavaScript!ModuleFunctions, JavaScript!IsFunction
<1> HIDE DEF module
<1>4. CASE c = module \/ d = module
  BY <1>1, <1>2, <1>3, <1>4
<1>5. CASE c # module /\ d # module
  <2>1. PICK a \in types : c = JavaScript!ClassResult(f, a, l)
    BY <1>1, <1>5
  <2>2. PICK b \in types : d = JavaScript!ClassResult(f, b, l)
    BY <1>1, <1>5
  <2>3. a \in DOMAIN f /\ b \in DOMAIN f
    BY DEF JavaScript!OfType
  <2>4. a = b
    BY <1>2, <2>1, <2>2, <2>3, OneParent
  <2>5. QED BY <2>1, <2>2, <2>4
<1>6. QED BY <1>4, <1>5

\* An interface has no methods, and the rest is as in JavaScript.
LEMMA TypeScriptOwner ==
    ASSUME NEW f, IsFile(f), NEW s, NEW l,
           NEW c \in TypeScript!parse_typescript_file(f, s, l).classes,
           NEW d \in TypeScript!parse_typescript_file(f, s, l).classes,
           NEW m \in c.methods, NEW n \in d.methods, m.start_line = n.start_line
    PROVE  c = d
<1> DEFINE types == TypeScript!OfType(f, DOMAIN f, {"class_declaration"})
           module == TypeScript!ModuleClass(f, s, l)
<1>1. \A x \in TypeScript!parse_typescript_file(f, s, l).classes :
          x.methods # {} => (\E a \in types : x = TypeScript!ClassResult(f, a, l)) \/ x = module
  <2>1. SUFFICES ASSUME NEW x \in TypeScript!parse_typescript_file(f, s, l).classes, x.methods # {}
                 PROVE  (\E a \in types : x = TypeScript!ClassResult(f, a, l)) \/ x = module
    OBVIOUS
  <2>2. \/ \E a \in types : x = TypeScript!ClassResult(f, a, l)
        \/ \E a : x = TypeScript!InterfaceResult(f, a, l)
        \/ x = module
    BY DEF TypeScript!parse_typescript_file
  <2>3. \A a : TypeScript!InterfaceResult(f, a, l).methods = {}
    BY DEF TypeScript!InterfaceResult
  <2>4. QED BY <2>1, <2>2, <2>3
<1>2. \A a \in types : \A x \in TypeScript!ClassResult(f, a, l).methods :
          /\ x.start_line \in Children(f, a)
          /\ f[x.start_line].node.type = "method_definition"
  <2>1. SUFFICES ASSUME NEW a \in types, NEW x \in TypeScript!ClassResult(f, a, l).methods
                 PROVE  /\ x.start_line \in Children(f, a)
                        /\ f[x.start_line].node.type = "method_definition"
    OBVIOUS
  <2>2. PICK i \in TypeScript!Methods(f, a) : x = TypeScript!MethodResult(f, i, f[a].node.name)
    BY DEF TypeScript!ClassResult
  <2>3. x.start_line = i
    BY <2>2 DEF TypeScript!MethodResult, TypeScript!StartLine
  <2>4. QED BY <2>3, SameChildren DEF TypeScript!Methods, TypeScript!OfType, TypeScript!TypeIn
<1>3. \A x \in module.methods : f[x.start_line].node.type # "method_definition"
  <2>1. SUFFICES ASSUME NEW x \in module.methods
                 PROVE  f[x.start_line].node.type # "method_definition"
    OBVIOUS
  <2>2. PICK i \in TypeScript!ModuleFunctions(f) :
            x = TypeScript!MethodResult(f, i, TypeScript!ModuleName(s))
    BY DEF TypeScript!ModuleClass
  <2>3. x.start_line = i
    BY <2>2 DEF TypeScript!MethodResult, TypeScript!StartLine
  <2>4. QED BY <2>3 DEF TypeScript!ModuleFunctions, TypeScript!TypeIn
<1> HIDE DEF module
<1>4. CASE c = module \/ d = module
  BY <1>1, <1>2, <1>3, <1>4
<1>5. CASE c # module /\ d # module
  <2>1. PICK a \in types : c = TypeScript!ClassResult(f, a, l)
    BY <1>1, <1>5
  <2>2. PICK b \in types : d = TypeScript!ClassResult(f, b, l)
    BY <1>1, <1>5
  <2>3. a \in DOMAIN f /\ b \in DOMAIN f
    BY DEF TypeScript!OfType
  <2>4. a = b
    BY <1>2, <2>1, <2>2, <2>3, OneParent
  <2>5. QED BY <2>1, <2>2, <2>4
<1>6. QED BY <1>4, <1>5

\* The functions among the nodes S, a decorator around them or not.
LEMMA PythonFunctions ==
    ASSUME NEW f, NEW S, NEW i \in Python!Functions(f, S)
    PROVE  \/ i \in S /\ f[i].node.type = "function_definition"
           \/ \E k \in S : f[k].node.type = "decorated_definition" /\ i \in Children(f, k)
<1>1. /\ i \in Python!Unwrapped(f, S, "decorated_definition")
      /\ f[i].node.type = "function_definition"
  BY DEF Python!Functions, Python!OfType, Python!TypeIn
<1>2. \/ i \in S
      \/ \E k \in S : Python!TypeIn(f, k, {"decorated_definition"}) /\ i \in Children(f, k)
  BY <1>1, SameChildren DEF Python!Unwrapped, Python!OfType
<1>3. QED BY <1>1, <1>2 DEF Python!TypeIn

\* A function stands below its class, or below a decorated definition that does, and
\* below no class when it is one of the module.
LEMMA PythonOwner ==
    ASSUME NEW f, IsFile(f), NEW s, NEW l,
           NEW c \in Python!parse_python_file(f, s, l).classes,
           NEW d \in Python!parse_python_file(f, s, l).classes,
           NEW m \in c.methods, NEW n \in d.methods, m.start_line = n.start_line
    PROVE  c = d
<1> DEFINE types == Python!OfType(f, DOMAIN f, {"class_definition"})
           module == Python!ModuleClass(f, s, l)
           Decorated(k) == f[k].node.type = "decorated_definition"
<1>1. \A x \in Python!parse_python_file(f, s, l).classes :
          (\E a \in types : x = Python!ClassResult(f, a, l)) \/ x = module
  BY DEF Python!parse_python_file
<1>2. \A a \in types : a \in DOMAIN f /\ ~Decorated(a)
  BY DEF Python!OfType, Python!TypeIn
<1>3. \A a, k \in DOMAIN f : k \in Children(f, a) =>
          /\ f[a].depth \in Nat /\ f[k].depth \in Nat /\ f[k].depth = f[a].depth + 1
  BY DEF IsFile, Children
<1>4. \A a : Children(f, a) \subseteq DOMAIN f
  BY DEF Children, Below
<1>5. \A a \in types : \A x \in Python!ClassResult(f, a, l).methods :
          \/ x.start_line \in Children(f, a)
          \/ \E k \in Children(f, a) : Decorated(k) /\ x.start_line \in Children(f, k)
  <2>1. SUFFICES ASSUME NEW a \in types, NEW x \in Python!ClassResult(f, a, l).methods
                 PROVE  \/ x.start_line \in Children(f, a)
                        \/ \E k \in Children(f, a) : Decorated(k) /\ x.start_line \in Children(f, k)
    OBVIOUS
  <2>2. PICK i \in Python!Functions(f, Python!Children(f, a)) :
            x = Python!MethodResult(f, i, f[a].node.name)
    BY DEF Python!ClassResult
  <2>3. x.start_line = i
    BY <2>2 DEF Python!MethodResult, Python!StartLine
  <2>4. QED BY <2>3, SameChildren, PythonFunctions
<1>6. \A x \in module.methods :
          \/ x.start_line \in DOMAIN f /\ f[x.start_line].depth = 0
          \/ \E k \in DOMAIN f : f[k].depth = 0 /\ Decorated(k) /\ x.start_line \in Children(f, k)
  <2>1. SUFFICES ASSUME NEW x \in module.methods
                 PROVE  \/ x.start_line \in DOMAIN f /\ f[x.start_line].depth = 0
                        \/ \E k \in DOMAIN f : f[k].depth = 0 /\ Decorated(k) /\ x.start_line \in Children(f, k)
    OBVIOUS
  <2>2. PICK i \in Python!ModuleFunctions(f) : x = Python!MethodResult(f, i, Python!ModuleName(s))
    BY DEF Python!ModuleClass
  <2>3. x.start_line = i
    BY <2>2 DEF Python!MethodResult, Python!StartLine
  <2>4. i \in Python!Functions(f, Python!TopLevel(f))
    BY DEF Python!ModuleFunctions
  <2>5. \A k \in Python!TopLevel(f) : k \in DOMAIN f /\ f[k].depth = 0
    BY DEF Python!TopLevel
  <2>6. QED BY <2>3, <2>4, <2>5, PythonFunctions
<1> HIDE DEF module, types, Decorated
<1>7. ASSUME NEW a \in types, NEW x \in Python!ClassResult(f, a, l).methods,
             NEW y \in module.methods, x.start_line = y.start_line
      PROVE  FALSE
  <2>1. CASE x.start_line \in Children(f, a)
    BY <1>2, <1>3, <1>4, <1>6, <1>7, <2>1, OneParent
  <2>2. ASSUME NEW k \in Children(f, a), Decorated(k), x.start_line \in Children(f, k)
        PROVE  FALSE
    BY <1>2, <1>3, <1>4, <1>6, <1>7, <2>2, OneParent
  <2>3. QED BY <1>5, <1>7, <2>1, <2>2
<1>8. ASSUME NEW a \in types, NEW x \in Python!ClassResult(f, a, l).methods,
             NEW b \in types, NEW y \in Python!ClassResult(f, b, l).methods,
             x.start_line = y.start_line
      PROVE  a = b
  <2>1. CASE x.start_line \in Children(f, a)
    BY <1>2, <1>4, <1>5, <1>8, <2>1, OneParent
  <2>2. ASSUME NEW k \in Children(f, a), Decorated(k), x.start_line \in Children(f, k)
        PROVE  a = b
    BY <1>2, <1>4, <1>5, <1>8, <2>2, OneParent
  <2>3. QED BY <1>5, <1>8, <2>1, <2>2
<1>9. CASE c = module \/ d = module
  BY <1>1, <1>7, <1>9
<1>10. CASE c # module /\ d # module
  BY <1>1, <1>8, <1>10
<1>11. QED BY <1>9, <1>10

-----------------------------------------------------------------------------
(* The file and what is kept of it *)

FileInv == path \in Paths /\ file \in Seq([depth : Nat, node : Nodes[SuffixOf[path]]])

LEMMA FilesAreFiles == FileInv => IsFile(file)
<1> DEFINE Lines == [depth : Nat, node : Nodes[SuffixOf[path]]]
<1> SUFFICES ASSUME file \in Seq(Lines) PROVE IsFile(file)
  BY DEF FileInv
<1>1. \A line \in Lines : line.depth \in Nat
  OBVIOUS
<1> HIDE DEF Lines
<1>2. Len(file) \in Nat /\ DOMAIN file = 1 .. Len(file) /\ \A i \in DOMAIN file : file[i] \in Lines
  BY ElementOfSeq
<1>3. QED BY <1>1, <1>2 DEF IsFile

LEMMA FileStep == FileInv /\ [Next]_vars => FileInv'
<1> SUFFICES ASSUME FileInv, [Next]_vars PROVE FileInv'
  OBVIOUS
<1> DEFINE Lines == [depth : Nat, node : Nodes[SuffixOf[path]]]
<1>1. CASE UNCHANGED <<path, file>>
  BY <1>1 DEF FileInv
<1>2. ASSUME NEW n \in 0 .. Len(file), NEW d \in 0 .. Len(file), NEW node \in Nodes[SuffixOf[path]],
             Insert(n, d, node)
      PROVE  FileInv'
  <2>1. path' = path /\ file' = Inserted(file, n, d, node)
    BY <1>2 DEF Insert
  <2>2. file \in Seq(Lines) /\ Len(file) \in Nat
    BY DEF FileInv
  <2>3. <<[depth |-> d, node |-> node]>> \in Seq(Lines)
    BY <2>2
  <2>4. \A i \in 1 .. Len(file) : file[i] \in Lines
    BY <2>2, ElementOfSeq
  <2> HIDE DEF Lines
  <2>5. SubSeq(file, 1, n) \in Seq(Lines) /\ SubSeq(file, n + 1, Len(file)) \in Seq(Lines)
    BY <2>2, <2>4, SubSeqProperties
  <2>6. Inserted(file, n, d, node) \in Seq(Lines)
    BY <2>3, <2>5 DEF Inserted
  <2>7. QED BY <2>1, <2>6 DEF FileInv, Lines
<1>3. QED BY <1>1, <1>2 DEF Next, vars, StartImport, Store, ImportFails

\* extract_class_results and what it is called in the other parsers: a method or a
\* function, whatever stands around it, belongs to one class.
THEOREM MethodsHaveOneClass == Spec => []OneOwner
<1>1. FileInv => OneOwner
  <2> SUFFICES ASSUME FileInv, ~Page, NEW m \in MethodsOf(path, file), NEW n \in MethodsOf(path, file),
                      m.method.start_line = n.method.start_line
               PROVE  m.class = n.class
    BY DEF OneOwner
  <2> DEFINE s == SuffixOf[path]
             cs == Parse(s, file, StemOf[path], KeywordLayer[path]).classes
  <2>1. /\ m.class \in cs /\ m.method \in m.class.methods
        /\ n.class \in cs /\ n.method \in n.class.methods
    BY DEF MethodsOf
  <2>2. IsFile(file)
    BY FilesAreFiles
  <2>3. s \in {".java", ".js", ".jsx", ".ts", ".tsx", ".py"}
    BY FilesAssumption DEF FileInv, Page
  <2>4. CASE s = ".java"
    BY <2>1, <2>2, <2>4, JavaOwner DEF Parse
  <2>5. CASE s \in {".js", ".jsx"}
    BY <2>1, <2>2, <2>5, JavaScriptOwner DEF Parse
  <2>6. CASE s \in {".ts", ".tsx"}
    BY <2>1, <2>2, <2>6, TypeScriptOwner DEF Parse
  <2>7. CASE s = ".py"
    BY <2>1, <2>2, <2>7, PythonOwner DEF Parse
  <2>8. QED BY <2>3, <2>4, <2>5, <2>6, <2>7
<1>2. Init => FileInv
  BY DEF Init, FileInv
<1>3. QED BY <1>1, <1>2, FileStep, PTL DEF Spec

Chunks == {Chunk(m) : m \in MethodsOf(path, file)}

\* The rows of an import and those from before the versions; the latter are gone when
\* their method has one of the former.
RowsInv ==
    /\ path \in Paths
    /\ \A r \in rows : r.legacy => r.node[1] = "Method"
    /\ \A r \in rows : ~r.legacy => \E m : r = Chunk(m)
    /\ \A r, q \in rows : r.legacy /\ ~q.legacy => r.method # q.method
    /\ run \in {"idle", "embedding", "stored"}
    /\ run = "embedding" => pending = NewChunks(Chunks)
    /\ run = "stored" => \A c \in Chunks : c \in rows

\* A chunk is told by its version, and no row from before has the key of one.
LEMMA ChunkOfNode ==
    ASSUME RowsInv, NEW m, NEW r \in rows, r.node = Chunk(m).node
    PROVE  Chunk(m) \in rows
<1>1. r.node = VersionKey(m) /\ VersionKey(m)[1] = "MethodVersion"
  BY DEF Chunk, VersionKey
<1>2. ~r.legacy
  BY <1>1 DEF RowsInv
<1>3. PICK n : r = Chunk(n)
  BY <1>2 DEF RowsInv
<1>4. VersionKey(n) = VersionKey(m)
  BY <1>1, <1>3 DEF Chunk
<1>5. MethodKey(n) = MethodKey(m)
  BY <1>4 DEF VersionKey, MethodKey
<1>6. QED BY <1>3, <1>4, <1>5 DEF Chunk

\* What an import need not store is stored.
LEMMA OldChunksStored ==
    ASSUME RowsInv, NEW c \in Chunks, c \notin NewChunks(Chunks)
    PROVE  c \in rows /\ ~c.legacy
<1>1. PICK m : c = Chunk(m)
  BY DEF Chunks
<1>2. PICK r \in rows : r.node = c.node
  BY DEF NewChunks
<1>3. QED BY <1>1, <1>2, ChunkOfNode DEF Chunk

LEMMA RowsStep == RowsInv /\ [Next]_vars => RowsInv'
<1> SUFFICES ASSUME RowsInv, [Next]_vars PROVE RowsInv'
  OBVIOUS
<1>1. CASE UNCHANGED vars
  BY <1>1 DEF vars, RowsInv, Chunks, NewChunks
<1>2. ASSUME NEW n, NEW d, NEW node, Insert(n, d, node)
      PROVE  RowsInv'
  BY <1>2 DEF Insert, RowsInv
<1>3. CASE StartImport
  <2>1. /\ UNCHANGED <<path, file, rows>> /\ Chunks' = Chunks
        /\ pending' = NewChunks(Chunks) /\ NewChunks(Chunks)' = NewChunks(Chunks)
        /\ run' = IF pending' = {} THEN "stored" ELSE "embedding"
    BY <1>3 DEF StartImport, Chunks, NewChunks
  <2>2. pending' = {} => \A c \in Chunks : c \in rows
    BY <2>1, OldChunksStored
  <2>3. QED BY <2>1, <2>2 DEF RowsInv
<1>4. CASE Store
  <2>1. /\ UNCHANGED <<path, file>> /\ Chunks' = Chunks /\ run' = "stored"
        /\ rows' = (rows \ TakenOver(pending)) \cup pending
        /\ pending = NewChunks(Chunks)
    BY <1>4 DEF Store, Chunks, RowsInv
  <2>2. \A c \in pending : ~c.legacy /\ \E m : c = Chunk(m)
    BY <2>1 DEF NewChunks, Chunks, Chunk
  <2>3. \A c \in Chunks : c \in rows'
    BY <2>1, OldChunksStored DEF TakenOver
  <2>4. ASSUME NEW r \in rows', NEW q \in rows', r.legacy, ~q.legacy
        PROVE  r.method # q.method
    <3>1. r \in rows /\ r \notin TakenOver(pending)
      BY <2>1, <2>2, <2>4
    <3>2. CASE q \in pending
      BY <2>4, <3>1, <3>2 DEF TakenOver
    <3>3. CASE q \in rows
      BY <2>4, <3>1, <3>3 DEF RowsInv
    <3>4. QED BY <2>1, <3>2, <3>3
  <2>5. \A r \in rows' : /\ r.legacy => r.node[1] = "Method"
                         /\ ~r.legacy => \E m : r = Chunk(m)
    BY <2>1, <2>2 DEF RowsInv
  <2>6. path' \in Paths
    BY <2>1 DEF RowsInv
  <2>7. QED BY <2>1, <2>3, <2>4, <2>5, <2>6 DEF RowsInv
<1>5. CASE ImportFails
  BY <1>5 DEF ImportFails, RowsInv
<1>6. QED BY <1>1, <1>2, <1>3, <1>4, <1>5 DEF Next

\* ChunkImportService: although an import embeds only what is new and may fail, after
\* one that has not the table has a chunk of every method of the file as it is, and
\* none of that method from before the versions.
THEOREM ChunksFollowTheFile == Spec => []ChunksOfHead
<1>1. Init => RowsInv
  <2> SUFFICES ASSUME Init PROVE RowsInv
    OBVIOUS
  <2>1. path \in Paths /\ run = "idle"
        /\ \A r \in rows : \E k \in OldMethods[path] : r = [node |-> k, method |-> k, legacy |-> TRUE]
    BY DEF Init
  <2>2. \A r \in rows : r.legacy /\ r.node[1] = "Method"
    BY <2>1, FilesAssumption
  <2>3. QED BY <2>1, <2>2 DEF RowsInv
<1>2. RowsInv => ChunksOfHead
  <2> SUFFICES ASSUME RowsInv, run = "stored", NEW m \in MethodsOf(path, file)
               PROVE  /\ Chunk(m) \in rows
                      /\ ~\E r \in rows : r.legacy /\ r.method = MethodKey(m)
    BY DEF ChunksOfHead
  <2>1. Chunk(m) \in rows
    BY DEF RowsInv, Chunks
  <2>2. ~Chunk(m).legacy /\ Chunk(m).method = MethodKey(m)
    BY DEF Chunk
  <2>3. QED BY <2>1, <2>2 DEF RowsInv
<1>3. QED BY <1>1, <1>2, RowsStep, PTL DEF Spec
=============================================================================
