\* Files of up to four declarations in every language, and two analyses of them.
SPECIFICATION Spec
CONSTANTS
    None = None
    Paths <- MCPaths
    SuffixOf <- MCSuffixOf
    StemOf <- MCStemOf
    KeywordLayer <- MCKeywordLayer
    Nodes <- MCNodes
    Grammar <- MCGrammar
    Strict = {".java", ".ts"}
    OldMethods <- MCOldMethods
    MaxNodes <- MCMaxNodes
    MaxImports = 2
INVARIANTS
    OneOwner
    KeysApart
    ChunksOfHead
PROPERTIES
    EditsStayLocal
\* The file is at its bound and so are the analyses.
CHECK_DEADLOCK FALSE
