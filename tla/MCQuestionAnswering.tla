------------------------- MODULE MCQuestionAnswering -------------------------
(* A repository with four methods in a row of calls, an accessor and a      *)
(* second version of one of them.  setup is no accessor for the graph, but  *)
(* a simple setter for the enricher.                                        *)
EXTENDS QuestionAnswering

MCMethods  == {"a", "b", "c", "setup", "getA"}
MCVersions == {"a1", "b1", "b2", "c1", "setup1", "getA1"}

MCMethodOf ==
    [v \in MCVersions |->
        CASE v = "a1" -> "a" [] v \in {"b1", "b2"} -> "b" [] v = "c1" -> "c"
          [] v = "setup1" -> "setup" [] v = "getA1" -> "getA"]

MCExposed      == {<<"b", "/b">>}
MCDeletedIn    == {<<"setup", "later">>, <<"a", "later">>}
MCCommitOrder  == <<"first", "later", "last">>
MCQuestions    == {{}, {"b", "setup"}}
MCClassOf      == [m \in MCMethods |-> IF m \in {"a", "getA"} THEN "A" ELSE "B"]

\* b gets its first code back in the end; a comes back after its deletion.
MCIntroducedIn == {<<v, "first">> : v \in MCVersions \ {"b2"}}
                      \cup {<<"b2", "later">>, <<"b1", "last">>, <<"a1", "last">>}

\* An analysis of each commit.
MCAnalyses ==
    {[commits |-> {"first"}, checkout |-> MCVersions \ {"b2"}],
     [commits |-> {"first", "later"}, checkout |-> {"b2", "c1", "getA1"}],
     [commits |-> {"first", "later", "last"}, checkout |-> {"a1", "b1", "c1", "getA1"}]}

MCCodeChars    == [v \in MCVersions |-> IF v \in {"b1", "c1"} THEN 9 ELSE 4]
MCMaxEvidence  == [k \in QuestionKind |-> IF k = "intent" THEN 3 ELSE 2]

MCOrders == {<<"a", "b", "c", "setup", "getA", "/b">>, <<"/b", "getA", "setup", "c", "b", "a">>}

MCNodes == MCMethods \cup MCVersions \cup {"/b"}

\* The name of c has a word that counts; that of getA contains that of a.
MCPriority  == [n \in MCNodes |-> IF n \in {"c", "c1"} THEN 2 ELSE 0]
MCMentioned ==
    [m \in MCMethods |-> {m} \cup {v \in MCVersions : MCMethodOf[v] = m}
                             \cup IF m = "a" THEN {"getA", "getA1"} ELSE {}]

MCRankings == {<<"a1", "c1", "b1", "setup1", "b2", "getA1">>,
               <<"getA1", "b2", "b1", "setup1", "c1", "a1">>}

\* The row of calls, those that may be there besides, and the call that is
\* ambiguous.
Row   == {<<"a1", "b">>, <<"b1", "c">>, <<"c1", "setup">>}
Maybe == {<<"setup1", "a">>, <<"a1", "getA">>, <<"getA1", "c">>}

Direct ==
    {[all |-> Row \cup more \cup unsure, http |-> {}, ambiguous |-> unsure] :
        more   \in {{}, {<<"a1", "getA">>}, Maybe},
        unsure \in {{}, {<<"a1", "b">>}, {<<"getA1", "c">>}}}

\* a requests what b handles instead of calling it, and c may call either.
Requesting ==
    {[all |-> (Row \ {<<"a1", "b">>}) \cup more, http |-> {<<"a1", "/b">>}, ambiguous |-> unsure] :
        more   \in {{}, {<<"c1", "a">>}, {<<"c1", "b">>}},
        unsure \in {{}, {<<"a1", "/b">>}}}

MCCallGraphs == Direct \cup Requesting
=============================================================================
