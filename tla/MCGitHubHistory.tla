---------------------------- MODULE MCGitHubHistory ----------------------------
(***************************************************************************)
(* Two issues, a pull request with one commit that is merged into main,    *)
(* and a commit on another branch whose message quotes that of the merge.  *)
(***************************************************************************)
EXTENDS GitHubHistory, TLC

CONSTANTS main, dev, root, fix, merge, quote, f, i1, i2

MCLog == root :> <<root>> @@ fix :> <<fix, root>> @@ merge :> <<merge, fix, root>>
         @@ quote :> <<quote, root>>

MCParents == root :> {} @@ fix :> {root} @@ merge :> {root, fix} @@ quote :> {root}

MCFiles == root :> <<f>> @@ fix :> <<f>> @@ merge :> <<>> @@ quote :> <<>>

MCPullCommits == 1 :> <<fix>>

MCMergeOf == root :> None @@ fix :> None @@ merge :> 1 @@ quote :> 1

MCMergedAs == 1 :> {merge}

Text == {<<"closes", 2>>, <<"mentions", 2>>, <<"mentions", 3>>}

Repo(items, text) ==
    [items |-> items, last |-> Len(items), closed |-> {}, text |-> (1 :> text),
     merged |-> (1 :> None), head |-> (main :> root @@ dev :> quote)]

\* Before the pull request is opened, and when it has an issue to resolve.
MCInitial == {Repo(<<>>, {}), Repo(<<2, 1>>, Text)}

Symmetry == Permutations(Imports)

ASSUME MergesTold == MessagesTrue

=============================================================================
