# RepoMind backend: TLA+ models, checks and proofs

RepoMind registers GitHub repositories, analyses them in the background (GitHub
history, git history, code graph, embeddings) and answers questions about them.
This directory models the parts whose correctness depends on the order of
steps of several threads, on failures between two writes, or on data that was
read earlier and is used later.

## The system

| Component | Code (under `src/app`) | State it keeps | Operations |
|---|---|---|---|
| Registration and status | `repositories/repository.py`, `models/repository.py`, `api/v1/repositories.py` | PostgreSQL table `repositories`: URL, branch, status, GitHub id, analysed commit, checkpoint | create, get, list, delete, retry, `transition_status` |
| Job dispatch | `jobs/dispatcher.py`, `factories/pipeline.py` | daemon threads, one session per thread | dispatch, `_run_job` |
| Analysis pipeline | `services/analysis_pipeline.py` | the thread's ORM session and local variables | `run_pipeline` |
| Git access | `services/git_clone.py` | a temporary clone | clone, first-parent list, changed files, read file |
| Method history indexer | `services/method_history_index.py` | Neo4j: commits, method versions, `INTRODUCED_IN`, `DERIVED_FROM`, `DELETED_IN` | `index` |
| Code graph import | `services/code_graph_import.py`, `graph/` | Neo4j: files, types, methods, calls, endpoints | `import_repository`, `save`, `mark_methods_deleted` |
| Chunk import | `services/chunk_import.py`, `repositories/code_chunk.py` | pgvector table `code_chunks` | `import_repository`, `upsert_chunks`, `search_similar` |
| GitHub history import | `services/github_history*.py`, `clients/github.py`, `repositories/commit_file_change.py`, `graph/repositories/github_history.py` | table `commit_file_changes`; Neo4j: issues, pull requests, commits | collect, upsert, map, save |
| Chat | `api/v1/chat.py`, `api/v1/sessions.py`, `repositories/chat_*.py`, `services/qa_service.py` | tables `chat_sessions`, `chat_messages` | ask, create/list/delete session, list messages |
| Question answering | `ai/rag/`, `ai/*.py` | the LangGraph state of one question | ten nodes and a retry edge |
| Traversal queries | `graph/queries/traversal.py` | none | read-only Cypher |
| Parsers | `parsers/` | none | a tree-sitter tree becomes classes, methods, fields, imports, calls and routes |
| Answer generation, adapters, visualisation | `ai/generation`, `adapters`, `visualization` | none | contexts, the two requests to a language model, the graph and the picture shown |

The components meet in four places. A request thread commits a row and starts
an analysis thread; both use the table with sessions of their own and no locks.
An analysis thread stores its results in Neo4j and pgvector under the GitHub id
and only then publishes them in the row. A chat request reads the row once,
and from then on trusts what was published. A later analysis trusts what
earlier ones stored: the checkpoint in the row, and the chunks it need not
embed again.

What is hard here: read-then-commit sequences without locks, ORM objects that
stay in a session's identity map after the row has changed, several stores
without a common transaction, analyses that stop at any point, force-pushes
between two analyses, and results shared by several registrations of one
GitHub repository. `PROJECT.json` lists each hazard at its line.

## Modules

### RepositoryLifecycle (modelled, checked, proved)

Request threads, analysis threads, the table, and what the analyses have stored.

| Variable | Code |
|---|---|
| `row`, `registered` | the `repositories` table; a UUID is never issued twice |
| `head` | the commit the branch points to on GitHub |
| `client[c]` | a request thread inside `create_repository` or `retry_analysis` |
| `job[j]` | an analysis thread: position in `run_pipeline`, the object its session holds (`cache`), `commit_hash` (`head`), commits still to index (`todo`), `last_commit_sha` (`last`), chunks to store (`new`) |
| `indexed`, `snapshot`, `embedded` | per GitHub id: commits whose method history is saved, commits whose code graph is saved, versions that have a chunk |

Each action is one database read, one commit, or one stage of the pipeline:

* `Create`, `RetryRead`, `RetryCommit`, `Dispatch`, `Delete` are the requests.
  The retry reads and commits in two steps because another request may come in
  between. `RetryCommit` does not test the status again: `transition_status`
  tests the object the first read left in the session.
* `BeginRead`/`BeginCommit`, `FinishRead`/`FinishCommit` and
  `FailRead`/`FailCommit` are the three status changes of a pipeline.
  `Loaded` is `session.get`: the identity map answers first. A commit or a
  rollback expires the objects, so `cache` goes back to `None`; the object of
  the checkpoint query stays referenced by a local variable and survives
  until a commit. `Flushed` is the UPDATE of the attributes that changed.
* `Clone`, `LoadCheckpoint`, `IndexCommit`, `SaveSnapshot`,
  `FindExistingChunks`, `UpsertChunks` are the stages, `StageFails` a failure of
  any of them, `CommitFails` a failed commit (row gone, GitHub id taken,
  database away), `Crash` the end of the process, `Push` the developers.

Not modelled: validation of the request body, GET requests, logging, and the
contents of the stored documents.

Properties:

* `ReadyIsSearchable`: a ready row has a GitHub id, and the snapshot and all
  method versions of its commit are stored. This is what `QAService` relies on.
* `CheckpointCovered`: `history_indexed_sha` never runs ahead of the graph.
* `NoAbandonedAnalysis`: no row is pending or indexing with nobody to settle it.
* `StatusFollowsTable`, `PublicationMovesForward`: what no step may do.
* `OnlyFaultsAbandon`: under every fault, the only steps that leave a row without
  an owner are a crash, a thread or its set-up that does not start, and a
  database that refuses the update that would have told.
* `AnalysisSettles`: an accepted analysis ends (under fairness).

`TypeOK` and `EvidenceInv`, the inductive invariant, are proved and in no run.

### MethodHistory (modelled, checked, proved)

What the method history in Neo4j says of a repository, and who writes it:
overlapping, interrupted and resumed runs of `MethodHistoryIndexer.index`, the
snapshot save at the end of an analysis, and the GitHub import's `PARENT` edges.

| Variable | Code |
|---|---|
| `head[b]` | the commit the branch points to on GitHub; pushes and force-pushes are free |
| `checkpoint[b]` | `history_indexed_sha` of the registration, `None` again after delete and register |
| `job[j]` | a run: commits left (`todo`), the commit it stands at (`last`), `file_methods` (`known`), `previous_versions` (`previous`), methods to mark deleted (`gone`) |
| `versions`, `introduced`, `derived`, `deletedIn`, `parents` | the relationships of the graph, which only grow (`MERGE`) |

A method key contains the path of its file and a version is a method and the
hash of its body, so the indexer's dictionaries by path become functions of the
method. What git says of a commit is computed from its tree and its first
parent's tree by `Changes`, `SupportedChanges`, `CanParse`, `Parsed`, `Popped`:
renames, additions, deletions, modifications, files without a parser, and the
limit on changed files. `SaveCommit` and `MarkDeleted` are the two transactions
of a commit. `Fail` loses what a run knows and keeps what was committed.

Properties:

* `EventsAreChanges`: every `INTRODUCED_IN` and `DELETED_IN` names a commit that
  changed or removed the method against its first parent.
* `CheckpointHistoryComplete`: up to a checkpoint no event is missing.
* `DerivedFromLastBody`: `DERIVED_FROM` leads to the body the method had last.
* `VersionAtCommit`: `find_method_version_at_commit` finds the version valid at a
  commit. It holds on linear first-parent history and fails on merges (below).

`TypeOK` and `RunInv`, the inductive invariant, are proved and in no run.

### RepositoryPublication and RepositoryRefinement (abstract specification, proved)

What the rest of the program may expect of the table: `row` without its
checkpoint, and `searchable[g]`, the commits of a GitHub repository a question
can be answered about. A row may only be published with a commit that is
searchable and a GitHub id no other row has; nothing searchable is ever lost;
the status may change in any order. `RepositoryRefinement` maps
`RepositoryLifecycle` to it: a commit is searchable once `Covered` holds, that
is, its method history, its code graph and its chunks are stored.
`PublicationSpec` is checked by `lifecycle_faults` and proved
(`LifecycleRefines`).

### ChatSessions (composed with RepositoryPublication, checked, proved)

The chat API on top of any implementation of `RepositoryPublication`
(`RepositoryStep` is one of its steps, with the cascades of the foreign keys).

| Variable | Code |
|---|---|
| `session`, `opened` | the `chat_sessions` table; a UUID is never issued twice |
| `messages` | the `chat_messages` table; the random id of a message, which only breaks ties, is left out |
| `request[q]` | a request thread inside `create_session` or `chat` |
| `clock` | `datetime.now(UTC)` in microseconds, bounded by `MaxClock` |

`OpenRead`/`OpenCommit` are the two transactions of `create_session`. A
question is `Ask` (the only check), `ReadHistory` (the rewriter), the searches,
`Stamp` (`create_exchange` reads the session again and takes the time) and
`SaveExchange`, with `PipelineFails`, `SessionGone` and `SaveFails` in between.
It turns out that the test for `ready` in `Ask` is not what makes the evidence
available: `SessionsArePublished` does, because nothing searchable is deleted.

* `SessionsArePublished`: every session has a registered, published repository.
* `ConversationsWhole`: whole exchanges, question first, none without a session.
  It follows from `ConversationSpec` (`WholePromised`), which is what is checked.
* `AnswersFromOwnRepository`: an accepted question has evidence to search until
  its last search.
* `RewriterSeesLatest`: the history window holds the latest exchanges, whole.
  Stated for exchanges more than a microsecond apart (`Apart`): stamps that
  overlap interleave the messages in the list, and the code does not care.

### Conversations and ConversationRefinement (abstract specification, proved)

What the API promises whoever uses it, in six atomic steps: `Begin`,
`CloseSession`, `CloseRepository` (all sessions of a repository at once), `Ask`,
`Answer` and `GiveUp`. A session is opened once, on one repository; what was said
in it goes with it; a question is answered at most once, in the session it was
asked in and while that is open, by a question and a later answer that come
together. `ConversationRefinement` maps `ChatSessions` to it: sessions, UUIDs and
messages as they are, and `Asking(q)`, the session request q has a question under
way in, from `Ask` to the end of the request. The two transactions of
`create_session` are one `Begin` at the commit, `ReadHistory`, `Stamp` and the
analyses are not seen, and every way to end without an answer is `GiveUp`.
`ConversationSpec` is checked in `chat_sessions` and proved.

### QuestionAnswering, AnswerContext and CallFlow (modelled, checked, proved in part)

One question in the LangGraph pipeline, one action per node, on a code graph and
a chunk table that analyses add to between any two nodes.

| Variable | Code |
|---|---|
| `calls` | the `CALLS` and `HTTP_CALLS` relationships, some ambiguous; chosen at the start |
| `indexed` | the commits whose method history is in the graph; `stored`, the MethodVersion nodes, are the versions they brought in |
| `chunk[v]` | the chunk rows and the import that wrote each (`updated_at`) |
| `qa` | `QAState` and the node that is next |

The question, its embedding and the language models become free choices within
what the nodes accept: the kind, the methods whose name it contains, the ranking
of the versions, the target among the candidates. The four traversals are sets
of edges computed as the Cypher patterns define them, the five paths of
`calls_forward` (the owner, endpoints, requests and what their handlers call)
included; `NodesOf` and `EdgesOf`
are `_path_to_graph_dict` with its accessor and ambiguity filters; `BfsVersions`
is the enricher's loop for any order the calls come in. `NodeFails` is any
exception of a node, after which the next question starts over (`AskAgain`).

A version is the text of a method, so a text that comes back (changed and changed
again, or deleted and added again) is one version with an `INTRODUCED_IN` edge from
every commit that brought it: `IntroducedIn` is a relation, and `StoreHistory` may add
further edges to versions that are stored already.

`AnswerContext` has what the last node does before it asks: `History` joins the
versions and deletions of a method in the order of their commits
(`HistoryContextBuilder.build`). Of a version with several commits the builder keeps
one, whichever edge came last; `CommitByVersion` are all the choices this leaves. `Context` is `LLMContextBuilder.build` and
`Fallback` is `build_fallback` with `_fit_budget` and its two truncations. A text
is a number of characters and an item has a fixed number that is never cut, so
`Size` is `_context_size` up to formatting. `ComposeAnswer`, `ProviderLimit` and
`Answered` are the two requests of `AnswerGenerator.generate` with their outcomes;
any other error is `NodeFails`.

`CallFlow` makes the graph that goes with the answer (`qa.shown`). `Flow` is
`CallFlowBuilder.build`: versions become their methods, what leads to an accessor
goes, a root is chosen by its name among those nothing leads to, and
`SelectPrimaryPath` draws a tree breadth first up to `MAX_FLOW_NODES`; `GraphFrom`
is the adapter's `_graph_from`. Names are what the builder looks for in them
(`Priority`, `Mentioned`, `NamedAccessors`, which are not the accessors of the
traversal), and since it iterates over sets, `Orders` may be any that list every method.

* `FlowFindsCalledCode`: the graph a flow question is given, bounded by twice the
  depth in relationships and filtered, lets the enricher find the versions
  within `MAX_CALL_DEPTH` calls, no more and no fewer. The reference,
  `CalledWithin`, never looks at the graph's edges.
* `ImpactFindsCallers`: the same for callers.
* `NamedSymbolAnswered`: symbols are resolved once, the rest may run twice; the
  target stays one of them.
* `NoEvidenceMeansNoChunk`: an answer without evidence means no chunk was found.
* `EvidenceIsConnected`: shown code is the target's or in the graph shown with it.
* `PictureHolds`: no edge is shown without its ends; the picture of a flow is one
  tree within the limit that hangs together, its calls are sure calls of stored
  versions, and the method asked about is in it when nothing stray is.
* `FallbackFits`: the second request is within its budget unless only what the code
  protects is left, and a context above the smallest budget is never given up
  while something in it could go.
* `LatestChangeTold`: neither request of an intent question lacks the latest change
  of the method, deletion or not, among the commits that are kept of its versions; of
  other questions the best hit stays. What is kept need not be the latest commit of
  a version: that is the finding of `qa_returns`.
* `FirstObservedIsFirst`: what is told as first observed is the earliest commit of the
  method's versions. Violated, see the findings.
* `SearchingEnds`: a variant (`NodesLeft`) of the retry loop. It replaces a
  liveness property: given that nodes return, a decreasing number says more, and
  no fairness has to be assumed of language models.

What the model showed and no property is about: the validator's
`explicit_symbol_mismatch` cannot occur; `MAX_RETRIES = 2` allows one second
search (the counter is incremented before it is compared, as
`docs/langgraph_pipeline_checklist.md` says, while `state.py` speaks of the
number of returns); a second search only ever follows empty evidence; a called
method with two versions, that is any method that was ever changed, is not
enriched (`tests/test_evidence_enricher.py` wants that); a hit is shown when its
method is in the graph only through an ambiguous call; the picture of a flow may
begin at a node that only a filtered call led to and then lack the method asked
about, although `traversal.py:357-367` leaves ambiguous calls out so that the
picture shows the flow alone (this is why `PictureHolds` has `NothingStray`); when
an endpoint that nothing leads to has as many handlers as the picture has places, it
may be drawn with others than the method asked about (the proof of `PictureTrue` met
this, which the run is too small for, and it is why `NothingStray` counts them);
`dtos/chat.py:51-56` lists the types of an edge without `handled_by`, which
`qa_response_adapter.py:57` lets through.

### CodeGraph (modelled, checked, proved)

The names in parsed files become relations, and the store keeps all of them.

| Variable | Code |
|---|---|
| `commits[b]` | the trees pushed to branch `b`; a tree gives each path a parsed file |
| `indexed[b]` | `history_indexed_sha` of the branch's registration |
| `run[b]` | an analysis: the head it cloned and the commit it indexes next |
| `nodes`, `relations`, `ambiguous` | Neo4j: keys, relationships, those with the property `ambiguous` |
| `lines` | the `startLine` of the MethodVersion nodes, a property `save` overwrites |

`IndexCommit` saves a document of the files one commit changed, `ImportSnapshot`
one of the files of the checkout; `Finish` writes the checkpoint, which one
registration only can do because the GitHub id is UNIQUE; `Fail` stops an
analysis anywhere. `StructureOf` is `_map_file_document`; `CallCandidates`,
`Narrow`, `ClassCandidates` and `EndpointCandidates` are
`resolve_cross_file_references` with its narrowing by the receiver's type and its
fallback; `Save` is the one transaction of `CodeGraphRepository.save`. A
constructor is a method. Of the properties of nodes `startLine` is modelled, which is
not in the key and so is overwritten by whatever document is saved next
(`SetProperties`, `SET +=`). A document with two nodes of one key and different
properties is refused as a whole (`NoConflicts`, `_validate_nodes`).

* `TypeOK`: also that no document has an edge `_validate_edges` would refuse.
* `LinesHold`: after a finished analysis the versions of the checkout begin at the line
  they have there, though the history is indexed into the same nodes first, and again
  after failures. Stated for versions no other commit moves (`NotMoved`): an analysis of
  another branch, or of later commits that failed half way, does leave its own line
  behind, and TLC refutes the property without that condition.
* `KnownTargetsStored`: after a finished analysis every call and HTTP call of the
  checkout has the callees it means in the source language, inherited ones
  included. The reference, `Meant`, reads the classes of the tree.
* `KnownReceiverExact`: and only those, when the receiver's type is one class that
  has the method.
* `CertainCallsHold`: violated, see the findings.

`NoCallCrossesLanguages` (same names in two languages are never joined) is proved
and in no run. The keys are those of `Identifiers` (`graph/identifiers.py`), which
the chunks share. A parsed file is a record of classes, methods and calls;
`MCCodeGraph` composes this module with the parsers: its files are syntax trees,
and what is saved is what `SourceParsers` makes of them.

### Parsers: SyntaxTrees, JavaParser, JavaScriptParser, TypeScriptParser, PythonParser, HtmlParser, SourceParsers (modelled, checked with SourceFiles and CodeGraph)

A file is the sequence of its nodes in document order with their depths.
`SyntaxTrees` has the walks of `parsers/tree_sitter.py`; each language has a module
with the operators of its file: which nodes become classes (and the module class
of functions outside of any), members, fields, imports and calls, which walk stops
where, and what the qualified name is made of. `SourceParsers` is the registry
and the part of `_map_file_document` that reads a file alone. What the regular
expressions find in a header or an annotation (a layer, a route, a base class) are
attributes of the node; tree-sitter and the grammars are external.

### SourceFiles (modelled, checked, proved)

A developer puts any node into any place of a file that the grammar allows, and
analyses store the chunks of the file in between.

| Variable | Code |
|---|---|
| `path`, `file` | one file and its nodes (external: the developer) |
| `rows` | `code_chunks`: the version, the method, and whether the row is from before the versions |
| `run`, `pending` | an import that is embedding, and what it is going to store |

`StartImport` is the read of the checkout and of the stored versions, `Store` the
transaction of `upsert_chunks`, `ImportFails` a batch or a statement that fails.

* `OneOwner`: a method belongs to exactly one class, however classes, functions,
  anonymous classes and enums are nested.
* `KeysApart`: two Java methods share a key only inside of something without a
  name in the key; functions of two scripts of a page never do.
* `EditsStayLocal`: what is written in one place changes the text of the methods
  around it and no key of any other method.
* `ChunksOfHead`: after an analysis every method has a chunk of the text it has.

What the model showed: the docstring of `_direct_class_members` (`java.py`) says
direct members only, but methods of an anonymous class or an enum inside a method
come with the class around them (`OneOwner` holds, `KeysApart` needs `Unnamed`);
`class_key` (`identifiers.py`) calls a key independent of the order of
declarations, but the class of a script in a page is numbered by its place, so
that a script put before it moves its keys (hence `~Page` in `EditsStayLocal`);
`typescript.py:10-11` keeps type arguments for `MANAGES`, which wants the layer
`Repository` that no TypeScript class gets; of a Java interface that extends
several only the first is kept; the methods of enums outside of a class, arrow
functions in class fields and the classes TypeScript declares abstract are not
handed over at all.

### GitHubHistory (modelled, checked, proved)

The import of issues, pull requests, commits and changed files, one action for
each request to GitHub, each statement of the upsert and each of the statements
of the save, while the repository on GitHub changes.

| Variable | Code |
|---|---|
| `github` | the repository on GitHub: items, texts, merges, heads |
| `job[j]` | an import: request or statement that is next, page, document, open transaction (`tx`, with its row locks), ids it was given |
| `change`, `lastId` | the committed rows of `commit_file_changes` and their sequence |
| `nodes`, `relations`, `state`, `changeId` | Neo4j; of the properties the state of an issue and `fileChangeId` |
| `steady`, `ever` | history variables: what was on GitHub throughout import `j`; the links GitHub ever showed |

`Find` and `Flush` are the read and the write of one changed file. The order
inside `Flush` matters: the autoflush writes the row, and so takes its lock,
before `change.hunks` is loaded and cleared; loading the hunks with the row
would leave those of the import it waited for beside its own (the mutant
`HunksFound`). `SaveRelations` drops a relationship whose ends are not stored,
as the `MATCH` does.

* `StableIsStored`: a completed import has stored all that was on GitHub
  throughout it. Exempt is what moved to a page already read (after a deletion
  or a force-push) and, while imports overlap, the state of an issue: there the
  import that saves last wins.
* `NothingInvented`: no link is stored that GitHub never showed. A merge is
  inferred from the message and the parents of a commit. What can go wrong with one
  parent (a squash, a quotation) is covered; that a commit with two parents and the
  message of a merge is that merge is assumed, because the code believes it too.
* `ChangeIdsResolve`: an id in Neo4j is that of a committed row.
* `HunksOfOneImport`: the hunks of a row are those of exactly one import.

## What each run checks

TLC on small instances, each exhaustive within its bounds. `PROJECT.json` names
for every property a mutated definition under which the same run fails.

| Run | Question | Bounds, and why they are enough |
|---|---|---|
| `lifecycle_faults` | does what is published stay searchable, and every row owned, under every fault, with deletion and registration again and force-pushes, and does the analysis of two registrations sharing one GitHub repository implement `PublicationSpec`? | two rows and two URL/branch pairs of one repository, so that the second row to publish fails at its last commit for the UNIQUE id; two commits, so that a force-push resets the branch (`history_fork` has siblings); one request thread, two analyses |
| `lifecycle_settles` | do overlapping retries and analyses keep every row owned, and does an accepted analysis end? | one row, two request threads, two analyses, one commit, stages may fail, `FairSpec`. Two of each is what a read and a commit need to be separated by another one |
| `lifecycle_transitions` | can overlapping retries leave the transition table? (they can) | as `lifecycle_settles` |
| `history_fork` | is the method history that of the commits? | five commits with a fork, two supported files and one other, three methods (renames), two bodies, two runs |
| `history_merge` | the version at a merge (it may be wrong) | six commits with a merged side branch, one method, one run |
| `chat_sessions` | deletions, analyses and questions side by side, and seen as `Conversations` | two requests, sessions, exchanges, UUIDs; clock up to 3; a history of one exchange, so that it is cut |
| `qa_pipeline` | the pipeline on 15 call graphs, up to the graph that is shown | five methods in a row of calls that may close to a cycle, an accessor, one ambiguous call or none, a request of an endpoint in place of a call, one method that gets its first code back, one that is deleted and added again and one that stays deleted, in three commits; depth 2, two hits, pictures of three nodes, so that the limit is met; contexts of up to some 60 characters with budgets of 5 to 7, so that each limit is met and every kind of cut is made |
| `qa_returns` | is what is told as first observed the first commit? (not always) | as `qa_pipeline` |
| `codegraph_saves` | has the store the callees the source means, and the lines of the analysed checkout? | two branches with two commits and one, four trees: inherited, ambiguous, vendored and cross-language methods, three spellings of a route; the files are syntax trees and go through the parsers |
| `codegraph_partial` | are calls that are marked certain right? (not all) | one branch, two commits, the second without the callee's file |
| `source_files` | does every method keep its owner and its key, and get its chunk? | every file of up to four nodes, every page of up to five, two imports; a class, what may stand around it and two methods fit into that |
| `github_imports` | do overlapping and failing imports store what GitHub shows? | two imports of two branches, two issues and a pull request, pages of one item, four commits, one file; three changes or starts, enough for a change during an import and one import beside another |

`MaxHistory`, `MaxClock`, `Exchanges`, `MaxImports`, `MaxCommits`, `MaxEvents` and
`MaxNodes` are the bounds that are not the code's; the character limits of `qa_pipeline` are
the code's scaled down. `MaxEvents` counts the changes on GitHub and the starts
of imports; `Initial` has a repository before and after the pull request is
opened, so that the three events need not build it up. `lifecycle_settles`,
`lifecycle_transitions`, `github_imports` and `source_files` allow deadlock: a
single UUID is never issued again, and events, nodes and imports run out. Symmetry is used on threads, row
UUIDs, sessions and exchanges only: clients, jobs and rows in the lifecycle runs; rows,
sessions, requests and exchanges in `chat_sessions`; runs in the history runs;
imports in `github_imports`; and never with liveness.

Fairness. `FairSpec` has weak fairness of every `ClientStep` and `JobStep`: a
request that was accepted and a thread that was started go on being scheduled.
Nothing is assumed of new requests, pushes, failures or crashes. The other
specifications have no fairness.

## Findings

* `transition_status` has no row lock and does not compare the old status in its
  UPDATE (`lifecycle_transitions`): indexing may go back to pending.
* `find_method_version_at_commit` takes the nearest event over all `PARENT`
  edges (`history_merge`): a short side branch leads to an older version.
* `HistoryContextBuilder.build` keeps one commit per version in a dictionary
  (`history_context_builder.py:45,61`), from edges without an order (`qa_returns`): when
  the first code of a method comes back, either its first commit is lost, and the code
  that replaced it is told as `first_observed`, or its return is.
* `MethodHistoryIndexer.index` resolves names over the changed files of a commit
  only (`codegraph_partial`), although `graph/mappings.py:17-19` wants all files of
  the project: a call whose callee did not change is linked to a namesake that
  did, as a certain call, and nothing ever removes it.

## What is proved

All for any number of rows, threads, commits, methods, sessions, files, from the
named assumptions on the constants (`ConstantsAssumption`, `HistoryAssumption`,
`PublicationAssumption`, `ChatAssumption`, `NullAssumption`, `TreeAssumption`,
`GraphAssumption`, `ReferenceAssumption`, `NamesAssumption`, `ImportAssumption`,
`MergeAssumption` (an import may start on a repository that has merges, and they are
those of its pull requests), `OrderAssumption` (the order of GitHub's lists),
`QuestionAssumption` and `ContextAssumption` (finitely many nodes, told apart by their
kind, as the prefixes of `graph/identifiers.py` do; a `_node_priority` is at most 4 + 2,
and the labels of a method and of its versions contain the method's name, as
`_node_label` makes them; an order of the calls leaves no method out, because the code
goes through the calls themselves), `FilesAssumption`), which TLC
evaluates in the runs of their module, as it does `FlowAssumption`. Each argument is an
inductive invariant, proved action by action.

* `RepositoryLifecycleProofs`: `TypeCorrect`, by `TypeInv`, which also says
  which fields a job has at which stage. `NothingAbandoned`, assuming that only stages
  fail (`Faults \subseteq {"stage"}`; with a crash or a failed dispatch the row does stay
  behind, see the hazards), and `OnlyFaults` without that assumption: a row loses its
  owner unsettled only in a step that could not report. `NoAbandonedAnalysis` alone is
  not inductive: an analysis that publishes reads the row and commits later, so
  `SeenInv` adds what it must have seen. What a step does to the owner of a row is
  proved once, row by row, as `NextOwner`, and both theorems follow from it.
* `RepositoryEvidenceProofs`: `ReadySearchable`, `CheckpointSafe`, by
  `EvidenceInv`: for every stage, what is stored for the commit in the thread's
  hands, and that a cached object is as good as a row. Needed because the row is
  published from an object that may be older than the row. `LifecycleRefines`: only
  `FinishCommit` writes a commit into a row, the checked-out one or the one the row
  had, and both are covered by `EvidenceInv`. `StatusesFollow` and
  `PublicationsAdvance`, for one request handled at a time (`OneRequest`): by `SoleInv`
  a row has then at most one request or thread that may write it, and what that one
  has read is still what the row holds. With overlapping retries both are false for
  the reason `lifecycle_transitions` shows, so the hypothesis is not a convenience.
* `MethodHistoryProofs`: `EventsCorrect`, `CheckpointComplete`,
  `DerivationCorrect`, by `RunInv`: a run knows exactly the tree of the commit
  it stands at, and everything up to it is stored. So overlapping runs write
  the same events, and the graph, which only grows, never has a wrong one.
  `VersionsFoundAreValid`, for histories without merges (`Linear`; `history_merge`
  shows why): `ParentInv` says the `PARENT` edges are there along with the events;
  then a search over exactly n of them finds the one ancestor at distance n
  (`StepsAre`), the least distance with an event is that of the latest change
  (`DepthGrows`), and from there on the body is kept (`BodyKept`).
  The search is a recursive function and the chain has any length: an induction the
  library's theorems cannot give, because they take an operator. It is done by
  well-founded minima of finite sets instead (`LeastNatural`, `OldestCommit`).
* `ChatSessionsProofs`: `SessionsPublished`, `ExchangesWhole`, `AnswersOwn`, by `ChatInv`,
  which carries along what the abstract specification promises of a published row.
  `LatestRewritten` (`RewriterSeesLatest`) needs more than whole exchanges: by
  `PairsInv` the answer to a question is the one message of its exchange a microsecond
  later. Then of the messages newer than an answer half are answers, and a question
  has its own answer besides (`CountNewer`, a bijection), so a window of
  `2 * MAX_HISTORY_EXCHANGES` messages never ends between the two.
  `ChatsImplement` (`ConversationSpec`), step by step from `ChatInv`: a step of
  `RepositoryPublication` changes at most one row, and a session is on a row that
  is there (`SessionsArePublished`), so the cascade closes the sessions of one
  repository or none; no message is left of a closed session, and none is dropped of
  another (`ConversationsWhole`). `WholePromised` shows that the promise is strong
  enough: `Conversations` alone implies `ConversationsWhole`, by `PromisedInv`.
* `CodeGraphProofs`: `TypeCorrect`, by `EdgeEnds` (every edge a document resolves ends at
  nodes of the same document) and `NoConflicts` (one line for each version), and
  `CallsKeepLanguage`. `TargetsStored` and `LinesTrue` (`LinesHold`), by
  `SnapshotsSaved`: an analysis about to finish has saved the document of its whole
  checkout, and so has the last finished one (`Kept`). Relations stay once saved; a line
  stays because every save from then on is of the checkout's past, which that analysis
  had behind it, or of a commit that has the version at the same line (`LineStays`).
  `ReceiversExact` adds that the edges of one call are told apart by
  their source, which is where `VersionsApart` comes in: two methods with one version
  key would share their calls. The parsers give such keys only to what `KeysApart`
  exempts; TLC evaluates `VersionsApart` on the trees of both runs (`TreesApart`).
* `SourceFilesProofs`: `MethodsHaveOneClass`, from the shape of document order alone.
  `Nested`: two nodes that both contain a third contain one another. `OneParent`:
  a line has one closest line around it of a given kind. With them `JavaOwner`,
  `JavaScriptOwner`, `TypeScriptOwner` and `PythonOwner` show of each language that
  no member is collected by two classes: a walk that stops at nested classes for
  Java, the closest class or the module for the others.
  `ChunksFollowTheFile`, by `RowsInv`: what an import that is embedding is going to
  store and what is in the table cover the file it read; a developer's step ends the
  claim, a failed import changes nothing.
* `QuestionAnsweringProofs`: `QuestionEnds`, by a count of the steps left at every
  node, which falls because a round under way has searched again fewer than
  `MAX_RETRIES` times, and `NamesAnswered`, both by `QuestionInv`: what one node hands
  on to the next, and that a target is a version of a symbol that was matched.
  `EvidenceConnected` and `EvidenceIfFound`, by `EvidenceInv`, which adds the code: the
  edges end at nodes, the target is one of the hits, and whatever the breadth first
  search of the enricher finds was reached by such an edge (`BfsFinds`).
  `LatestTold` (`LatestChangeTold`) and `ContextTypes` (`QATypeOK`), by `GraphInv`: the
  relationships are finitely many and lead where their type says, and the commits among
  the nodes of an intent question are those its relationships lead to (`IntentGraph`:
  an accessor is left out with all its versions, any other method with none). So,
  whichever commit is kept of a version, the history ends with the last commit among
  those kept and the deletions (`HistoryEnds`), and each of the
  steps that make a context smaller keeps that change, or the best hit (`Telling`):
  removing from the end, cutting a code, a source and its difference, and dropping the
  oldest change, in any number and for any budget (`FallbackTells`).
  `FallbackWithinBudget` (`FallbackFits`) adds how much each of these takes away. The
  size is a sum over the items (`SizeParts`, `TotalReplaced`), so one removal lowers it
  and the number of items (`OneRemoved`), a cut of a text is either more than what is
  too much or leaves nothing (`TextCut`), and each loop has as many rounds as there is
  something to take (`AllRemoved`, `CutChangeFits`, `AllDropped`). What a loop leaves
  above the budget is then `Irreducible`, and what changed is smaller (`Shrinks`). The
  loop over a difference ends in `DIFF_LINES` rounds because no change of a built
  history has more lines (`Made`), which `GraphInv` carries to the first request.
  The folds are unrolled once, as an induction over the sets of indices gone through
  (`IndexInduction`, `FoldExists`, `FoldKeeps`), again by well-founded minima.
  `CallersFound` (`ImpactFindsCallers`) is the first result on the traversals themselves:
  `Within` is unrolled to the set reached by `n` hops (`WithinFold`, `WithinNext`), and
  an odd number of hops backward over `HAS_VERSION` and `CALLS` from a method is shown
  to be half as many calls, by an upward induction on the number of calls
  (`CallersReached`). That holds for any graph, so `MAX_CALL_DEPTH * 2 - 1` is right
  in general and not only at the depth the run explores.
  `PictureTrue` (`PictureHolds`), by `PictureInv`: the edges of a question are known
  (`IsKnown`: a call is a sure one of a stored version, a version hangs on its own
  method), also when more is stored meanwhile, and there are none without a target. So
  what may be drawn is a sure call or leads from an endpoint (`MayBeDrawn`). A root and
  sorted lists exist because both orders are total (`FirstOf`, `InOrder`), and every
  edge of a list leaves a tree that hangs on the root (`TreesOf`, `DrawKeeps`, `Drawn`,
  `PathDrawn`). The method asked about has the best name (`RootPriorities`), so the
  picture begins there unless something leads to it; then it can only begin at an
  endpoint the method handles, and the first list that is drawn has the method
  (`BeginsThere`, `FlowDrawn`).
  `CodeFound` (`FlowFindsCalledCode`) has two halves. The search: between two rounds
  (`Layered`) the queue holds versions of two neighbouring depths, the nearer ones first,
  each at its least depth; all that is nearer is found, and what left the queue has led
  to all it leads to. A round keeps that (`VisitGrows`, `ExpandGrows`, `ExpandLayered`),
  and every version is queued once, so after as many rounds as there are versions the
  queue is empty and nothing within the depth is left out (`BfsReaches`). Were the order of the
  queue not kept, a version met first on a longer way would be expanded too late, or
  not at all. The graph: a version `n` sure calls away is `2 * n` relationships away
  (`TwoPerCall`), so below the depth its calls, and every version of what it calls, are
  on the paths; the filters take an accessor with all its versions or nothing, and so
  a method with one version among the nodes has one in the store (`FlowCalls`).
* `GitHubHistoryProofs`: `IdsResolve` and `HunksWhole`, by `TableInv`. An import
  that has written a row is the only one that holds it, and the row kept the id
  of the committed one; an id in an import's hands after its commit is that of a
  row in the table. `ChangeIdsResolve` alone says nothing of ids that are given
  out and not committed.
  `TypesInvariant` is the type invariant the others rest on: ids are drawn from the
  sequence, and the documents have states of issues only. `LinksWereShown` is `NothingInvented`,
  by `LinksInv`: what a document has of heads, texts, merges and commits, and what is
  still to be asked for, was on GitHub when it was read; pull requests are not
  deleted, and a merge in a history stays known whatever is pushed meanwhile. Its
  hypothesis is `MessagesTrue`: a commit with two parents and the message of a merge
  *is* that merge. The mapper infers merges from the message, so a commit written by
  hand with such a message does become a link that GitHub never showed.
  `StableKept` is `StableIsStored`, by `StoringInv`: of everything that was on GitHub
  throughout an import, what it takes to store it is still to come on a page that is
  not read yet, or waits for a request of its own, or is in the document (`Reading`),
  and of the statements sent each has stored its part (`Saved`; the ends of a
  relationship are there because all nodes are sent before). The one hard step is a
  list that changes while it is read (`StillComing`): what is opened or pushed only
  moves the rest to later pages (`OpenFollows`, `HeadFollows`), what is deleted moves it
  to earlier ones, but only what is older (`DeleteFollows`). That is where
  `OrderAssumption` is needed: the code passes no order, and GitHub's own is newest
  first, with commits in one order from whichever head. Other imports may overwrite a
  state, so a state is promised only to an import that runs alone.

Only model-checked: `AnalysisSettles` (liveness is out of the prover's reach, as
is `ENABLED`), and `KeysApart` and `EditsStayLocal` of `SourceFiles` (a key is a string
joined from names, which the provers do not take apart).

## Plan

Done, in this order: RepositoryLifecycle, MethodHistory, RepositoryPublication
with its refinement, ChatSessions with Conversations, QuestionAnswering, CodeGraph, GitHubHistory,
AnswerContext, the parsers with SourceFiles and their composition with
CodeGraph, CallFlow with endpoints and requests in the traversals. Next:

1. An abstract specification of the import's table, implemented by `GitHubHistory`.
2. A composition of `ChatSessions` and `QuestionAnswering`: the chunks of
   `qa_pipeline` as the store `searchable` promises.
3. The rest of the answer: the claims that are parsed from it and the evidence ids
   they may name, which are tested against the first context even when the second
   was answered; claim ids (`claim-{index}` may meet an id the model used).
4. Pull requests and issues in the traversals and the history of a method.

## Not modelled

Formatting of excerpts, prompts, the parsing of the language model's answer, HTTP
validation, configuration and tracing are data or pure input and output. The
grammars of tree-sitter, Neo4j, PostgreSQL, GitHub, git and the language models
are modelled by what the code asks of them. In `QuestionAnswering`, pull requests,
issues and relations between classes only add nodes to the results and are left
out. Each module sees the stores it is about: the GitHub history import is a
stage that may fail in `RepositoryLifecycle`, the source of `PARENT` edges in
`MethodHistory`, and in full in `GitHubHistory`; the code graph is one set of
commits in `RepositoryLifecycle` and in full in `CodeGraph`. `Finish` in
`MethodHistory` and `CodeGraph` has the guard of the UNIQUE GitHub id that
`RepositoryLifecycle` has as a failing commit.
