----------------------------- MODULE ExplorePage -----------------------------
(***************************************************************************)
(* The access explorer of the frontend (Pages/Explore.tsx): the user picks *)
(* a resource, a kind of path and, for a bucket, an action; the page asks  *)
(* for the graph, draws it, and asks for the details of a node or an edge  *)
(* that is clicked.  A step is one event (click, key, answer) with all the *)
(* renders and effects React runs before the next event.                   *)
(***************************************************************************)
EXTENDS Naturals, Sequences

CONSTANTS
    Assets,      \* the resources the backend lists
    Category,    \* Category[a], the asset category of a
    Actions,     \* S3ActionList
    FirstAction, \* its first entry, the default
    Calm,        \* TRUE: the user waits for answers, and clears one choice before the next
    MaxAsked     \* bound on the requests of one visit

Categories == {"iamUsers", "iamRoles", "ec2Instances", "s3Buckets"}

NoAsset == "no asset"  \* emptyAsset

ConstantsFit ==
    /\ NoAsset \notin Assets /\ Category \in [Assets -> Categories]
    /\ FirstAction \in Actions /\ "" \notin Actions
    /\ Calm \in BOOLEAN
    /\ MaxAsked \in Nat

Nothing == "nothing"   \* an initial or emptied panel
NoGraph == [draws |-> "nothing"]     \* initDisplayGraph
Failed  == [draws |-> "an error"]    \* graph.data = [], which draws nothing either

\* The kinds of path offered for a category, in the order of the radio buttons.
Nav == [ iamUsers     |-> <<"reachableFrom", "reachableTo">>,
         iamRoles     |-> <<"reachableFrom", "reachableTo">>,
         ec2Instances |-> <<"reachableFrom">>,
         s3Buckets    |-> <<"reachableAction">> ]
Queries == {"reachableFrom", "reachableTo", "reachableAction"}

\* The queries for which the backend has a producer; it refuses the others.
producerMapping == [ iamUsers     |-> {"reachableFrom", "reachableTo"},
                     iamRoles     |-> {"reachableFrom", "reachableTo"},
                     ec2Instances |-> {"reachableFrom"},
                     s3Buckets    |-> {"reachableAction"} ]

Edges == {"stored", "computed"}  \* a computed edge has the id null

VARIABLES
    loaded,    \* exploreAssetsInfo holds the assets
    typed,     \* searchFilter is not empty
    open,      \* filteredAssets is not empty: the list of assets is shown
    asset,     \* the chosen asset; isSelected says that there is one
    query,     \* queryType
    action,    \* actionStr
    graph,     \* the request whose answer is drawn
    node,      \* selectedNodeInfo
    edge,      \* selectedEdgeInfo.edgeID
    asked,     \* graph requests on the way
    looked,    \* node and edge requests on the way
    count      \* requests so far

choice == <<asset, query, action>>
listVars == <<loaded, typed, open>>
vars == <<loaded, typed, open, asset, query, action, graph, node, edge, asked, looked, count>>

Request == [n: 1..MaxAsked, asset: Assets, query: Queries, action: Actions]
Lookup  == [n: 1..MaxAsked, kind: {"node"}, of: Assets]
             \cup [n: 1..MaxAsked, kind: {"edge"}, of: Edges]

TypeOK ==
    /\ loaded \in BOOLEAN /\ typed \in BOOLEAN /\ open \in BOOLEAN
    /\ asset \in Assets \cup {NoAsset}
    /\ query \in Queries \cup {""}
    /\ action \in Actions
    /\ graph \in Request \cup {NoGraph, Failed}
    /\ node \in Assets \cup {Nothing}
    /\ edge \in Edges \cup {Nothing}
    /\ asked \in SUBSET Request
    /\ looked \in SUBSET Lookup
    /\ count \in 0..MaxAsked

Init ==
    /\ loaded = FALSE /\ typed = FALSE /\ open = FALSE
    /\ asset = NoAsset /\ query = "" /\ action = FirstAction
    /\ graph = NoGraph /\ node = Nothing /\ edge = Nothing
    /\ asked = {} /\ looked = {} /\ count = 0

Waiting == asked # {} \/ looked # {}
UserActs == Calm => ~Waiting

-----------------------------------------------------------------------------
\* What the page does of itself once the state has changed.

Ask(a, q, x) ==
    /\ count < MaxAsked
    /\ count' = count + 1
    /\ asked' = asked \cup {[n |-> count + 1, asset |-> a, query |-> q, action |-> x]}

\* Both panels are emptied and, if there is a kind of path, the graph of the
\* choice as it now is is asked for.
Refresh(a, q, x) ==
    /\ node' = Nothing /\ edge' = Nothing
    /\ IF q = "" \/ x = "" THEN UNCHANGED <<asked, count>> ELSE Ask(a, q, x)

\* Mutant: the effect runs for a change of the asset, too.
AskGraphOfAsset(a, q, x) ==
    IF <<a, q, x>> = choice
    THEN UNCHANGED <<node, edge, asked, count>>
    ELSE Refresh(a, q, x)

\* The effect on [queryType, actionStr].
AskGraph(a, q, x) ==
    IF <<q, x>> = <<query, action>>
    THEN UNCHANGED <<node, edge, asked, count>>
    ELSE Refresh(a, q, x)

\* A radio button that is mounted and checked by default sets the kind of path.
\* Buttons of one map are reused by position, so the first is mounted only
\* when there was none or when the bucket's single button comes or goes.
Remounted(old, new) ==
    \/ old = NoAsset
    \/ (Category[old] = "s3Buckets") # (Category[new] = "s3Buckets")

QueryOfRadio(old, new) == IF Remounted(old, new) THEN Nav[Category[new]][1] ELSE query

\* The effect on [searchFilter, exploreAssetsInfo, isSelected]; the text may
\* match no asset.
Filter(t, l, selected) == open' \in {FALSE, t /\ l /\ ~selected}

-----------------------------------------------------------------------------
\* Events of the user.

handleSearchChange ==
    \E t \in BOOLEAN :
        /\ t \/ typed
        /\ typed' = t
        /\ Filter(t, loaded, asset # NoAsset)
        /\ UNCHANGED <<loaded, asset, query, action, graph, node, edge, asked, looked, count>>

onFocus ==
    /\ open' = loaded
    /\ UNCHANGED <<loaded, typed, asset, query, action, graph, node, edge, asked, looked, count>>

\* An asset of the list is clicked.  Its filter effect does not run if neither
\* the text nor isSelected changes.
Select(a) ==
    /\ open /\ UserActs
    /\ Calm => asset = NoAsset
    /\ typed' = FALSE
    /\ open' = (open /\ ~typed /\ asset # NoAsset)
    /\ asset' = a
    /\ query' = QueryOfRadio(asset, a)
    /\ AskGraph(a, query', action)
    /\ UNCHANGED <<loaded, action, graph, looked>>

\* Mutant: the cross forgets the kind of path.
ClearAssetOnly ==
    /\ asset # NoAsset /\ UserActs
    /\ asset' = NoAsset /\ graph' = NoGraph
    /\ Filter(typed, loaded, FALSE)
    /\ UNCHANGED <<loaded, typed, query, action, node, edge, asked, looked, count>>

\* The cross beside the chosen asset.
Clear ==
    /\ asset # NoAsset /\ UserActs
    /\ asset' = NoAsset /\ query' = "" /\ action' = FirstAction
    /\ graph' = NoGraph
    /\ AskGraph(NoAsset, "", FirstAction)
    /\ Filter(typed, loaded, FALSE)
    /\ UNCHANGED <<loaded, typed, looked>>

ChooseQuery(i) ==
    /\ asset # NoAsset /\ UserActs
    /\ i \in DOMAIN Nav[Category[asset]]
    /\ query' = Nav[Category[asset]][i]
    /\ AskGraph(asset, query', action)
    /\ UNCHANGED <<listVars, asset, action, graph, looked>>

ChooseAction(x) ==
    /\ asset # NoAsset /\ UserActs
    /\ Category[asset] = "s3Buckets"
    /\ action' = x
    /\ AskGraph(asset, query, x)
    /\ UNCHANGED <<listVars, asset, query, graph, looked>>

Look(kind, of) ==
    /\ count < MaxAsked
    /\ count' = count + 1
    /\ looked' = looked \cup {[n |-> count + 1, kind |-> kind, of |-> of]}

\* A node of the graph: details are asked for if it is an asset of the list.
NodeClick(a) ==
    /\ graph \notin {NoGraph, Failed} /\ UserActs
    /\ edge' = Nothing
    /\ IF loaded THEN Look("node", a) ELSE UNCHANGED <<looked, count>>
    /\ UNCHANGED <<listVars, choice, graph, node, asked>>

\* An edge of the graph: for a computed one the panel says so, and the request
\* for its details is made nevertheless.
EdgeClick(e) ==
    /\ graph \notin {NoGraph, Failed} /\ UserActs
    /\ node' = Nothing
    /\ edge' = IF e = "computed" THEN e ELSE edge
    /\ Look("edge", e)
    /\ UNCHANGED <<listVars, choice, graph, asked>>

-----------------------------------------------------------------------------
\* Answers, in any order; each may be an error.

\* The list of assets, asked for when the page is mounted; after an error it
\* is empty, as before.
getExploreAssetInfo ==
    /\ ~loaded
    /\ loaded' = TRUE
    /\ Filter(typed, TRUE, asset # NoAsset)
    /\ UNCHANGED <<typed, asset, query, action, graph, node, edge, asked, looked, count>>

getAssetRelationGraph(r) ==
    /\ asked' = asked \ {r}
    /\ \/ graph' = r /\ r.query \in producerMapping[Category[r.asset]]
       \/ graph' = Failed
    /\ UNCHANGED <<listVars, choice, node, edge, looked, count>>

getNodeInfoData(r) ==
    /\ r.kind = "node"
    /\ looked' = looked \ {r}
    /\ node' \in {r.of, Nothing}
    /\ UNCHANGED <<listVars, choice, graph, edge, asked, count>>

\* The backend answers a request without an id with an error; an error empties
\* the panel.
getSelectedEdgeInfo(r) ==
    /\ r.kind = "edge"
    /\ looked' = looked \ {r}
    /\ edge' \in {Nothing} \cup ({r.of} \ {"computed"})
    /\ UNCHANGED <<listVars, choice, graph, node, asked, count>>

UserEvent ==
    \/ handleSearchChange
    \/ onFocus
    \/ \E a \in Assets : Select(a)
    \/ Clear
    \/ \E i \in 1..2 : ChooseQuery(i)
    \/ \E x \in Actions : ChooseAction(x)
    \/ \E a \in Assets : NodeClick(a)
    \/ \E e \in Edges : EdgeClick(e)

Answer ==
    \/ getExploreAssetInfo
    \/ \E r \in asked : getAssetRelationGraph(r)
    \/ \E r \in looked : getNodeInfoData(r)
    \/ \E r \in looked : getSelectedEdgeInfo(r)

Next == UserEvent \/ Answer

Spec == Init /\ [][Next]_vars

-----------------------------------------------------------------------------
\* Every graph the page asks for is one the backend can produce, for an asset,
\* although the kind of path outlives a change of the asset and the buttons are
\* partly reused: the effect must not run before the new buttons are mounted.
OnlyAnswerableRequests ==
    \A r \in asked : r.query \in producerMapping[Category[r.asset]]

\* What makes it so: buttons that are reused keep a kind of path between
\* resources that are no buckets, and nothing is asked for when the kind stays.
KindsFor(a) ==
    IF a = NoAsset THEN {""}
    ELSE IF Category[a] = "s3Buckets" THEN {"reachableAction"}
    ELSE {"reachableFrom", "reachableTo"}
RequestsInv == TypeOK /\ query \in KindsFor(asset) /\ OnlyAnswerableRequests

\* Once nothing is on the way, the graph on the screen answers the choice on
\* the screen (or the request failed).
GraphOfChoice ==
    asked = {} =>
        \/ graph = NoGraph /\ asset = NoAsset
        \/ graph = Failed
        \/ graph \in Request /\ <<graph.asset, graph.query, graph.action>> = choice

\* Of a user who waits for answers, all requests on the way are the choice's.
GraphInv ==
    RequestsInv /\ GraphOfChoice /\ \A r \in asked : <<r.asset, r.query, r.action>> = choice
=============================================================================
