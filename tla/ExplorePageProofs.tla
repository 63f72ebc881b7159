-------------------------- MODULE ExplorePageProofs --------------------------
(***************************************************************************)
(* Proofs about the access explorer, for any assets and actions and any    *)
(* number of requests: the page never asks for a graph that the backend    *)
(* has no producer of, and a user who waits for answers sees the graph of  *)
(* the choice.                                                             *)
(***************************************************************************)
EXTENDS ExplorePage, TLAPS

-----------------------------------------------------------------------------
(* What is asked for.                                                      *)
RequestOf(a, q, x) == [n |-> count + 1, asset |-> a, query |-> q, action |-> x]

LEMMA AskTyped ==
    ASSUME ConstantsFit, TypeOK,
           NEW a \in Assets, NEW q \in Queries, NEW x \in Actions, Ask(a, q, x)
    PROVE  /\ count' \in 0 .. MaxAsked
           /\ RequestOf(a, q, x) \in Request
           /\ asked' = asked \cup {RequestOf(a, q, x)}
  <1>1. MaxAsked \in Nat /\ count \in 0 .. MaxAsked
    BY DEF ConstantsFit, TypeOK
  <1>2. count + 1 \in 1 .. MaxAsked
    BY <1>1 DEF Ask
  <1> QED
    BY <1>1, <1>2 DEF Ask, Request, RequestOf

(* The tables of kinds of path.                                            *)
LEMMA Buttons ==
    ASSUME ConstantsFit
    PROVE  /\ \A a \in Assets :
                 /\ a # NoAsset
                 /\ Nav[Category[a]][1] \in KindsFor(a) \cap producerMapping[Category[a]]
                 /\ \A i \in DOMAIN Nav[Category[a]] :
                       Nav[Category[a]][i] \in KindsFor(a) \cap producerMapping[Category[a]]
                 /\ producerMapping[Category[a]] \subseteq KindsFor(a)
                 /\ KindsFor(a) \subseteq Queries
                 /\ Category[a] = "s3Buckets" => KindsFor(a) = producerMapping[Category[a]]
           /\ KindsFor(NoAsset) = {""} /\ "" \notin Queries
           /\ \A a, b \in Assets : ~Remounted(a, b) => KindsFor(a) = KindsFor(b)
  <1>1. /\ Nav["s3Buckets"] = <<"reachableAction">>
        /\ Nav["ec2Instances"] = <<"reachableFrom">>
        /\ \A c \in {"iamUsers", "iamRoles"} : Nav[c] = <<"reachableFrom", "reachableTo">>
        /\ producerMapping["s3Buckets"] = {"reachableAction"}
        /\ producerMapping["ec2Instances"] = {"reachableFrom"}
        /\ \A c \in {"iamUsers", "iamRoles"} :
              producerMapping[c] = {"reachableFrom", "reachableTo"}
    BY DEF Nav, producerMapping
  <1>2. \A a \in Assets : Category[a] \in Categories /\ a # NoAsset
    BY DEF ConstantsFit
  <1>3. "reachableAction" \in Queries /\ "reachableTo" \in Queries /\ "reachableFrom" \in Queries
        /\ "" \notin Queries
    BY DEF Queries
  <1>4. KindsFor(NoAsset) = {""}
    BY DEF KindsFor
  <1>5. ASSUME NEW a \in Assets
        PROVE  /\ Nav[Category[a]][1] \in KindsFor(a) \cap producerMapping[Category[a]]
               /\ \A i \in DOMAIN Nav[Category[a]] :
                      Nav[Category[a]][i] \in KindsFor(a) \cap producerMapping[Category[a]]
               /\ KindsFor(a) \subseteq Queries
               /\ producerMapping[Category[a]] \subseteq KindsFor(a)
               /\ Category[a] = "s3Buckets" => KindsFor(a) = producerMapping[Category[a]]
    <2> DEFINE c == Category[a]
               nav == Nav[Category[a]]
               kinds == KindsFor(a)
    <2>1. CASE c = "s3Buckets"
      <3>1. kinds = {"reachableAction"} /\ nav = <<"reachableAction">>
        BY <1>1, <1>2, <2>1 DEF KindsFor
      <3>2. producerMapping[c] = {"reachableAction"}
        BY <1>1, <2>1
      <3> HIDE DEF nav, kinds, c
      <3>3. nav[1] = "reachableAction" /\ \A i \in DOMAIN nav : nav[i] = "reachableAction"
        BY <3>1
      <3> QED
        BY <1>3, <3>1, <3>2, <3>3 DEF nav, kinds, c
    <2>2. CASE c = "ec2Instances"
      <3>1. kinds = {"reachableFrom", "reachableTo"} /\ nav = <<"reachableFrom">>
        BY <1>1, <1>2, <2>2 DEF KindsFor
      <3>2. producerMapping[c] = {"reachableFrom"}
        BY <1>1, <2>2
      <3> HIDE DEF nav, kinds, c
      <3>3. nav[1] = "reachableFrom" /\ \A i \in DOMAIN nav : nav[i] = "reachableFrom"
        BY <3>1
      <3> QED
        BY <1>3, <2>2, <3>1, <3>2, <3>3 DEF nav, kinds, c
    <2>3. CASE c \in {"iamUsers", "iamRoles"}
      <3>1. kinds = {"reachableFrom", "reachableTo"} /\ nav = <<"reachableFrom", "reachableTo">>
        BY <1>1, <1>2, <2>3 DEF KindsFor
      <3>2. producerMapping[c] = {"reachableFrom", "reachableTo"}
        BY <1>1, <2>3
      <3> HIDE DEF nav, kinds, c
      <3>3. /\ nav[1] = "reachableFrom"
            /\ \A i \in DOMAIN nav : nav[i] \in {"reachableFrom", "reachableTo"}
        BY <3>1
      <3> QED
        BY <1>3, <2>3, <3>1, <3>2, <3>3 DEF nav, kinds, c
    <2> QED
      BY <1>2, <2>1, <2>2, <2>3 DEF Categories
  <1>6. \A a, b \in Assets : ~Remounted(a, b) => KindsFor(a) = KindsFor(b)
    BY <1>2 DEF Remounted, KindsFor
  <1> QED
    BY <1>2, <1>3, <1>4, <1>5, <1>6

LEMMA ExploreInit == ConstantsFit /\ Init => GraphInv
  <1> SUFFICES ASSUME ConstantsFit, Init PROVE GraphInv
    OBVIOUS
  <1>1. TypeOK
    <2>1. MaxAsked \in Nat /\ FirstAction \in Actions
      BY DEF ConstantsFit
    <2>2. 0 \in 0 .. MaxAsked
      BY <2>1
    <2>3. count = 0
      BY DEF Init
    <2> QED
      BY <2>1, <2>2, <2>3 DEF Init, TypeOK
  <1>2. query \in KindsFor(asset)
    BY Buttons DEF Init
  <1> QED
    BY <1>1, <1>2 DEF Init, GraphInv, RequestsInv, OnlyAnswerableRequests, GraphOfChoice

(* The choice changes and, with it, what is asked for.                     *)
LEMMA ChoicePreserves ==
    ASSUME ConstantsFit, RequestsInv, AskGraph(asset', query', action'),
           asset' \in Assets \cup {NoAsset}, action' \in Actions,
           query' \in KindsFor(asset'),
           <<query', action'>> = <<query, action>> \/ query' = ""
               \/ (asset' # NoAsset /\ query' \in producerMapping[Category[asset']]),
           loaded' \in BOOLEAN, typed' \in BOOLEAN, open' \in BOOLEAN,
           graph' \in {graph, NoGraph}, UNCHANGED looked
    PROVE  /\ RequestsInv'
           /\ \/ asked' = asked
              \/ /\ asked' # {} /\ asked \subseteq asked'
                 /\ \A r \in asked' \ asked : <<r.asset, r.query, r.action>> = choice'
  <1> DEFINE r == RequestOf(asset', query', action')
  <1>1. /\ query' \in Queries \cup {""}
        /\ asset' = NoAsset => query' = ""
        /\ asset' # NoAsset => asset' \in Assets /\ query' \in Queries
    BY Buttons
  <1>2. /\ node' \in Assets \cup {Nothing} /\ edge' \in Edges \cup {Nothing}
    BY DEF AskGraph, Refresh, RequestsInv, TypeOK
  <1>3. CASE UNCHANGED <<asked, count>>
    <2>1. TypeOK'
      BY <1>1, <1>2, <1>3 DEF RequestsInv, TypeOK
    <2> QED
      BY <1>3, <2>1 DEF RequestsInv, OnlyAnswerableRequests
  <1>4. CASE ~UNCHANGED <<asked, count>>
    <2>1. /\ query' # "" /\ Ask(asset', query', action')
          /\ <<query', action'>> # <<query, action>>
      BY <1>4 DEF AskGraph, Refresh
    <2>2. asset' \in Assets /\ query' \in Queries /\ query' \in producerMapping[Category[asset']]
      BY <1>1, <2>1
    <2>3. count' \in 0 .. MaxAsked /\ r \in Request /\ asked' = asked \cup {r}
      BY <2>1, <2>2, AskTyped DEF RequestsInv
    <2>4. r.asset = asset' /\ r.query = query' /\ r.action = action'
      BY DEF RequestOf
    <2> HIDE DEF r
    <2>5. TypeOK'
      BY <1>1, <1>2, <2>3 DEF RequestsInv, TypeOK
    <2>6. OnlyAnswerableRequests'
      BY <2>2, <2>3, <2>4 DEF RequestsInv, OnlyAnswerableRequests
    <2> QED
      BY <2>3, <2>4, <2>5, <2>6 DEF RequestsInv, choice
  <1> QED
    BY <1>3, <1>4

LEMMA ChoiceSteps ==
    ASSUME ConstantsFit, RequestsInv,
           \/ \E a \in Assets : Select(a)
           \/ Clear
           \/ \E i \in 1 .. 2 : ChooseQuery(i)
           \/ \E x \in Actions : ChooseAction(x)
    PROVE  /\ RequestsInv'
           /\ UserActs /\ graph' \in {graph, NoGraph}
           /\ \/ asked' = asked
              \/ /\ asked' # {} /\ asked \subseteq asked'
                 /\ \A r \in asked' \ asked : <<r.asset, r.query, r.action>> = choice'
  <1>1. /\ loaded \in BOOLEAN /\ typed \in BOOLEAN /\ open \in BOOLEAN
        /\ asset \in Assets \cup {NoAsset} /\ query \in KindsFor(asset) /\ action \in Actions
        /\ FirstAction \in Actions
    BY DEF RequestsInv, TypeOK, ConstantsFit
  <1>2. ASSUME NEW a \in Assets, Select(a)
        PROVE  /\ query' \in KindsFor(a)
               /\ query' = query \/ query' \in producerMapping[Category[a]]
    <2>1. query' = QueryOfRadio(asset, a)
      BY <1>2 DEF Select
    <2>2. CASE Remounted(asset, a)
      BY <2>1, <2>2, Buttons DEF QueryOfRadio
    <2>3. CASE ~Remounted(asset, a)
      <3>1. asset \in Assets
        BY <1>1, <2>3 DEF Remounted
      <3> QED
        BY <1>1, <2>1, <2>3, <3>1, Buttons DEF QueryOfRadio
    <2> QED
      BY <2>2, <2>3
  <1>3. CASE \E a \in Assets : Select(a)
    <2>1. PICK a \in Assets : Select(a)
      BY <1>3
    <2>2. /\ asset' = a /\ UserActs /\ UNCHANGED <<loaded, action, graph, looked>>
          /\ typed' = FALSE /\ open' = (open /\ ~typed /\ asset # NoAsset)
          /\ AskGraph(a, query', action)
      BY <2>1 DEF Select
    <2>3. a # NoAsset
      BY DEF ConstantsFit
    <2> QED
      BY <1>1, <1>2, <2>1, <2>2, <2>3, ChoicePreserves
  <1>4. CASE Clear
    <2>1. /\ asset' = NoAsset /\ query' = "" /\ action' = FirstAction
          /\ graph' = NoGraph /\ UserActs
          /\ AskGraph(NoAsset, "", FirstAction)
          /\ open' \in {FALSE, typed /\ loaded /\ TRUE}
          /\ UNCHANGED <<loaded, typed, looked>>
      BY <1>4 DEF Clear, Filter
    <2> QED
      BY <1>1, <2>1, Buttons, ChoicePreserves
  <1>5. CASE \E i \in 1 .. 2 : ChooseQuery(i)
    <2>1. PICK i \in 1 .. 2 : ChooseQuery(i)
      BY <1>5
    <2>2. /\ asset # NoAsset /\ UserActs /\ i \in DOMAIN Nav[Category[asset]]
          /\ query' = Nav[Category[asset]][i]
          /\ AskGraph(asset, query', action)
          /\ UNCHANGED <<loaded, typed, open, asset, action, graph, looked>>
      BY <2>1 DEF ChooseQuery, listVars
    <2> QED
      BY <1>1, <2>2, Buttons, ChoicePreserves
  <1>6. CASE \E x \in Actions : ChooseAction(x)
    <2>1. PICK x \in Actions : ChooseAction(x)
      BY <1>6
    <2>2. /\ asset # NoAsset /\ UserActs /\ Category[asset] = "s3Buckets"
          /\ action' = x
          /\ AskGraph(asset, query, x)
          /\ UNCHANGED <<loaded, typed, open, asset, query, graph, looked>>
      BY <2>1 DEF ChooseAction, listVars
    <2> QED
      BY <1>1, <2>2, Buttons, ChoicePreserves
  <1> QED
    BY <1>3, <1>4, <1>5, <1>6

LEMMA OtherSteps ==
    ASSUME ConstantsFit, RequestsInv,
           \/ handleSearchChange \/ onFocus \/ getExploreAssetInfo
           \/ \E a \in Assets : NodeClick(a)
           \/ \E e \in Edges : EdgeClick(e)
           \/ \E r \in looked : getNodeInfoData(r) \/ getSelectedEdgeInfo(r)
    PROVE  RequestsInv' /\ UNCHANGED <<asset, query, action, graph, asked>>
  <1> USE DEF RequestsInv
  <1>1. /\ loaded \in BOOLEAN /\ typed \in BOOLEAN /\ open \in BOOLEAN
        /\ node \in Assets \cup {Nothing} /\ edge \in Edges \cup {Nothing}
        /\ looked \in SUBSET Lookup /\ count \in 0 .. MaxAsked /\ MaxAsked \in Nat
    BY DEF TypeOK, ConstantsFit
  <1>2. UNCHANGED <<asset, query, action, graph, asked>>
    BY DEF handleSearchChange, onFocus, getExploreAssetInfo, NodeClick, EdgeClick,
           getNodeInfoData, getSelectedEdgeInfo, choice
  <1>3. /\ \A a \in Assets : Look("node", a) => looked' \in SUBSET Lookup /\ count' \in 0 .. MaxAsked
        /\ \A e \in Edges : Look("edge", e) => looked' \in SUBSET Lookup /\ count' \in 0 .. MaxAsked
    <2>1. count < MaxAsked => count + 1 \in 1 .. MaxAsked /\ count + 1 \in 0 .. MaxAsked
      BY <1>1
    <2>2. ASSUME NEW a \in Assets, Look("node", a)
          PROVE  looked' \in SUBSET Lookup /\ count' \in 0 .. MaxAsked
      BY <1>1, <2>1, <2>2 DEF Look, Lookup
    <2>3. ASSUME NEW e \in Edges, Look("edge", e)
          PROVE  looked' \in SUBSET Lookup /\ count' \in 0 .. MaxAsked
      BY <1>1, <2>1, <2>3 DEF Look, Lookup
    <2> QED
      BY <2>2, <2>3
  <1>4. /\ loaded' \in BOOLEAN /\ typed' \in BOOLEAN /\ open' \in BOOLEAN
    BY <1>1 DEF handleSearchChange, onFocus, getExploreAssetInfo, NodeClick, EdgeClick,
           getNodeInfoData, getSelectedEdgeInfo, listVars, Filter
  <1>5. /\ node' \in Assets \cup {Nothing} /\ edge' \in Edges \cup {Nothing}
        /\ looked' \in SUBSET Lookup /\ count' \in 0 .. MaxAsked
    <2>1. CASE handleSearchChange \/ onFocus \/ getExploreAssetInfo
      BY <1>1, <2>1 DEF handleSearchChange, onFocus, getExploreAssetInfo
    <2>2. CASE \E a \in Assets : NodeClick(a)
      <3>1. PICK a \in Assets : NodeClick(a)
        BY <2>2
      <3>2. edge' = Nothing /\ node' = node /\ (Look("node", a) \/ UNCHANGED <<looked, count>>)
        BY <3>1 DEF NodeClick
      <3> QED
        BY <1>1, <1>3, <3>2
    <2>3. CASE \E e \in Edges : EdgeClick(e)
      <3>1. PICK e \in Edges : EdgeClick(e)
        BY <2>3
      <3>2. node' = Nothing /\ edge' \in {e, edge} /\ Look("edge", e)
        BY <3>1 DEF EdgeClick
      <3> QED
        BY <1>1, <1>3, <3>2
    <2>4. CASE \E r \in looked : getNodeInfoData(r) \/ getSelectedEdgeInfo(r)
      <3>1. PICK r \in looked : getNodeInfoData(r) \/ getSelectedEdgeInfo(r)
        BY <2>4
      <3>2. r \in Lookup
        BY <1>1
      <3>3. /\ r.kind = "node" => r.of \in Assets
            /\ r.kind = "edge" => r.of \in Edges
        BY <3>2 DEF Lookup
      <3> QED
        BY <1>1, <3>1, <3>3 DEF getNodeInfoData, getSelectedEdgeInfo
    <2> QED
      BY <2>1, <2>2, <2>3, <2>4
  <1>6. TypeOK'
    BY <1>2, <1>4, <1>5 DEF TypeOK
  <1> QED
    BY <1>2, <1>6 DEF OnlyAnswerableRequests

LEMMA GraphArrives ==
    ASSUME RequestsInv, NEW r \in asked, getAssetRelationGraph(r)
    PROVE  /\ RequestsInv' /\ UNCHANGED <<asset, query, action>>
           /\ asked' = asked \ {r} /\ graph' \in {r, Failed}
  <1>1. /\ UNCHANGED <<loaded, typed, open, asset, query, action, node, edge, looked, count>>
        /\ asked' = asked \ {r} /\ graph' \in {r, Failed}
    BY DEF getAssetRelationGraph, listVars, choice
  <1>2. asked \in SUBSET Request
    BY DEF RequestsInv, TypeOK
  <1>3. TypeOK'
    BY <1>1, <1>2 DEF RequestsInv, TypeOK
  <1> QED
    BY <1>1, <1>3 DEF RequestsInv, OnlyAnswerableRequests

LEMMA RequestsStep == ConstantsFit /\ RequestsInv /\ [Next]_vars => RequestsInv'
  <1> SUFFICES ASSUME ConstantsFit, RequestsInv, [Next]_vars PROVE RequestsInv'
    OBVIOUS
  <1>1. CASE UNCHANGED vars
    BY <1>1 DEF vars, RequestsInv, TypeOK, OnlyAnswerableRequests
  <1> QED
    BY <1>1, ChoiceSteps, OtherSteps, GraphArrives DEF Next, UserEvent, Answer

LEMMA GraphStep == ConstantsFit /\ Calm /\ GraphInv /\ [Next]_vars => GraphInv'
  <1> SUFFICES ASSUME ConstantsFit, Calm, GraphInv, [Next]_vars PROVE GraphInv'
    OBVIOUS
  <1>1. RequestsInv'
    BY RequestsStep DEF GraphInv
  <1>2. CASE UNCHANGED <<asset, query, action, graph, asked>>
    BY <1>1, <1>2 DEF GraphInv, GraphOfChoice, choice
  <1>3. CASE \E r \in asked : getAssetRelationGraph(r)
    <2>1. PICK r \in asked : getAssetRelationGraph(r)
      BY <1>3
    <2>2. /\ UNCHANGED <<asset, query, action>> /\ asked' = asked \ {r} /\ graph' \in {r, Failed}
      BY <2>1, GraphArrives DEF GraphInv
    <2>3. r \in Request /\ <<r.asset, r.query, r.action>> = choice
      BY DEF GraphInv, RequestsInv, TypeOK
    <2> QED
      BY <1>1, <2>2, <2>3 DEF GraphInv, GraphOfChoice, choice
  <1>4. CASE \/ \E a \in Assets : Select(a)
             \/ Clear
             \/ \E i \in 1 .. 2 : ChooseQuery(i)
             \/ \E x \in Actions : ChooseAction(x)
    <2>1. /\ UserActs
          /\ \/ asked' = asked
             \/ /\ asked' # {} /\ asked \subseteq asked'
                /\ \A r \in asked' \ asked : <<r.asset, r.query, r.action>> = choice'
      BY <1>4, ChoiceSteps DEF GraphInv
    <2>2. asked = {}
      BY <2>1 DEF UserActs, Waiting
    <2>3. CASE asked' # {}
      BY <1>1, <2>1, <2>2, <2>3 DEF GraphInv, GraphOfChoice
    <2>4. CASE asked' = {}
      <3>1. GraphOfChoice'
        <4>1. CASE \E a \in Assets : Select(a)
          <5>1. PICK a \in Assets : Select(a)
            BY <4>1
          <5>2. /\ asset = NoAsset /\ asset' = a /\ query' = QueryOfRadio(asset, a)
                /\ AskGraph(a, query', action)
            BY <5>1 DEF Select
          <5>3. query' # "" /\ query = "" /\ action # ""
            <6>1. query' = Nav[Category[a]][1] /\ query' \in producerMapping[Category[a]]
              BY <5>2, Buttons DEF QueryOfRadio, Remounted
            <6>2. producerMapping[Category[a]] \subseteq Queries
              BY Buttons
            <6> QED
              BY <5>2, <6>1, <6>2, Buttons DEF GraphInv, RequestsInv, TypeOK, ConstantsFit
          <5>4. Ask(a, query', action)
            BY <5>2, <5>3 DEF AskGraph, Refresh
          <5> QED
            BY <2>4, <5>4 DEF Ask
        <4>2. CASE Clear
          BY <4>2 DEF Clear, GraphOfChoice
        <4>3. CASE \E i \in 1 .. 2 : ChooseQuery(i)
          <5>1. PICK i \in 1 .. 2 : ChooseQuery(i)
            BY <4>3
          <5>2. /\ asset # NoAsset /\ UNCHANGED <<asset, action, graph>>
                /\ query' = Nav[Category[asset]][i] /\ i \in DOMAIN Nav[Category[asset]]
                /\ AskGraph(asset, query', action)
            BY <5>1 DEF ChooseQuery
          <5>3. query' # "" /\ action # ""
            BY <5>2, Buttons DEF GraphInv, RequestsInv, TypeOK, ConstantsFit
          <5>4. query' = query
            BY <2>4, <5>2, <5>3 DEF AskGraph, Refresh, Ask
          <5> QED
            BY <2>2, <5>2, <5>4 DEF GraphInv, GraphOfChoice, choice
        <4>4. CASE \E x \in Actions : ChooseAction(x)
          <5>1. PICK x \in Actions : ChooseAction(x)
            BY <4>4
          <5>2. /\ asset # NoAsset /\ UNCHANGED <<asset, query, graph>>
                /\ action' = x /\ AskGraph(asset, query, x)
            BY <5>1 DEF ChooseAction
          <5>3. query # "" /\ x # ""
            BY <5>2, Buttons DEF GraphInv, RequestsInv, TypeOK, ConstantsFit
          <5>4. action' = action
            BY <2>4, <5>2, <5>3 DEF AskGraph, Refresh, Ask
          <5> QED
            BY <2>2, <5>2, <5>4 DEF GraphInv, GraphOfChoice, choice
        <4> QED
          BY <1>4, <4>1, <4>2, <4>3, <4>4
      <3> QED
        BY <1>1, <2>4, <3>1 DEF GraphInv
    <2> QED
      BY <2>3, <2>4
  <1> QED
    BY <1>2, <1>3, <1>4, OtherSteps DEF Next, UserEvent, Answer, vars, GraphInv

-----------------------------------------------------------------------------
(* The page asks only for graphs that the backend has a producer of,       *)
(* although buttons that are reused keep a kind of path that the asset     *)
(* which is chosen next may not have (Explore.tsx:266).                    *)
THEOREM RequestsAreAnswerable == ConstantsFit => (Spec => []OnlyAnswerableRequests)
  <1> SUFFICES ASSUME ConstantsFit PROVE Spec => []OnlyAnswerableRequests
    OBVIOUS
  <1>1. Init => RequestsInv
    BY ExploreInit DEF GraphInv
  <1>2. RequestsInv /\ [Next]_vars => RequestsInv'
    BY RequestsStep
  <1>3. RequestsInv => OnlyAnswerableRequests
    BY DEF RequestsInv
  <1> QED
    BY <1>1, <1>2, <1>3, PTL DEF Spec

(* Once nothing is on the way, a user who waits for answers and clears a   *)
(* choice before the next sees the graph of the choice, or an error        *)
(* (Explore.tsx:67).                                                       *)
THEOREM ChoiceIsDrawn == ConstantsFit /\ Calm => (Spec => []GraphOfChoice)
  <1> SUFFICES ASSUME ConstantsFit, Calm PROVE Spec => []GraphOfChoice
    OBVIOUS
  <1>1. Init => GraphInv
    BY ExploreInit
  <1>2. GraphInv /\ [Next]_vars => GraphInv'
    BY GraphStep
  <1>3. GraphInv => GraphOfChoice
    BY DEF GraphInv
  <1> QED
    BY <1>1, <1>2, <1>3, PTL DEF Spec
=============================================================================
