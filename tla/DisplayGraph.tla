----------------------------- MODULE DisplayGraph -----------------------------
(***************************************************************************)
(* From the paths a query returns to the graph that is drawn               *)
(* (CompressPaths and ConvertToDisplayGraph of                             *)
(* src/backend/rules/processgraph/build_graph.go), up to the call of       *)
(* removeCycles and through it.                                            *)
(*                                                                         *)
(* A path is the sequence of its nodes. The relationship that labels a     *)
(* drawn edge is left out: whether one is found between two drawn nodes    *)
(* changes the label and the dots of an edge, never which edges there are. *)
(***************************************************************************)
EXTENDS RemoveCycles, SequencesExt

CONSTANTS
    Hidden,       \* the nodes that are compressed away (CompressNodeBool)
    Unsupported,  \* the nodes ConvertNodeToDisplayNode has no case for
    PathLists     \* the answers of the database: sequences of paths

ASSUME PathsAssumption == \A paths \in PathLists : \A i \in DOMAIN paths : paths[i] \in Seq(Nodes)

VARIABLE paths   \* the paths the query returned

CompressNodeBool(n) == n \in Hidden

(* The nodes of a path that are drawn.                                     *)
Compressed(path) ==
    LET nodesList[i \in 0 .. Len(path)] ==
            IF i = 0 THEN <<>>
            ELSE IF CompressNodeBool(path[i]) THEN nodesList[i - 1]
            ELSE Append(nodesList[i - 1], path[i])
    IN  nodesList[Len(path)]

CompressPaths(list) == {Compressed(list[i]) : i \in DOMAIN list}

(* One unsupported node, and nothing is drawn.                             *)
Convertible(list) == \A p \in CompressPaths(list) : ToSet(p) \cap Unsupported = {}

(* Mutant: a drawn edge for each relationship between two drawn nodes.     *)
EdgesOfRelationships(list) ==
    UNION {{<<list[i][j], list[i][j + 1]>> :
                j \in {k \in 1 .. Len(list[i]) - 1 : {list[i][k], list[i][k + 1]} \cap Hidden = {}}}
           : i \in DOMAIN list}

(* Each drawn node leads to the next one of its path.                      *)
AdjacencyList(list) ==
    UNION {{<<p[i], p[i + 1]>> : i \in 1 .. Len(p) - 1} : p \in CompressPaths(list)}

StartingNodeIds(list) == {p[1] : p \in CompressPaths(list) \ {<<>>}}

ConvertToDisplayGraph(list) ==
    [edges |-> AdjacencyList(list), starts |-> StartingNodeIds(list)]

DisplayInit ==
    /\ paths \in PathLists
    /\ Convertible(paths)
    /\ edges = ConvertToDisplayGraph(paths).edges
    /\ starts = ConvertToDisplayGraph(paths).starts
    /\ Begun

DisplaySpec == DisplayInit /\ [][DfsNext /\ UNCHANGED paths]_<<dfsVars, paths>>

-----------------------------------------------------------------------------
(* Whoever follows the drawn edges from the drawn starting points comes    *)
(* upon every drawn node of every path, past the nodes that were           *)
(* compressed away and the edges that were removed.                        *)
EveryPathIsFollowed ==
    Finished => UNION {ToSet(p) : p \in CompressPaths(paths)} \subseteq ReachedFrom(starts, kept)
=============================================================================
