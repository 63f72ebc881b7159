---------------------------- MODULE MCDisplayGraph ----------------------------
(* Instances of DisplayGraph for TLC: removeCycles by itself on every      *)
(* graph of the nodes of Small, with every choice of starting nodes, and   *)
(* behind the answers of two paths of at most MaxLength nodes, which may   *)
(* revisit a node.                                                         *)
EXTENDS DisplayGraph, Graphs

CONSTANTS Small, MaxLength

SmallGraphs == [edges : SUBSET (Small \X Small), starts : SUBSET Small]
TwoPaths == SeqOf(Nodes, MaxLength) \X SeqOf(Nodes, MaxLength)

(* ReachedFrom is what the library computes from paths of edges.           *)
ASSUME ReachedAssumption ==
    \A g \in SmallGraphs :
        LET connected == ConnectionsIn([node |-> Nodes, edge |-> g.edges])
        IN  ReachedFrom(g.starts, g.edges) = {n \in Nodes : \E s \in g.starts : connected[s, n]}

MCInit == DisplayInit \/ (DfsInit /\ paths = <<>>)
MCNext == DfsNext /\ UNCHANGED paths
MCSpec == MCInit /\ [][MCNext]_<<dfsVars, paths>> /\ WF_<<dfsVars, paths>>(MCNext)
=============================================================================
