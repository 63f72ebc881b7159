---------------------------- MODULE RemoveCycles ----------------------------
(***************************************************************************)
(* The functions removeCycles and dfs of                                   *)
(* src/backend/rules/processgraph/build_graph.go, which make the graph of  *)
(* an attack path acyclic before it is sent to be drawn. The recursion is  *)
(* a stack; one step handles one edge of the node on its top. The edges of *)
(* a node and the starting nodes are taken in any order: the code's order  *)
(* is that of the database's answer.                                       *)
(***************************************************************************)
EXTENDS Naturals, Sequences

CONSTANTS
    Nodes,   \* the nodes of the asset graph
    Inputs   \* the calls: adjacency lists as sets of edges, starting nodes

ASSUME InputsAssumption ==
    Inputs \subseteq [edges : SUBSET (Nodes \X Nodes), starts : SUBSET Nodes]

VARIABLES
    edges,   \* adjacencyList
    starts,  \* startingNodeIds
    kept,    \* newAdjacencyList
    mark,    \* status: 0 not visited, 1 being visited, 2 done
    left,    \* the edges the active calls of dfs have still to look at
    stack,   \* the nodes of the active calls of dfs, innermost last
    before   \* history: the nodes that were done when a node's call returned

dfsVars == <<edges, starts, kept, mark, left, stack, before>>

DfsTypeOK ==
    /\ edges \subseteq Nodes \X Nodes
    /\ starts \subseteq Nodes
    /\ kept \subseteq edges
    /\ mark \in [Nodes -> 0 .. 2]
    /\ left \subseteq edges
    /\ stack \in Seq(Nodes)
    /\ before \in [Nodes -> SUBSET Nodes]

(* removeCycles is called: nothing is visited, nothing kept.               *)
Begun ==
    /\ kept = {}
    /\ mark = [n \in Nodes |-> 0]
    /\ left = {}
    /\ stack = <<>>
    /\ before = [n \in Nodes |-> {}]

DfsInit ==
    /\ \E g \in Inputs : edges = g.edges /\ starts = g.starts
    /\ Begun

Top == stack[Len(stack)]
Done == {n \in Nodes : mark[n] = 2}
EdgesOf(n) == {e \in edges : e[1] = n}

(* dfs(n) begins; rest is what the calls that wait for it have left.       *)
Enter(n, rest) ==
    /\ mark' = [mark EXCEPT ![n] = 1]
    /\ stack' = Append(stack, n)
    /\ left' = rest \cup EdgesOf(n)

(* removeCycles calls dfs for the next starting node that is not visited.  *)
Start ==
    /\ stack = <<>>
    /\ \E n \in starts : mark[n] = 0 /\ Enter(n, left)
    /\ UNCHANGED <<edges, starts, kept, before>>

(* Mutant: edges to nodes whose visit is not over are kept, too.           *)
KeepEveryEdge(v) == mark[v] \in 0 .. 2

(* Mutant: edges to nodes that are done are dropped, too.                  *)
KeepTreeEdges(v) == mark[v] = 0

Keeps(v) == mark[v] = 0 \/ mark[v] = 2

(* Mutant: the edge is added to the list of its target.                    *)
LookReversed ==
    /\ stack # <<>>
    /\ \E e \in left :
          /\ e[1] = Top
          /\ kept' = IF Keeps(e[2]) THEN kept \cup {<<e[2], e[1]>>} ELSE kept
          /\ IF mark[e[2]] = 0 THEN Enter(e[2], left \ {e})
                               ELSE left' = left \ {e} /\ UNCHANGED <<mark, stack>>
    /\ UNCHANGED <<edges, starts, before>>

(* Mutant: the call for an unvisited target is forgotten.                  *)
LookOnly ==
    /\ stack # <<>>
    /\ \E e \in left :
          /\ e[1] = Top
          /\ kept' = IF Keeps(e[2]) THEN kept \cup {e} ELSE kept
          /\ left' = left \ {e}
    /\ UNCHANGED <<edges, starts, mark, stack, before>>

Look ==
    /\ stack # <<>>
    /\ \E e \in left :
          /\ e[1] = Top
          /\ kept' = IF Keeps(e[2]) THEN kept \cup {e} ELSE kept
          /\ IF mark[e[2]] = 0 THEN Enter(e[2], left \ {e})
                               ELSE left' = left \ {e} /\ UNCHANGED <<mark, stack>>
    /\ UNCHANGED <<edges, starts, before>>

(* Mutant: a node whose call returns counts as not visited again.          *)
ReturnUnmarks ==
    /\ stack # <<>>
    /\ \A e \in left : e[1] # Top
    /\ mark' = [mark EXCEPT ![Top] = 0]
    /\ stack' = SubSeq(stack, 1, Len(stack) - 1)
    /\ before' = [before EXCEPT ![Top] = Done]
    /\ UNCHANGED <<edges, starts, kept, left>>

Return ==
    /\ stack # <<>>
    /\ \A e \in left : e[1] # Top
    /\ mark' = [mark EXCEPT ![Top] = 2]
    /\ stack' = SubSeq(stack, 1, Len(stack) - 1)
    /\ before' = [before EXCEPT ![Top] = Done]
    /\ UNCHANGED <<edges, starts, kept, left>>

Finished == stack = <<>> /\ \A n \in starts : mark[n] # 0

DfsNext == Start \/ Look \/ Return

DfsSpec == DfsInit /\ [][DfsNext]_dfsVars

DfsFairSpec == DfsSpec /\ WF_dfsVars(DfsNext)

-----------------------------------------------------------------------------
(* Why the result has no cycle: along every edge that is kept, the call    *)
(* for the target returns before the call for the source.                  *)

OnStackAbove(u, v) ==
    \E i, j \in 1 .. Len(stack) : i < j /\ stack[i] = u /\ stack[j] = v

KeptEdgesDescend ==
    \A e \in kept :
        \/ /\ mark[e[1]] = 2
           /\ e[2] \in before[e[1]]
           /\ before[e[2]] \subseteq before[e[1]]
        \/ mark[e[1]] = 1 /\ mark[e[2]] = 2
        \/ OnStackAbove(e[1], e[2])

(* A node is being visited exactly while it is on the stack, once.         *)
StackIsMarked ==
    /\ \A i \in 1 .. Len(stack) : mark[stack[i]] = 1
    /\ \A i, j \in 1 .. Len(stack) : stack[i] = stack[j] => i = j
    /\ \A n \in Nodes : mark[n] = 1 => \E i \in 1 .. Len(stack) : stack[i] = n

BeforeIsDone ==
    \A n \in Nodes : n \notin before[n] /\ before[n] \subseteq Done

DfsInv == DfsTypeOK /\ StackIsMarked /\ BeforeIsDone /\ KeptEdgesDescend

(* What the viewer of an attack path is owed when removeCycles returns.    *)

(* The nodes that edges of E lead to from S: those of every set that holds *)
(* S and that no edge of E leaves.                                         *)
Closed(C, E) == \A e \in E : e[1] \in C => e[2] \in C

ReachedFrom(S, E) ==
    {n \in Nodes : \A C \in SUBSET Nodes : S \subseteq C /\ Closed(C, E) => n \in C}

(* The graph that is sent has no cycle, not even a loop at one node: along *)
(* each of its edges the nodes that were done before become strictly less. *)
ResultDescends ==
    Finished => \A e \in kept :
        before[e[2]] \subseteq before[e[1]] /\ before[e[2]] # before[e[1]]

(* Every node that the starting nodes led to is still led to: removing     *)
(* cycles hides no part of an attack path.                                 *)
ResultReachesTheSame ==
    Finished => ReachedFrom(starts, kept) = ReachedFrom(starts, edges)

(* Only edges that would close a cycle are missing.                        *)
OnlyCyclesRemoved ==
    Finished => \A e \in edges \ kept :
                    e[1] \in ReachedFrom(starts, edges)
                        => e[1] \in ReachedFrom({e[2]}, kept)

(* removeCycles returns for every graph, however many cycles it has.       *)
Returns == <>Finished
=============================================================================
