----------------------------- MODULE AdjacencyGraph ----------------------------
(***************************************************************************)
(* DirectedGraph and UndirectedGraph of algo/graph.go: nodes, edges and,   *)
(* kept beside the edges, the children of every node, which the searches   *)
(* and the detection of cycles go along.  Nodes are numbered in the order  *)
(* in which they are added; the weights of edges are left out.             *)
(***************************************************************************)
EXTENDS Integers, Sequences, FiniteSets, SequencesExt, Functions

CONSTANTS MaxNodes, MaxEdges   (* bounds                                   *)

ASSUME AdjacencyGraphAssumption == MaxNodes \in Nat /\ MaxEdges \in Nat

GraphNodes == 1 .. MaxNodes
NoNode == 0

VARIABLES
  directed,
  nodes, edges,  (* the slices Nodes and Edges                              *)
  children       (* of each node ever added, the slice Children             *)

graphVars == <<directed, nodes, edges, children>>

Dropped(list, n) == SelectSeq(list, LAMBDA c : c # n)

--------------------------------------------------------------------------------
GraphInit ==
  /\ directed \in BOOLEAN
  /\ nodes = <<>> /\ edges = <<>>
  /\ children = <<>>

AddNode ==
  /\ Len(children) < MaxNodes
  /\ children' = Append(children, <<>>)
  /\ nodes' = Append(nodes, Len(children'))
  /\ UNCHANGED <<directed, edges>>

AddEdge(from, to) ==
  LET linked == [children EXCEPT ![from] = Append(@, to)]
  IN  /\ Len(edges) < MaxEdges
      /\ edges' = Append(edges, <<from, to>>)
      /\ children' = IF directed THEN linked ELSE [linked EXCEPT ![to] = Append(@, from)]
      /\ UNCHANGED <<directed, nodes>>

RemoveNode(node) ==
  /\ edges' = SelectSeq(edges, LAMBDA e : node \notin {e[1], e[2]})
  /\ children' = [n \in DOMAIN children |-> IF n # node /\ n \in ToSet(nodes)
                                            THEN Dropped(children[n], node) ELSE children[n]]
  /\ nodes' = Dropped(nodes, node)
  /\ UNCHANGED directed

(* Mutant of RemoveEdge: the other end keeps its child. *)
RemoveEdgeOneEnd(from, to) ==
  /\ edges' = SelectSeq(edges, LAMBDA e : e # <<from, to>> /\ (directed \/ e # <<to, from>>))
  /\ children' = [children EXCEPT ![from] = Dropped(@, to)]
  /\ UNCHANGED <<directed, nodes>>

RemoveEdge(from, to) ==
  LET unlinked == [children EXCEPT ![from] = Dropped(@, to)]
  IN  /\ edges' = SelectSeq(edges, LAMBDA e : e # <<from, to>> /\ (directed \/ e # <<to, from>>))
      /\ children' = IF directed THEN unlinked ELSE [unlinked EXCEPT ![to] = Dropped(@, from)]
      /\ UNCHANGED <<directed, nodes>>

AdjacencyGraphNext ==
  \/ AddNode
  \/ \E n \in ToSet(nodes) :
       \/ RemoveNode(n)
       \/ \E m \in ToSet(nodes) : AddEdge(n, m) \/ RemoveEdge(n, m)

--------------------------------------------------------------------------------
HasEdge(from, to) ==
  \/ <<from, to>> \in ToSet(edges)
  \/ ~directed /\ <<to, from>> \in ToSet(edges)

(* The nodes in the order in which BFS and DFS visit them.                 *)
BFS(start) ==
  LET search[queue \in Seq(GraphNodes), visited \in Seq(GraphNodes)] ==
        IF queue = <<>> THEN visited
        ELSE IF Head(queue) \in ToSet(visited) THEN search[Tail(queue), visited]
        ELSE LET now == Append(visited, Head(queue))
             IN  search[Tail(queue) \o SelectSeq(children[Head(queue)],
                                                 LAMBDA c : c \notin ToSet(now)), now]
  IN  search[<<start>>, <<>>]

DFS(start) ==
  LET search[node \in GraphNodes, visited \in Seq(GraphNodes)] ==
        IF node \in ToSet(visited) THEN visited
        ELSE FoldLeft(LAMBDA seen, child : search[child, seen],
                      Append(visited, node), children[node])
  IN  search[start, <<>>]

(* What the detection of a cycle has visited, the nodes it is in (recStack)*)
(* and whether it has found one, when it leaves a node.                    *)
Detection == [visited : SUBSET GraphNodes, recStack : SUBSET GraphNodes, found : BOOLEAN]
NothingFound == [visited |-> {}, recStack |-> {}, found |-> FALSE]

DirectedDetection(start, before) ==
  LET detect[node \in GraphNodes, d \in Detection] ==
        LET Next1(e, child) ==
              IF e.found THEN e
              ELSE IF child \notin e.visited THEN detect[child, e]
              ELSE [e EXCEPT !.found = child \in e.recStack]
            after == FoldLeft(Next1, [d EXCEPT !.visited = @ \cup {node},
                                               !.recStack = @ \cup {node}], children[node])
        IN  IF after.found THEN after ELSE [after EXCEPT !.recStack = @ \ {node}]
  IN  detect[start, before]

UndirectedDetection(start, before) ==
  LET detect[node \in GraphNodes, parent \in GraphNodes \cup {NoNode}, d \in Detection] ==
        LET Next1(e, child) ==
              IF e.found \/ child = parent THEN e
              ELSE IF child \in e.visited THEN [e EXCEPT !.found = TRUE]
              ELSE detect[child, node, e]
        IN  FoldLeft(Next1, [d EXCEPT !.visited = @ \cup {node}], children[node])
  IN  detect[start, NoNode, before]

IsCyclic ==
  LET From(d, node) ==
        IF d.found \/ node \in d.visited THEN d
        ELSE IF directed THEN DirectedDetection(node, d) ELSE UndirectedDetection(node, d)
  IN  FoldLeft(From, NothingFound, nodes).found

--------------------------------------------------------------------------------
(* Reference definitions, by the edges: the nodes within so many edges of  *)
(* a node, and the cycles.  Parallel edges of an undirected graph are one. *)
LinksOf(list) ==
  LET forth == ToSet(list)
  IN  IF directed THEN forth ELSE forth \cup {<<e[2], e[1]>> : e \in forth}

Within(list, start) ==
  LET links == LinksOf(list)
      reach[d \in 0 .. MaxNodes] ==
        IF d = 0 THEN {start}
        ELSE reach[d - 1] \cup {l[2] : l \in {k \in links : k[1] \in reach[d - 1]}}
  IN  reach
Reachable(list, start) == Within(list, start)[MaxNodes]
Distance(n, m) == Cardinality({d \in 0 .. MaxNodes : m \notin Within(edges, n)[d]})

HasCycle == \E i \in DOMAIN edges : edges[i][1] \in Reachable(RemoveAt(edges, i), edges[i][2])

Occurrences(list, x) == Len(SelectSeq(list, LAMBDA y : y = x))

(* A search visits what can be reached, each node once.                    *)
VisitsReachable(visited, start) ==
  ToSet(visited) = Reachable(edges, start) /\ IsInjective(visited)

(* By distance.                                                            *)
BreadthFirst(visited, start) ==
  \A i \in 1 .. Len(visited) - 1 :
    Distance(start, visited[i]) <= Distance(start, visited[i + 1])

(* A child that waits while a node that is no child of its parent is       *)
(* visited waits for something that was visited after the parent.          *)
DepthFirst(visited) ==
  \A i, j, k \in DOMAIN visited :
    (i < j /\ j < k /\ HasEdge(visited[i], visited[k]) /\ ~HasEdge(visited[i], visited[j]))
      => \E l \in i + 1 .. j - 1 : HasEdge(visited[l], visited[j])

(* However nodes and edges come and go, the children are what the edges    *)
(* say, so that the searches visit what they should in their order; and a  *)
(* cycle is found exactly if there is one.                                 *)
GraphExact ==
  /\ \A n, m \in ToSet(nodes) :
       Occurrences(children[n], m) =
         Occurrences(edges, <<n, m>>) + (IF directed THEN 0 ELSE Occurrences(edges, <<m, n>>))
  /\ \A n \in ToSet(nodes) :
       /\ VisitsReachable(BFS(n), n) /\ BreadthFirst(BFS(n), n)
       /\ VisitsReachable(DFS(n), n) /\ DepthFirst(DFS(n))
  /\ IsCyclic = HasCycle
================================================================================
