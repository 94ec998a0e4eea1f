--------------------------- MODULE DeadlockDetector ---------------------------
(***************************************************************************)
(* The cycle search of src/system/kernel/_deadlock_detector.py: a depth    *)
(* first search of a wait-for graph with a global visited set and the      *)
(* recursion stack, which reports the stack's suffix each time an edge     *)
(* leads back into it.  A graph is a function from nodes to the set of     *)
(* their successors.  `roots` is the order in which the search is started  *)
(* (the order of the dict's keys; a node listed twice is skipped) and      *)
(* `order` the one in which a set of successors is iterated.               *)
(***************************************************************************)
LOCAL INSTANCE Integers
LOCAL INSTANCE Sequences
LOCAL INSTANCE FiniteSets
LOCAL INSTANCE SequencesExt

SearchStart == [visited |-> {}, stack |-> <<>>, cycles |-> <<>>]

\* Mutants of the search.
WholeStack(stack, n) == stack
OnlyLongCycles(cycles, cycle) ==
  IF Len(cycle) <= 2 THEN cycles ELSE Append(cycles, cycle)

\* rec_stack[rec_stack.index(n):]
SuffixFrom(stack, n) ==
  SubSeq(stack, CHOOSE i \in 1..Len(stack) : stack[i] = n, Len(stack))

Known(cycles, cycle) == \E i \in 1..Len(cycles) : ToSet(cycles[i]) = ToSet(cycle)

AddCycle(cycles, cycle) ==
  IF Known(cycles, cycle) THEN cycles ELSE Append(cycles, cycle)

RECURSIVE Dfs(_, _, _, _)
Dfs(graph, order, search, node) ==
  LET entered == [search EXCEPT !.visited = @ \cup {node}, !.stack = Append(@, node)]
      Follow(s, next) ==
        IF next \notin s.visited THEN Dfs(graph, order, s, next)
        ELSE IF Contains(s.stack, next)
        THEN [s EXCEPT !.cycles = AddCycle(@, SuffixFrom(s.stack, next))]
        ELSE s
      done == FoldLeft(Follow, entered, SelectSeq(order, LAMBDA n : n \in graph[node]))
  IN  [done EXCEPT !.stack = Front(@)]

\* Mutant: the search is started once, not from every unvisited key.
DetectFromFirstKey(graph, roots, order) ==
  LET keys == SelectSeq(roots, LAMBDA n : graph[n] # {})
  IN  IF keys = <<>> THEN <<>> ELSE Dfs(graph, order, SearchStart, Head(keys)).cycles

\* Only nodes that wait for someone are keys of wait_for, hence roots.
Detect(graph, roots, order) ==
  LET keys == SelectSeq(roots, LAMBDA n : graph[n] # {})
      Start(s, node) == IF node \in s.visited THEN s ELSE Dfs(graph, order, s, node)
  IN  FoldLeft(Start, SearchStart, keys).cycles

-----------------------------------------------------------------------------
(* What the search is for, stated without it *)

\* A simple cycle of the graph, as a sequence of its nodes.
IsCycle(graph, c) ==
  /\ c # <<>>
  /\ \A i \in 1..Len(c) : c[(i % Len(c)) + 1] \in graph[c[i]]
  /\ Cardinality(ToSet(c)) = Len(c)

\* m can be reached from n: it lies in every set of nodes that holds n's successors
\* and is closed under successors.
Closed(graph, S) == \A m \in S : graph[m] \subseteq S
Reaches(graph, n, m) ==
  \A S \in SUBSET DOMAIN graph : graph[n] \subseteq S /\ Closed(graph, S) => m \in S

\* The nodes on some cycle.
OnCycle(graph) == {n \in DOMAIN graph : Reaches(graph, n, n)}
=============================================================================
