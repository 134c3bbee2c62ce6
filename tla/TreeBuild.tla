------------------------------ MODULE TreeBuild ------------------------------
(***************************************************************************)
(* How tree_barrier's constructor lays the threads out as a tree           *)
(* (tree_barrier::build): nodes are numbered in preorder and the tree has  *)
(* just enough levels for all of them.                                     *)
(***************************************************************************)
EXTENDS Integers, Sequences, FiniteSets, SequencesExt

NoParent == -1

\* while(s > 1) { depth++; s = s / radix; }
RECURSIVE Depth(_, _)
Depth(s, radix) == IF s > 1 THEN 1 + Depth(s \div radix, radix) ELSE 0

\* A partly built tree: the parent and the count of each of its nodes, in the
\* order of their ids; num_nodes is the length of both sequences.
EmptyTree == [parent |-> <<>>, count |-> <<>>]

RECURSIVE Build(_, _, _, _, _)
\* build(parent, depth): no node when there are size of them; otherwise a node
\* and, unless it is a leaf, its subtrees; set_count if some were not built.
Build(tree, parent, depth, size, radix) ==
  IF Len(tree.parent) = size THEN tree
  ELSE LET this_id == Len(tree.parent)
           node == [parent |-> Append(tree.parent, parent),
                    count |-> Append(tree.count, 0)]
           child(t, i) ==
             LET u == Build(t, this_id, depth - 1, size, radix)
             IN IF u = t THEN t
                ELSE [u EXCEPT !.count[this_id + 1] = @ + 1]
       IN IF depth = 0 THEN node
          ELSE FoldLeft(child, node, [i \in 1 .. radix |-> i])

BuildTree(size, radix) == Build(EmptyTree, NoParent, Depth(size, radix), size, radix)

\* The parents as a function on thread ids, the root left out.
ParentOf(size, radix) ==
  LET tree == BuildTree(size, radix) IN [t \in 1 .. size - 1 |-> tree.parent[t + 1]]

\* Every thread has a node, only node 0 has no parent, a parent has a smaller id
\* than its child, and count is the number of children, which a thread waits for.
WellFormed(size, radix) ==
  LET tree == BuildTree(size, radix)
      ids == 0 .. size - 1
      parent(t) == tree.parent[t + 1]
  IN /\ Len(tree.parent) = size
     /\ \A t \in ids :
          /\ IF t = 0 THEN parent(t) = NoParent ELSE parent(t) \in 0 .. t - 1
          /\ tree.count[t + 1] = Cardinality({c \in ids : parent(c) = t})
          /\ tree.count[t + 1] <= radix
==============================================================================
