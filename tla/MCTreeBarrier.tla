---------------------------- MODULE MCTreeBarrier ----------------------------
(* TreeBarrier on the tree that the constructor builds, with radix 2.       *)
EXTENDS TreeBarrier, TreeBuild

\* The parents in the tree of six threads, written out for TLC and compared with
\* what build() computes.
BinaryTree == [t \in 1 .. 5 |-> <<0, 1, 1, 0, 4>>[t]]

ASSUME BinaryTreeAssumption == BinaryTree = ParentOf(N, 2)

\* What TreeAssumption relies on, for every number of threads up to 64.
ASSUME TreeBuildAssumption == \A size \in 1 .. 64 : WellFormed(size, 2)
==============================================================================
