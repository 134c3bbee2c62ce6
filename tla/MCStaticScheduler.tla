------------------------- MODULE MCStaticScheduler -------------------------
(* Instances of StaticScheduler for TLC.                                    *)
EXTENDS StaticScheduler

\* Nodes dealt out to the threads in turn.
RoundRobin == [n \in Nodes |-> n % N]

=============================================================================
