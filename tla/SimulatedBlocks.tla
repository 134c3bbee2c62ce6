-------------------------- MODULE SimulatedBlocks --------------------------
(***************************************************************************)
(* The virtual machine and the simulator, connected: what the protocol     *)
(* between them achieves for the blocks' programs.                         *)
(***************************************************************************)
EXTENDS SimScheduler, MockSimulator

vars == <<toVM, toSim, vmVars, simVars>>

Init ==
  /\ toVM = <<>> /\ toSim = <<>>
  /\ VMInit
  /\ SimInit

Next ==
  \/ Master /\ UNCHANGED simVars
  \/ \E n \in Ids : Slave(n) /\ UNCHANGED simVars
  \/ Tick /\ UNCHANGED simVars
  \/ Main /\ UNCHANGED vmVars

Spec == Init /\ [][Next]_vars

-----------------------------------------------------------------------------

Created == DOMAIN node

\* The tuples that are on their way to the facts of node n.
Waiting(n) ==
  node[n].pending \o node[n].tuple_pqueue \o node[n].rtuple_pqueue \o gathered[n]

\* What instantiate_all_nodes, handle_add_neighbor and handle_remove_neighbor
\* say to a block adds up to its faces: the net count of every neighbor and
\* neighborCount fact is one for what is there and zero for the rest, whatever
\* the order in which blocks are placed, replaced and taken away, told of their
\* faces and run, and an occupied face is not vacant. A neighbour that goes
\* before the block was instantiated is retracted without having been asserted.
FactsMatchFaces ==
  \A n \in Created : node[n].instantiated =>
    LET net == Processed(facts[n], Waiting(n))
        occupied == {f \in Faces : node[n].face[f] # NO_NEIGHBOR}
    IN  /\ \A m \in Ids, f \in Faces :
             net[<<"neighbor", m, f>>] =
               (IF node[n].face[f] = m THEN 1 ELSE 0) - early[n][<<"neighbor", m, f>>]
        /\ \A k \in 0 .. Cardinality(Faces) :
             net[<<"neighborCount", k>>] = IF k = Cardinality(occupied) THEN 1 ELSE 0
        /\ \A f \in occupied : net[<<"vacant", f>>] <= 0

\* Where a message leads, on the faces that its reader knows.
Leads(m, faces) == IF m.face = INVALID_FACE THEN m.node ELSE faces[m.node].face[m.face]

SentInRun(t) == t[1] = "sent" /\ t[3] = "run"

\* A tuple that a run sends travels as a face, which three readers look up at
\* different times while blocks are moved, and still reaches the node that the
\* face led to: the one it is for if that was the sender's neighbour at the end
\* of the run, the sender itself if not (get_face gives INVALID_FACE, which
\* handle_receive_message takes for the sender). No reader finds another block
\* there, or none: handle_deterministic_computation writes the tuples before
\* NODE_RUN, and the simulator changes nothing before it has read NODE_RUN.
SentInRunArrives ==
  /\ toSim # <<>> /\ Head(toSim).type = "SEND_MESSAGE" =>
       LET m == Head(toSim) IN SentInRun(m.tuple) => Leads(m, sim) = m.tuple[4]
  /\ toVM # <<>> /\ Head(toVM).type = "RECEIVE_MESSAGE" =>
       LET m == Head(toVM) IN SentInRun(m.tuple) => Leads(m, node) = m.tuple[4]
  /\ \A n \in Created : \A i \in DOMAIN Waiting(n) :
       SentInRun(Waiting(n)[i].tuple) => Waiting(n)[i].tuple[4] = n

\* Nothing is happening: no node is scheduled, no message is under way.
Quiescent ==
  /\ deterministic /\ simpc = "loop" /\ pqueue = <<>>
  /\ toVM = <<>> /\ toSim = <<>> /\ vmpc = "loop"

\* activate_node schedules a node late enough: when nothing is scheduled any
\* more, no node has a tuple in its queues that a run would have taken.
NoneStranded ==
  Quiescent => \A n \in Created : node[n].tuple_pqueue = <<>> /\ node[n].rtuple_pqueue = <<>>

\* A node is never told to run up to an instruction that it has passed, although
\* a rule may overrun the limit of a run: timestamps do not go back. (It can be
\* told to run up to the one it is at: then the run does nothing.)
RunsForward == vmpc = "run" => sim_instr_counter <= sim_instr_limit

=============================================================================
