--------------------------- MODULE MockSimulator ---------------------------
(***************************************************************************)
(* The simulator of the blocks (mock-simulator/simulator.cpp), which tells *)
(* the virtual machine which blocks there are, which are next to each      *)
(* other, what is done to them and, in deterministic mode, which block runs*)
(* and up to which instruction. The fixed scenario of main is generalised: *)
(* a turn of the deterministic loop is any of its write_ operations, one   *)
(* after the other, and begins with or without the read that blocks until  *)
(* the VM sends something.                                                 *)
(***************************************************************************)
EXTENDS SimMessages, FiniteSets

CONSTANTS
  Neighbors,   \* the <<block, other block, face>> that occur in the scenario
  Touched,     \* the blocks that are tapped, accelerated or shaken in it
  MaxWrites, MaxThreadWrites  \* bounds on its steps, in the two modes

ASSUME ScenarioAssumption ==
  /\ Neighbors \subseteq {p \in Ids \X Ids \X Faces : p[1] # p[2]}
  /\ Touched \subseteq Ids
  /\ MaxWrites \in Nat /\ MaxThreadWrites \in Nat

VARIABLES
  deterministic,   \* DETERMINISTIC is defined
  sim,             \* active_nodes, timestamps, nexttimestamps and the neighbours
  pqueue,          \* nodes scheduled for computation
  simpc,           \* main: "start", "loop", "turn", "run", "stop", "crash"
  writes

simVars == <<deterministic, sim, pqueue, simpc, writes>>

Largest(a, b) == IF a >= b THEN a ELSE b

\* write_use_threads, unless deterministic, and write_create_n_nodes.
write_create_n_nodes ==
  /\ simpc = "start"
  /\ toVM' = toVM
       \o (IF deterministic THEN <<>> ELSE <<[type |-> "USE_THREADS", ts |-> 0]>>)
       \o <<[type |-> "CREATE_N_NODES", ts |-> 0]>>
  /\ sim' = [n \in Ids |-> [active |-> TRUE, ts |-> 0, next |-> 1,
                            face |-> [f \in Faces |-> NO_NEIGHBOR]]]
  /\ pqueue' = [i \in 1 .. Cardinality(Ids) |-> i - 1]
  /\ simpc' = "loop"
  /\ UNCHANGED <<toSim, deterministic, writes>>

\* The position in pqueue of the node with the lowest timestamp, the first of
\* several.
get_next_node ==
  CHOOSE i \in DOMAIN pqueue :
    /\ \A j \in DOMAIN pqueue : sim[pqueue[i]].ts <= sim[pqueue[j]].ts
    /\ \A j \in 1 .. i - 1 : sim[pqueue[i]].ts < sim[pqueue[j]].ts

\* Run the next node, and then read until its NODE_RUN.
write_run_node ==
  /\ simpc = "loop" /\ deterministic
  /\ pqueue # <<>>
  /\ LET pos == get_next_node
         n == pqueue[pos]
     IN  /\ pqueue' = [i \in 1 .. Len(pqueue) - 1 |-> pqueue[IF i < pos THEN i ELSE i + 1]]
         /\ toVM' = Append(toVM, [type |-> "RUN_NODE", ts |-> sim[n].next, node |-> n])
         /\ sim' = [sim EXCEPT ![n].active = FALSE, ![n].ts = sim[n].next]
  /\ simpc' = "run"
  /\ UNCHANGED <<toSim, deterministic, writes>>

\* Mutant: the node runs until the tuple's time, whatever it has run before.
NextAfterTuple(s, ts) == ts + 1

\* Mutant: the time of the tuple is not looked at.
NextOnly(s, ts) == Largest(s.next + 1, s.ts)

\* The timestamp until which a node must run to see something at time ts.
NextTimestamp(s, ts) == Largest(Largest(s.next + 1, ts + 1), s.ts)

\* activate_node, when it is a node: on sim and pqueue.
activate_node(s, n, ts) ==
  /\ sim' = [s EXCEPT ![n].active = TRUE, ![n].next = NextTimestamp(s[n], ts)]
  /\ pqueue' = IF s[n].active THEN pqueue ELSE Append(pqueue, n)

\* What is done when a node has run.
NodeRun(s, m) == [s EXCEPT ![m.node].ts = m.ts, ![m.node].next = Largest(m.ts, @)]

\* A tuple has left a node by a face: the node there is scheduled, and the
\* tuple sent back as one received. When the face has become vacant the
\* vectors are read at -1: the simulator fails or nothing is scheduled.
SendMessage(m) ==
  LET target == IF m.face = INVALID_FACE THEN m.node ELSE sim[m.node].face[m.face]
  IN  /\ toVM' = Append(toVM, [m EXCEPT !.type = "RECEIVE_MESSAGE"])
      /\ IF target = NO_NEIGHBOR THEN UNCHANGED <<sim, pqueue>>
         ELSE activate_node(sim, target, m.ts)

StaleFace(m) ==
  m.type = "SEND_MESSAGE" /\ m.face # INVALID_FACE /\ sim[m.node].face[m.face] = NO_NEIGHBOR

\* handle_data on the first message: the nodes that NODE_RUN lists are ignored.
handle_data(m) ==
  /\ toSim' = Tail(toSim)
  /\ CASE m.type = "NODE_RUN" -> sim' = NodeRun(sim, m) /\ UNCHANGED <<pqueue, toVM>>
       [] m.type = "SEND_MESSAGE" -> SendMessage(m)
       [] OTHER -> UNCHANGED <<sim, pqueue, toVM>>

WritesLeft == writes < IF deterministic THEN MaxWrites ELSE MaxThreadWrites

\* In deterministic mode the scenario has its turn when no node is scheduled.
TurnDue == simpc = "loop" /\ deterministic /\ pqueue = <<>> /\ WritesLeft

\* force_read: in the loop, where it may be the one that begins a turn, after
\* RUN_NODE until NODE_RUN, and at the end.
force_read ==
  /\ simpc \in {"loop", "run", "stop"}
  /\ toSim # <<>>
  /\ LET m == Head(toSim)
     IN  /\ handle_data(m)
         /\ \/ simpc' = IF simpc = "run" /\ m.type = "NODE_RUN" THEN "loop" ELSE simpc
            \/ TurnDue /\ simpc' = "turn"
            \/ StaleFace(m) /\ simpc' = "crash"
  /\ UNCHANGED <<deterministic, writes>>

BeginTurn ==
  /\ TurnDue
  /\ simpc' = "turn"
  /\ UNCHANGED <<toVM, toSim, deterministic, sim, pqueue, writes>>

EndTurn ==
  /\ simpc = "turn"
  /\ simpc' = "loop"
  /\ UNCHANGED <<toVM, toSim, deterministic, sim, pqueue, writes>>

\* Where the scenario writes: nothing is read and no node told to run in a turn,
\* but what was scheduled in it waits. In thread mode there are no turns.
Turn == simpc = IF deterministic THEN "turn" ELSE "loop"

\* An operation on node n: it is scheduled, and the message has its timestamp.
Write(n, m, s) ==
  /\ Turn
  /\ WritesLeft
  /\ writes' = writes + 1
  /\ activate_node(s, n, 0)
  /\ toVM' = Append(toVM, m)
  /\ UNCHANGED <<toSim, deterministic, simpc>>

\* A block is placed on a face where it is not yet: a block has one face to
\* each neighbour.
write_add_neighbor(in, out, side) ==
  /\ Turn
  /\ \A f \in Faces \ {side} : sim[in].face[f] # out
  /\ Write(in, [type |-> "ADD_NEIGHBOR", ts |-> sim[in].ts, node |-> in, out |-> out,
                face |-> side],
           [sim EXCEPT ![in].face[side] = out])

write_remove_neighbor(in, side) ==
  /\ Turn
  /\ sim[in].face[side] # NO_NEIGHBOR
  /\ Write(in, [type |-> "REMOVE_NEIGHBOR", ts |-> sim[in].ts, node |-> in, face |-> side],
           [sim EXCEPT ![in].face[side] = NO_NEIGHBOR])

write_tap(n) == Write(n, [type |-> "TAP", ts |-> sim[n].ts, node |-> n], sim)

\* These two only in thread mode.
write_accel(n) ==
  ~deterministic /\ Write(n, [type |-> "ACCEL", ts |-> sim[n].ts, node |-> n], sim)
write_shake(n) ==
  ~deterministic /\ Write(n, [type |-> "SHAKE", ts |-> sim[n].ts, node |-> n], sim)

\* The end of the scenario in thread mode.
write_stop ==
  /\ simpc = "loop" /\ ~deterministic
  /\ toVM' = Append(toVM, [type |-> "STOP", ts |-> 0])
  /\ simpc' = "stop"
  /\ UNCHANGED <<toSim, deterministic, sim, pqueue, writes>>

SimInit ==
  /\ deterministic \in BOOLEAN
  /\ sim = <<>>
  /\ pqueue = <<>>
  /\ simpc = "start"
  /\ writes = 0

Scenario ==
  \/ \E p \in Neighbors : write_add_neighbor(p[1], p[2], p[3]) \/ write_remove_neighbor(p[1], p[3])
  \/ \E n \in Touched : write_tap(n) \/ write_accel(n) \/ write_shake(n)

\* main.
Main ==
  \/ write_create_n_nodes \/ write_run_node \/ force_read
  \/ BeginTurn \/ Scenario \/ EndTurn \/ write_stop
=============================================================================
