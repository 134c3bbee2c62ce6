---------------------------- MODULE SimScheduler ----------------------------
(***************************************************************************)
(* The scheduler of the virtual machine when blocks are simulated          *)
(* (sched/sim.cpp): a master that obeys the messages of the simulator and, *)
(* in thread mode, one slave thread per block. In deterministic mode the   *)
(* master runs a block when told to, up to a number of instructions, and   *)
(* tuples for other blocks travel through the simulator as the face they   *)
(* leave by.                                                               *)
(*                                                                         *)
(* A tuple is <<predicate, arguments...>>. A tuple that a program sends is *)
(* <<"sent", to, how, led>>: the node it is for, whether it left in a run  *)
(* ("run") or was delayed ("delayed"), and the node that the face it left  *)
(* by led to, its sender when there was no face. The code knows none of    *)
(* the three.                                                              *)
(***************************************************************************)
EXTENDS SimMessages, FiniteSets, FiniteSetsExt, SequencesExt

CONSTANTS
  Predicates,  \* the predicates among the scheduler's that the program has
  MaxEvents, MaxThreadEvents,  \* bounds, in the two modes, on the runs that send
               \* something and those that end at or past their limit
  MaxTime,     \* bound on the clock of delays, in milliseconds
  Overshoot    \* instructions that a rule may run past the limit

ASSUME SimBounds ==
  {MaxEvents, MaxThreadEvents, MaxTime, Overshoot} \subseteq Nat

VARIABLES
  thread_mode, all_instantiated, stop_all,
  node,             \* the sim_node of every created id
  facts,            \* the net count of each topology fact a node has processed
  vmpc,             \* the master: "loop", "run", "sent", "stop", "end", "abort"
  current_node, sim_instr_counter, sim_instr_limit,
  tmp_work, delay_queue, socket_messages,
  slave, gathered,  \* each slave thread and the tuples of its run
  now, events,
  early             \* neighbours removed before the node was instantiated

masterVars == <<vmpc, current_node, sim_instr_counter, sim_instr_limit, tmp_work, delay_queue>>
slaveVars == <<slave, gathered>>
flagVars == <<thread_mode, all_instantiated, stop_all>>
vmVars == <<flagVars, node, facts, masterVars, socket_messages, slaveVars, now,
            events, early>>

TopologyFacts ==
  {<<"neighbor", n, f>> : n \in Ids, f \in Faces}
    \cup {<<"neighborCount", k>> : k \in 0 .. Cardinality(Faces)}
    \cup {<<"vacant", f>> : f \in Faces}

-----------------------------------------------------------------------------
(* The nodes. *)

\* The constructor of sim_node. The type of rtuple_pqueue is never set: the
\* heap holds the retractions in ascending or descending order of timestamps,
\* as its memory happens to say.
NewNode(ascending) ==
  [face |-> [f \in Faces |-> NO_NEIGHBOR], neighbor_count |-> 0,
   instantiated |-> FALSE, timestamp |-> 0,
   tuple_pqueue |-> <<>>, rtuple_pqueue |-> <<>>, rascending |-> ascending,
   pending |-> <<>>, delay_queue |-> <<>>]

\* The first face, in the order of get_face, with node id on it.
get_face(n, id) ==
  LET on == {f \in Faces : node[n].face[f] = id}
  IN  IF on = {} THEN INVALID_FACE ELSE Min(on)

\* general_pqueue: its comparison makes the LATEST time the top.
top_priority(queue) == Max({queue[i].due : i \in DOMAIN queue})

\* What a loop that pops the queue while its top is past removes: the latest
\* is on top, so everything or nothing.
Overdue(queue) == queue # <<>> /\ top_priority(queue) < now

\* The orders in which the items of the queue may be popped: items of the same
\* time come as the heap has them.
Popped(queue) ==
  LET Orders == Bijection(DOMAIN queue, DOMAIN queue)
      Descending(p) ==
        \A i, j \in DOMAIN queue : i < j => queue[p[i]].due >= queue[p[j]].due
  IN  {[i \in DOMAIN queue |-> queue[p[i]]] : p \in {q \in Orders : Descending(q)}}

\* The items of a sequence at the given places, in their order.
AtPlaces(s, places) ==
  LET Nth(k) == CHOOSE i \in places : Cardinality({j \in places : j <= i}) = k
  IN  [k \in 1 .. Cardinality(places) |-> s[Nth(k)]]

\* The places in a queue of what is due.
Due(queue, until) == {i \in DOMAIN queue : queue[i].ts <= until}

\* The heap of retractions stops at its top when that is not yet due.
RetractionsDue(nd, until) ==
  LET due == Due(nd.rtuple_pqueue, until)
  IN  IF nd.rascending \/ due = DOMAIN nd.rtuple_pqueue THEN due ELSE {}

\* The items at the given places as the heap pops them. (Items of the same time
\* come as they lie in the heap; here, as they were put in.)
InHeapOrder(queue, places, ascending) ==
  LET UpTo(i) == {j \in places : IF queue[j].ts = queue[i].ts THEN j <= i
                                  ELSE ascending <=> queue[j].ts < queue[i].ts}
      Nth(k) == CHOOSE i \in places : Cardinality(UpTo(i)) = k
  IN  [k \in 1 .. Cardinality(places) |-> queue[Nth(k)]]

\* The tuples that are due, assertions first.
get_tuples_until_timestamp(nd, until) ==
  InHeapOrder(nd.tuple_pqueue, Due(nd.tuple_pqueue, until), TRUE)
    \o InHeapOrder(nd.rtuple_pqueue, RetractionsDue(nd, until), nd.rascending)

\* The node without the tuples that are due.
WithoutDue(nd, until) ==
  [nd EXCEPT !.tuple_pqueue = AtPlaces(@, DOMAIN @ \ Due(@, until)),
             !.rtuple_pqueue = AtPlaces(@, DOMAIN @ \ RetractionsDue(nd, until))]

-----------------------------------------------------------------------------
(* New tuples. *)

STuple(tuple, count) == [tuple |-> tuple, count |-> count]

\* Queue the tuples es on a node, at time ts: add_received_tuple for each.
add_received_tuple(nd, ts, es) ==
  LET timed == [i \in DOMAIN es |-> [tuple |-> es[i].tuple, count |-> es[i].count, ts |-> ts]]
      asserted == {i \in DOMAIN es : es[i].count > 0}
  IN  IF thread_mode
      THEN [nd EXCEPT !.pending = @ \o es]
      ELSE [nd EXCEPT !.tuple_pqueue = @ \o AtPlaces(timed, asserted),
                      !.rtuple_pqueue = @ \o AtPlaces(timed, DOMAIN es \ asserted)]

\* The tuples of predicates that the program has.
Declared(es) == AtPlaces(es, {i \in DOMAIN es : es[i].tuple[1] \in Predicates})

IfDeclared(tuple, count) == Declared(<<STuple(tuple, count)>>)

add_neighbor(out, face, count) == IfDeclared(<<"neighbor", out, face>>, count)
add_neighbor_count(total, count) == IfDeclared(<<"neighborCount", total>>, count)
add_vacant(face, count) == IfDeclared(<<"vacant", face>>, count)

\* The SEND_MESSAGE of a tuple from src, with the face that leads to its node:
\* INVALID_FACE when it is for src itself, or for a block that has gone.
send_send_message(info, ts) ==
  LET face == get_face(info.src, info.to)
  IN  [type |-> "SEND_MESSAGE", ts |-> ts, node |-> info.src, face |-> face,
       tuple |-> <<"sent", info.to, IF info.delayed THEN "delayed" ELSE "run",
                   IF face = INVALID_FACE THEN info.src ELSE info.to>>]

\* The nodes that a program at n can address: itself and the neighbours that it
\* knows of.
Addressable(known, n) ==
  {n} \cup {m \in Ids : \E f \in Faces : known[<<"neighbor", m, f>>] > 0}

\* The assertions of t less the retractions of t among the tuples es.
CountOf(es, t) ==
  LET Times(c) == Cardinality({i \in DOMAIN es : es[i].tuple = t /\ es[i].count = c})
  IN  Times(1) - Times(-1)

\* The counts of the topology facts once the tuples es are processed.
Processed(known, es) == [t \in TopologyFacts |-> known[t] + CountOf(es, t)]

-----------------------------------------------------------------------------
(* The messages of the simulator. *)

Head0 == Head(toVM)

\* Every handler but those of RUN_NODE and STOP goes on with the loop.
Handled == /\ toVM' = Tail(toVM)
           /\ UNCHANGED <<toSim, facts, now, events, socket_messages>>

ReadMessage(type) == vmpc = "loop" /\ toVM # <<>> /\ Head0.type = type

use_threads ==
  /\ ReadMessage("USE_THREADS")
  /\ thread_mode' = TRUE
  /\ Handled
  /\ UNCHANGED <<all_instantiated, stop_all, node, masterVars, slaveVars, early>>

\* The facts that a block is told about its faces, in their order.
FaceFacts(face) ==
  LET order == AtPlaces([i \in 1 .. 6 |-> i - 1], {i \in 1 .. 6 : i - 1 \in Faces})
      Fact(f) == IF face[f] = NO_NEIGHBOR THEN <<"vacant", f>> ELSE <<"neighbor", face[f], f>>
  IN  Declared([i \in DOMAIN order |-> STuple(Fact(order[i]), 1)])

\* Every block starts with its init tuple. A slave thread is started for it in
\* thread mode, and it learns of its faces at once unless all nodes wait for
\* instantiate_all_nodes.
handle_create_n_nodes ==
  /\ ReadMessage("CREATE_N_NODES")
  /\ \E ascending \in BOOLEAN :
       LET instant == ~thread_mode \/ all_instantiated
           start == add_received_tuple(NewNode(ascending), 0, <<STuple(<<"init">>, 1)>>)
           new == IF instant
                  THEN add_received_tuple([start EXCEPT !.instantiated = TRUE], Head0.ts,
                                          FaceFacts(start.face) \o add_neighbor_count(0, 1))
                  ELSE start
       IN  node' = [n \in Ids |-> new]
  /\ slave' = [n \in Ids |-> IF thread_mode THEN "wait" ELSE "none"]
  /\ gathered' = [n \in Ids |-> <<>>]
  /\ Handled
  /\ UNCHANGED <<flagVars, masterVars, early>>

handle_run_node ==
  /\ ReadMessage("RUN_NODE")
  /\ current_node' = Head0.node
  /\ sim_instr_counter' = node[Head0.node].timestamp
  /\ sim_instr_limit' = Head0.ts
  /\ vmpc' = "run"
  /\ toVM' = Tail(toVM)
  /\ UNCHANGED <<toSim, flagVars, node, facts, tmp_work, delay_queue, socket_messages,
                 slaveVars, now, events, early>>

\* The face is looked up now, not when the message was sent. find_node aborts
\* when no node is there.
handle_receive_message ==
  /\ ReadMessage("RECEIVE_MESSAGE")
  /\ LET target == IF Head0.face = INVALID_FACE THEN Head0.node
                   ELSE node[Head0.node].face[Head0.face]
     IN  IF target = NO_NEIGHBOR
         THEN vmpc' = "abort" /\ UNCHANGED node
         ELSE /\ node' = [node EXCEPT ![target] =
                            add_received_tuple(@, Head0.ts, <<STuple(Head0.tuple, 1)>>)]
              /\ UNCHANGED vmpc
  /\ Handled
  /\ UNCHANGED <<flagVars, current_node, sim_instr_counter, sim_instr_limit, tmp_work,
                 delay_queue, slaveVars, early>>

\* A neighbour is placed on a face, which may be vacant or have another node.
AddNeighbor(nd, ts, out, face) ==
  LET old == nd.face[face]
      total == nd.neighbor_count
      news == IF old = NO_NEIGHBOR
              THEN add_vacant(face, -1) \o add_neighbor_count(total, -1)
                     \o add_neighbor_count(total + 1, 1) \o add_neighbor(out, face, 1)
              ELSE IF old # out
                   THEN add_neighbor(old, face, -1) \o add_neighbor(out, face, 1)
                   ELSE <<>>
      nd1 == [nd EXCEPT !.face[face] = out,
                        !.neighbor_count = IF old = NO_NEIGHBOR THEN total + 1 ELSE total]
  IN  IF nd.instantiated THEN add_received_tuple(nd1, ts, news) ELSE nd1

handle_add_neighbor ==
  /\ ReadMessage("ADD_NEIGHBOR")
  /\ node' = [node EXCEPT ![Head0.node] = AddNeighbor(@, Head0.ts, Head0.out, Head0.face)]
  /\ Handled
  /\ UNCHANGED <<flagVars, masterVars, slaveVars, early>>

\* Mutant: the face is cleared before the fact is made from it.
RemoveClearsFirst(nd, ts, face) ==
  LET total == nd.neighbor_count
      counts == IF nd.instantiated
                THEN add_neighbor_count(total, -1) \o add_neighbor_count(total - 1, 1)
                ELSE <<>>
  IN  add_received_tuple([nd EXCEPT !.face[face] = NO_NEIGHBOR, !.neighbor_count = total - 1],
                         ts, counts \o add_neighbor(NO_NEIGHBOR, face, -1))

\* The count is adjusted only when the node knows it, but the neighbour fact is
\* retracted in any case; the face is not said to be vacant again.
RemoveNeighbor(nd, ts, face) ==
  LET total == nd.neighbor_count
      counts == IF nd.instantiated
                THEN add_neighbor_count(total, -1) \o add_neighbor_count(total - 1, 1)
                ELSE <<>>
  IN  add_received_tuple([nd EXCEPT !.face[face] = NO_NEIGHBOR, !.neighbor_count = total - 1],
                         ts, counts \o add_neighbor(nd.face[face], face, -1))

handle_remove_neighbor ==
  /\ ReadMessage("REMOVE_NEIGHBOR")
  /\ LET n == Head0.node
         old == node[n].face[Head0.face]
     IN  IF old = NO_NEIGHBOR
         THEN vmpc' = "abort" /\ UNCHANGED <<node, early>>
         ELSE /\ node' = [node EXCEPT ![n] = RemoveNeighbor(@, Head0.ts, Head0.face)]
              /\ early' = IF node[n].instantiated THEN early
                          ELSE [early EXCEPT ![n][<<"neighbor", old, Head0.face>>] = @ + 1]
              /\ UNCHANGED vmpc
  /\ Handled
  /\ UNCHANGED <<flagVars, current_node, sim_instr_counter, sim_instr_limit, tmp_work,
                 delay_queue, slaveVars>>

\* A tap, an acceleration or a shake of a block becomes a tuple.
Sensed(type, tuple) ==
  /\ ReadMessage(type)
  /\ node' = [node EXCEPT ![Head0.node] =
                add_received_tuple(@, Head0.ts, IfDeclared(tuple, 1))]
  /\ Handled
  /\ UNCHANGED <<flagVars, masterVars, slaveVars, early>>

handle_tap == Sensed("TAP", <<"tap">>)
handle_accel == Sensed("ACCEL", <<"accel">>)
handle_shake == Sensed("SHAKE", <<"shake">>)

\* STOP: the slaves are told, the master waits a second for their last messages.
HandleStop ==
  /\ ReadMessage("STOP")
  /\ stop_all' = TRUE
  /\ vmpc' = "stop"
  /\ Handled
  /\ UNCHANGED <<thread_mode, all_instantiated, node, current_node, sim_instr_counter,
                 sim_instr_limit, tmp_work, delay_queue, slaveVars, early>>

\* ... and sends them; get_work then returns NULL, which ends the master.
AfterStop ==
  /\ vmpc = "stop"
  /\ vmpc' = "end"
  /\ toSim' = toSim \o socket_messages
  /\ socket_messages' = <<>>
  /\ UNCHANGED <<toVM, flagVars, node, facts, current_node, sim_instr_counter,
                 sim_instr_limit, tmp_work, delay_queue, slaveVars, now, events, early>>

-----------------------------------------------------------------------------
(* What the master does when no message is there. *)

Idle == vmpc = "loop" /\ toVM = <<>>

send_pending_messages ==
  /\ Idle
  /\ socket_messages # <<>>
  /\ toSim' = toSim \o socket_messages
  /\ socket_messages' = <<>>
  /\ UNCHANGED <<toVM, flagVars, node, facts, masterVars, slaveVars, now, events, early>>

\* 500 milliseconds after the start every node is told of its faces.
instantiate_all_nodes ==
  /\ Idle
  /\ thread_mode
  /\ ~all_instantiated
  /\ all_instantiated' = TRUE
  /\ node' = [n \in DOMAIN node |->
       LET nd == node[n]
       IN  add_received_tuple([nd EXCEPT !.instantiated = TRUE], 0,
             add_neighbor_count(nd.neighbor_count, 1) \o FaceFacts(nd.face))]
  /\ UNCHANGED <<toVM, toSim, thread_mode, stop_all, facts, masterVars, socket_messages,
                 slaveVars, now, events, early>>

\* Delayed tuples leave once the top of the queue is past.
check_delayed_queue ==
  /\ Idle
  /\ ~thread_mode
  /\ Overdue(delay_queue)
  /\ \E due \in Popped(delay_queue) :
       LET Stamp(info) == Max({node[info.src].timestamp, node[info.to].timestamp + 1})
       IN  toSim' = toSim \o [i \in DOMAIN due |-> send_send_message(due[i], Stamp(due[i]))]
  /\ delay_queue' = <<>>
  /\ UNCHANGED <<toVM, flagVars, node, facts, vmpc, current_node, sim_instr_counter,
                 sim_instr_limit, tmp_work, socket_messages, slaveVars, now, events, early>>

-----------------------------------------------------------------------------
(* Runs of a node. *)

EventsLeft == events < IF thread_mode THEN MaxThreadEvents ELSE MaxEvents

\* What a program does in a run, besides its facts: it sends a tuple, with a
\* delay or without, sets the colour of its block, or neither.
ProgramOutputs(known, n) ==
  {[kind |-> "none"]}
    \cup IF ~EventsLeft THEN {}
         ELSE {[kind |-> "color"]}
                \cup {[kind |-> "send", to |-> m] : m \in Addressable(known, n)}
                \cup {[kind |-> "delay", to |-> m, due |-> now + d] :
                         m \in Addressable(known, n), d \in {x \in 1 .. 2 : now + x < MaxTime}}

Counted(out, cut) ==
  events' = events + (IF out.kind = "none" THEN 0 ELSE 1) + (IF cut THEN 1 ELSE 0)

SetColor(n) == [type |-> "SET_COLOR", ts |-> 0, node |-> n]

\* set_color, schedule_new_message: the slaves leave it to the master to write.
set_color(n, out) ==
  IF out.kind # "color" THEN UNCHANGED <<toSim, socket_messages>>
  ELSE IF thread_mode
       THEN socket_messages' = Append(socket_messages, SetColor(n)) /\ UNCHANGED toSim
       ELSE toSim' = Append(toSim, SetColor(n)) /\ UNCHANGED socket_messages

\* new_work in deterministic mode: sent when the run is over.
new_work(n, out, ts) ==
  tmp_work' = IF out.kind = "send"
              THEN Append(tmp_work, [src |-> n, to |-> out.to, ts |-> ts, delayed |-> FALSE])
              ELSE tmp_work

\* new_work_delay in deterministic mode.
new_work_delay(n, out) ==
  delay_queue' = IF out.kind = "delay"
                 THEN Append(delay_queue, [src |-> n, to |-> out.to, due |-> out.due,
                                           delayed |-> TRUE])
                 ELSE delay_queue

\* state::run_node under an instruction limit. At least one tuple is processed
\* when instructions are left; once the limit is reached the others go to
\* pending. A rule may overrun the limit, and a run below it counts one more.
RunCurrentNode ==
  /\ vmpc = "run"
  /\ LET n == current_node
         nd == node[n]
         ls == nd.pending \o get_tuples_until_timestamp(nd, sim_instr_limit)
         spent == sim_instr_counter >= sim_instr_limit
     IN  \E k \in 0 .. Len(ls),
            c \in sim_instr_counter .. Max({sim_instr_counter, sim_instr_limit + Overshoot}) :
           LET known == Processed(facts[n], SubSeq(ls, 1, k))
               rest == SubSeq(ls, k + 1, Len(ls))
           IN  /\ spent => k = 0 /\ c = sim_instr_counter
               /\ ~spent /\ ls # <<>> => k > 0
               /\ k < Len(ls) => c >= sim_instr_limit
               /\ k < Len(ls) \/ c > sim_instr_limit => spent \/ EventsLeft
               /\ node' = [node EXCEPT ![n] =
                    [WithoutDue(nd, sim_instr_limit) EXCEPT !.pending =
                       [i \in DOMAIN rest |-> STuple(rest[i].tuple, rest[i].count)]]]
               /\ facts' = [facts EXCEPT ![n] = known]
               /\ sim_instr_counter' = IF c < sim_instr_limit THEN c + 1 ELSE c
               /\ \E out \in IF k = 0 THEN {[kind |-> "none"]} ELSE ProgramOutputs(known, n),
                     ts \in sim_instr_counter .. c :
                    /\ out.kind # "send" => ts = c
                    /\ new_work(n, out, ts)
                    /\ new_work_delay(n, out)
                    /\ set_color(n, out)
                    /\ Counted(out, ~spent /\ (k < Len(ls) \/ c > sim_instr_limit))
  /\ vmpc' = "sent"
  /\ UNCHANGED <<toVM, flagVars, current_node, sim_instr_limit, slaveVars, now, early>>

\* Mutant: the report comes first.
ReportFirst(messages, node_run) == <<node_run>> \o messages

\* The tuples of the run are written before its report.
WrittenAfterRun(messages, node_run) == messages \o <<node_run>>

\* The tuples of the run, then NODE_RUN, which ends the simulator's wait.
handle_deterministic_computation ==
  /\ vmpc = "sent"
  /\ LET n == current_node
         touched == {tmp_work[i].to : i \in DOMAIN tmp_work}
                      \cup IF node[n].pending = <<>> THEN {} ELSE {n}
     IN  /\ node' = [node EXCEPT ![n].timestamp = sim_instr_counter]
         /\ toSim' = toSim \o WrittenAfterRun(
              [i \in DOMAIN tmp_work |-> send_send_message(tmp_work[i], tmp_work[i].ts)],
              [type |-> "NODE_RUN", ts |-> sim_instr_counter, node |-> n, nodes |-> touched])
  /\ tmp_work' = <<>>
  /\ current_node' = NO_NEIGHBOR
  /\ sim_instr_counter' = 0 /\ sim_instr_limit' = 0
  /\ vmpc' = "loop"
  /\ UNCHANGED <<toVM, flagVars, facts, delay_queue, socket_messages, slaveVars, now,
                 events, early>>

-----------------------------------------------------------------------------
(* The slave threads. *)

HasWork(n) == node[n].pending # <<>> \/ Overdue(node[n].delay_queue)

\* get_work finds work and gather_next_tuples takes it. (The delayed tuples are
\* equal: their order does not show.)
SlaveGetWork(n) ==
  /\ slave[n] = "wait"
  /\ HasWork(n)
  /\ LET late == IF Overdue(node[n].delay_queue) THEN node[n].delay_queue ELSE <<>>
     IN  /\ gathered' = [gathered EXCEPT ![n] =
               node[n].pending \o [i \in DOMAIN late |-> STuple(<<"sent", n, "delayed", n>>, 1)]]
         /\ node' = [node EXCEPT ![n].pending = <<>>,
                                 ![n].delay_queue = IF late = <<>> THEN @ ELSE <<>>]
  /\ slave' = [slave EXCEPT ![n] = "run"]
  /\ UNCHANGED <<toVM, toSim, flagVars, facts, masterVars, socket_messages, now, events,
                 early>>

\* get_work finds nothing and sees stop_all: tuples that come later stay.
SlaveEnd(n) ==
  /\ slave[n] = "wait"
  /\ ~HasWork(n)
  /\ stop_all
  /\ slave' = [slave EXCEPT ![n] = "end"]
  /\ UNCHANGED <<toVM, toSim, flagVars, node, facts, masterVars, socket_messages, gathered,
                 now, events, early>>

\* state::run_node without a limit: new_work pushes into the other node's
\* queue, new_work_delay into its queue of delayed tuples.
SlaveRun(n) ==
  /\ slave[n] = "run"
  /\ LET known == Processed(facts[n], gathered[n])
     IN  /\ facts' = [facts EXCEPT ![n] = known]
         /\ \E out \in ProgramOutputs(known, n) :
              /\ node' =
                   CASE out.kind = "send" ->
                          [node EXCEPT ![out.to].pending =
                             Append(@, STuple(<<"sent", out.to, "run", out.to>>, 1))]
                     [] out.kind = "delay" ->
                          [node EXCEPT ![out.to].delay_queue = Append(@, [due |-> out.due])]
                     [] OTHER -> node
              /\ set_color(n, out)
              /\ Counted(out, FALSE)
  /\ gathered' = [gathered EXCEPT ![n] = <<>>]
  /\ slave' = [slave EXCEPT ![n] = "wait"]
  /\ UNCHANGED <<toVM, flagVars, masterVars, now, early>>

-----------------------------------------------------------------------------

\* The clock by which delays are measured; it matters while a tuple is delayed.
Tick ==
  /\ delay_queue # <<>> \/ \E n \in DOMAIN node : node[n].delay_queue # <<>>
  /\ now < MaxTime
  /\ now' = now + 1
  /\ UNCHANGED <<toVM, toSim, flagVars, node, facts, masterVars, socket_messages, slaveVars,
                 events, early>>

VMInit ==
  /\ thread_mode = FALSE /\ all_instantiated = FALSE /\ stop_all = FALSE
  /\ node = <<>>
  /\ facts = [n \in Ids |-> [t \in TopologyFacts |-> 0]]
  /\ vmpc = "loop"
  /\ current_node = NO_NEIGHBOR /\ sim_instr_counter = 0 /\ sim_instr_limit = 0
  /\ tmp_work = <<>> /\ delay_queue = <<>> /\ socket_messages = <<>>
  /\ slave = [n \in Ids |-> "none"] /\ gathered = [n \in Ids |-> <<>>]
  /\ now = 0 /\ events = 0
  /\ early = [n \in Ids |-> [t \in TopologyFacts |-> 0]]

Master ==
  \/ use_threads \/ handle_create_n_nodes \/ handle_run_node \/ handle_receive_message
  \/ handle_add_neighbor \/ handle_remove_neighbor
  \/ handle_tap \/ handle_accel \/ handle_shake
  \/ HandleStop \/ AfterStop
  \/ send_pending_messages \/ instantiate_all_nodes \/ check_delayed_queue
  \/ RunCurrentNode \/ handle_deterministic_computation

Slave(n) == SlaveGetWork(n) \/ SlaveEnd(n) \/ SlaveRun(n)
=============================================================================
