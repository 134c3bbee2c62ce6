------------------------ MODULE SimulatedBlocksProofs ------------------------
(***************************************************************************)
(* In deterministic mode the simulator and the virtual machine agree on    *)
(* time: a node is never told to run up to an instruction that it has      *)
(* passed.  They agree on faces: a tuple that a run sends reaches the node *)
(* that its face led to, or the sender when it had none.  And no tuple     *)
(* waits in the queues of a node that will not run again.  This holds for  *)
(* every number of blocks, every scenario and every overrun of a limit.    *)
(*                                                                         *)
(* The limit of a run is what the simulator has recorded as the node's     *)
(* next timestamp, and the record is behind while a run is under way and   *)
(* until its report is read.  The argument is that there is one run at a   *)
(* time: it is an order that the VM has not read, a run of the VM, or a    *)
(* report that the simulator has not read (RunInv); so when the simulator  *)
(* gives an order its record of every node is up to date (TimeInv).  The   *)
(* faces (TravelInv) and the schedule (ServiceInv) are argued further below,*)
(* where these invariants are defined.                                     *)
(***************************************************************************)
EXTENDS SimulatedBlocks, CommonLemmas

(***************************************************************************)
(* The messages, and the types of the state.                               *)
(***************************************************************************)
SentTuples == {"sent"} \X Ids \X {"run", "delayed"} \X Ids

Sends == [type : {"SEND_MESSAGE"}, ts : Nat, node : Ids, face : Faces \cup {INVALID_FACE},
          tuple : SentTuples]
LateSends == {m \in Sends : m.tuple[3] = "delayed"}
Colors == [type : {"SET_COLOR"}, ts : {0}, node : Ids]
Reports == [type : {"NODE_RUN"}, ts : Nat, node : Ids, nodes : SUBSET Ids]

Orders == [type : {"RUN_NODE"}, ts : Nat, node : Ids]
Receipts == [type : {"RECEIVE_MESSAGE"}, ts : Nat, node : Ids,
             face : Faces \cup {INVALID_FACE}, tuple : SentTuples]
Notices == [type : {"USE_THREADS", "CREATE_N_NODES", "STOP"}, ts : {0}]
Touches == [type : {"TAP", "ACCEL", "SHAKE"}, ts : Nat, node : Ids]
Additions == [type : {"ADD_NEIGHBOR"}, ts : Nat, node : Ids, out : Ids, face : Faces]
Removals == [type : {"REMOVE_NEIGHBOR"}, ts : Nat, node : Ids, face : Faces]

VMMessages == Orders \cup Receipts \cup Notices \cup Touches \cup Additions \cup Removals

Blocks == [active : BOOLEAN, ts : Nat, next : Nat,
           face : [Faces -> Ids \cup {NO_NEIGHBOR}]]

ChannelTypes ==
  /\ toVM \in Seq(VMMessages)
  /\ toSim \in Seq(Sends \cup Colors \cup Reports)

WorkTypes ==
  /\ socket_messages \in Seq(Colors)
  /\ tmp_work \in Seq([src : Ids, to : Ids, ts : Nat, delayed : {FALSE}])
  /\ delay_queue \in Seq([src : Ids, to : Ids, due : Nat, delayed : {TRUE}])
  /\ now \in Nat
  /\ sim_instr_counter \in Nat /\ sim_instr_limit \in Nat

SimTypes ==
  /\ pqueue \in Seq(Ids)
  /\ simpc # "start" => sim \in [Ids -> Blocks]

\* The nodes are created all at once, and each has a timestamp.
NodeTypes ==
  /\ DOMAIN node \in {{}, Ids}
  /\ \A n \in DOMAIN node : "timestamp" \in DOMAIN node[n] /\ node[n].timestamp \in Nat

(***************************************************************************)
(* The inductive invariant.                                                *)
(***************************************************************************)
Running == vmpc \in {"run", "sent"}

\* The messages of a type in a stream: there is none, there is at most one.
Absent(type, q) == \A i \in DOMAIN q : q[i].type # type
Single(type, q) ==
  \A i, j \in DOMAIN q : q[i].type = type /\ q[j].type = type => i = j

\* One run at a time, and none unless the simulator waits for its report.
RunInv ==
  /\ Single("RUN_NODE", toVM) /\ Single("NODE_RUN", toSim)
  /\ Absent("RUN_NODE", toVM) \/ (Absent("NODE_RUN", toSim) /\ ~Running)
  /\ Running => Absent("NODE_RUN", toSim)
  /\ simpc \notin {"run", "crash"} =>
       Absent("RUN_NODE", toVM) /\ Absent("NODE_RUN", toSim) /\ ~Running

\* No node runs, and no tuple is delayed, before the nodes are created, and the
\* order to create them comes first.
CreateInv ==
  /\ simpc = "start" => DOMAIN node = {} /\ toVM = <<>>
  /\ simpc # "start" /\ DOMAIN node = {} =>
       \E j \in DOMAIN toVM :
         /\ toVM[j].type = "CREATE_N_NODES"
         /\ \A i \in DOMAIN toVM : toVM[i].type = "RUN_NODE" => j < i
  /\ Running => DOMAIN node = Ids /\ current_node \in Ids
  /\ delay_queue # <<>> => DOMAIN node = Ids

\* The report of the last run of node n has not been read.
Reported(n) ==
  \E i \in DOMAIN toSim :
    toSim[i].type = "NODE_RUN" /\ toSim[i].node = n /\ toSim[i].ts = node[n].timestamp

\* The simulator's record of a node is up to date, or the report under way; an
\* order is for a time that the node has not passed.
TimeInv ==
  /\ \A n \in DOMAIN node : node[n].timestamp <= sim[n].next \/ Reported(n)
  /\ \A i \in DOMAIN toVM : toVM[i].type = "RUN_NODE" =>
       \A n \in DOMAIN node : n = toVM[i].node => node[n].timestamp <= toVM[i].ts
  /\ RunsForward

IInv == ChannelTypes /\ WorkTypes /\ SimTypes /\ NodeTypes /\ RunInv /\ CreateInv /\ TimeInv

(***************************************************************************)
(* Streams: what reading and writing does to the messages of a type.       *)
(***************************************************************************)
LEMMA TailShape ==
  ASSUME NEW S, NEW q \in Seq(S), q # <<>>
  PROVE  /\ Tail(q) \in Seq(S) /\ Head(q) = q[1] /\ 1 \in DOMAIN q /\ q[1] \in S
         /\ \A i \in DOMAIN Tail(q) : i \in Nat /\ i + 1 \in DOMAIN q /\ Tail(q)[i] = q[i + 1]
         /\ \A i \in DOMAIN q : i # 1 => i - 1 \in DOMAIN Tail(q) /\ Tail(q)[i - 1] = q[i]
<1>1. Len(q) \in Nat /\ Len(q) > 0 /\ DOMAIN q = 1 .. Len(q) /\ Head(q) = q[1]
  OBVIOUS
<1>2. Tail(q) \in Seq(S) /\ DOMAIN Tail(q) = 1 .. Len(q) - 1
      /\ \A i \in 1 .. Len(q) - 1 : Tail(q)[i] = q[i + 1]
  OBVIOUS
<1> QED BY <1>1, <1>2

LEMMA AbsentTail ==
  ASSUME NEW S, NEW q \in Seq(S), q # <<>>, NEW type
  PROVE  /\ Single(type, q) => Single(type, Tail(q))
         /\ Absent(type, q) => Absent(type, Tail(q))
         /\ Single(type, q) /\ q[1].type = type => Absent(type, Tail(q))
<1>1. /\ 1 \in DOMAIN q
      /\ \A i \in DOMAIN Tail(q) : i \in Nat /\ i + 1 \in DOMAIN q /\ Tail(q)[i] = q[i + 1]
      /\ Tail(q) \in Seq(S)
  BY TailShape
<1>2. \A i \in DOMAIN Tail(q) : i > 0
  BY <1>1
<1>3. ASSUME Single(type, q) PROVE Single(type, Tail(q))
  <2> SUFFICES ASSUME NEW i \in DOMAIN Tail(q), NEW j \in DOMAIN Tail(q),
                      Tail(q)[i].type = type, Tail(q)[j].type = type
               PROVE  i = j
    BY DEF Single
  <2>1. i + 1 = j + 1
    BY <1>1, <1>3 DEF Single
  <2> QED BY <1>1, <2>1
<1>4. ASSUME Absent(type, q) PROVE Absent(type, Tail(q))
  BY <1>1, <1>4 DEF Absent
<1>5. ASSUME Single(type, q), q[1].type = type PROVE Absent(type, Tail(q))
  <2> SUFFICES ASSUME NEW i \in DOMAIN Tail(q), Tail(q)[i].type = type PROVE FALSE
    BY DEF Absent
  <2>1. i + 1 = 1
    BY <1>1, <1>5 DEF Single
  <2> QED BY <1>1, <1>2, <2>1
<1> QED BY <1>3, <1>4, <1>5

LEMMA ConcatShape ==
  ASSUME NEW S, NEW q \in Seq(S), NEW r \in Seq(S)
  PROVE  /\ q \o r \in Seq(S)
         /\ \A i \in DOMAIN q : i \in DOMAIN (q \o r) /\ (q \o r)[i] = q[i]
         /\ \A i \in DOMAIN r : Len(q) + i \in DOMAIN (q \o r) /\ (q \o r)[Len(q) + i] = r[i]
         /\ \A i \in DOMAIN (q \o r) :
              i \in DOMAIN q \/ (i - Len(q) \in DOMAIN r /\ (q \o r)[i] = r[i - Len(q)])
<1>1. /\ Len(q) \in Nat /\ DOMAIN q = 1 .. Len(q)
      /\ Len(r) \in Nat /\ DOMAIN r = 1 .. Len(r)
  OBVIOUS
<1>2. /\ q \o r \in Seq(S) /\ DOMAIN (q \o r) = 1 .. Len(q) + Len(r)
      /\ \A i \in 1 .. Len(q) + Len(r) :
           (q \o r)[i] = IF i <= Len(q) THEN q[i] ELSE r[i - Len(q)]
  OBVIOUS
<1> QED BY <1>1, <1>2

LEMMA AbsentConcat ==
  ASSUME NEW S, NEW q \in Seq(S), NEW r \in Seq(S), NEW type, Absent(type, r)
  PROVE  /\ Single(type, q) => Single(type, q \o r)
         /\ Absent(type, q) => Absent(type, q \o r)
<1>1. \A i \in DOMAIN (q \o r) :
        (q \o r)[i].type = type => i \in DOMAIN q /\ q[i].type = type
  BY ConcatShape DEF Absent
<1> QED BY <1>1 DEF Single, Absent

LEMMA AppendMember ==
  ASSUME NEW S, NEW q \in Seq(S), NEW x \in S
  PROVE  /\ Append(q, x) \in Seq(S)
         /\ \A i \in DOMAIN q : i \in DOMAIN Append(q, x) /\ Append(q, x)[i] = q[i]
         /\ \A i \in DOMAIN Append(q, x) :
              i \in DOMAIN q \/ (i = Len(q) + 1 /\ Append(q, x)[i] = x)
         /\ Len(q) + 1 \in DOMAIN Append(q, x) /\ Append(q, x)[Len(q) + 1] = x
<1>1. /\ Len(q) \in Nat /\ DOMAIN q = 1 .. Len(q)
      /\ DOMAIN Append(q, x) = 1 .. Len(q) + 1
      /\ \A i \in 1 .. Len(q) : Append(q, x)[i] = q[i]
      /\ Append(q, x)[Len(q) + 1] = x
  OBVIOUS
<1> QED BY <1>1

LEMMA AbsentAppend ==
  ASSUME NEW S, NEW q \in Seq(S), NEW x \in S, NEW type
  PROVE  /\ x.type # type /\ Single(type, q) => Single(type, Append(q, x))
         /\ x.type # type /\ Absent(type, q) => Absent(type, Append(q, x))
         /\ Absent(type, q) => Single(type, Append(q, x))
<1>1. \A i \in DOMAIN Append(q, x) :
        \/ i \in DOMAIN q /\ Append(q, x)[i] = q[i]
        \/ i = Len(q) + 1 /\ Append(q, x)[i] = x
  BY AppendMember
<1>2. x.type # type /\ Single(type, q) => Single(type, Append(q, x))
  BY <1>1 DEF Single
<1>3. x.type # type /\ Absent(type, q) => Absent(type, Append(q, x))
  BY <1>1 DEF Absent
<1>4. Absent(type, q) => Single(type, Append(q, x))
  BY <1>1 DEF Single, Absent
<1> QED BY <1>2, <1>3, <1>4

(***************************************************************************)
(* Nodes: everything but the end of a run keeps their timestamps.          *)
(***************************************************************************)
HasTime(nd) == "timestamp" \in DOMAIN nd

\* nd2 is nd, as far as time goes.
SameTime(nd, nd2) == HasTime(nd2) /\ nd2.timestamp = nd.timestamp

KeepsTimes ==
  /\ DOMAIN node' = DOMAIN node
  /\ \A n \in DOMAIN node : SameTime(node[n], node'[n])

LEMMA ReceivedKeeps ==
  ASSUME NEW nd, HasTime(nd), NEW ts, NEW es
  PROVE  SameTime(nd, add_received_tuple(nd, ts, es))
BY DEF HasTime, SameTime, add_received_tuple

LEMMA WithoutDueKeeps ==
  ASSUME NEW nd, HasTime(nd), NEW until
  PROVE  SameTime(nd, WithoutDue(nd, until))
BY DEF HasTime, SameTime, WithoutDue

LEMMA AddNeighborKeeps ==
  ASSUME NEW nd, HasTime(nd), NEW ts, NEW out, NEW face
  PROVE  SameTime(nd, AddNeighbor(nd, ts, out, face))
<1> DEFINE old == nd.face[face]
           total == nd.neighbor_count
           nd1 == [nd EXCEPT !.face[face] = out,
                             !.neighbor_count = IF old = NO_NEIGHBOR THEN total + 1 ELSE total]
<1>1. SameTime(nd, nd1)
  BY Zenon DEF HasTime, SameTime
<1>2. \A es : SameTime(nd1, add_received_tuple(nd1, ts, es))
  <2> HIDE DEF nd1
  <2> QED BY <1>1, ReceivedKeeps DEF SameTime
<1> HIDE DEF nd1
<1>3. \A es : SameTime(nd, add_received_tuple(nd1, ts, es))
  BY <1>1, <1>2 DEF SameTime
<1> QED BY <1>1, <1>3, Zenon DEF AddNeighbor, nd1

LEMMA RemoveNeighborKeeps ==
  ASSUME NEW nd, HasTime(nd), NEW ts, NEW face
  PROVE  SameTime(nd, RemoveNeighbor(nd, ts, face))
<1> DEFINE nd1 == [nd EXCEPT !.face[face] = NO_NEIGHBOR,
                             !.neighbor_count = nd.neighbor_count - 1]
<1>1. SameTime(nd, nd1)
  BY Zenon DEF HasTime, SameTime
<1>2. \A es : SameTime(nd1, add_received_tuple(nd1, ts, es))
  <2> HIDE DEF nd1
  <2> QED BY <1>1, ReceivedKeeps DEF SameTime
<1> HIDE DEF nd1
<1>3. \A es : SameTime(nd, add_received_tuple(nd1, ts, es))
  BY <1>1, <1>2 DEF SameTime
<1> QED BY <1>3, Zenon DEF RemoveNeighbor, nd1

\* One node is replaced by another that has the same time.
LEMMA ReplaceKeeps ==
  ASSUME NodeTypes, NEW k, NEW nd, node' = [node EXCEPT ![k] = nd],
         k \in DOMAIN node => SameTime(node[k], nd)
  PROVE  KeepsTimes
BY DEF NodeTypes, KeepsTimes, SameTime, HasTime

(***************************************************************************)
(* The kinds of steps: the VM reads a message that orders no run; it does  *)
(* something else that ends no run; the simulator does something that      *)
(* neither orders a run nor reads a report.                                *)
(***************************************************************************)
Reads ==
  /\ ~Running /\ ~Running'
  /\ toVM # <<>> /\ toVM' = Tail(toVM)
  /\ toVM[1].type \notin {"RUN_NODE", "CREATE_N_NODES"}
  /\ KeepsTimes
  /\ UNCHANGED <<toSim, simVars, delay_queue>>
  /\ WorkTypes'

VMQuiet ==
  /\ KeepsTimes
  /\ \E s \in Seq(LateSends \cup Colors) : toSim' = toSim \o s
  /\ UNCHANGED <<toVM, simVars>>
  /\ Running' => Running /\ UNCHANGED current_node
  /\ vmpc' = "run" => UNCHANGED <<vmpc, sim_instr_counter, sim_instr_limit>>
  /\ delay_queue' # <<>> => DOMAIN node = Ids
  /\ WorkTypes'

timeVars == <<node, vmpc, current_node, sim_instr_counter, sim_instr_limit,
              socket_messages, tmp_work, delay_queue, now>>

SimQuiet ==
  /\ UNCHANGED timeVars
  /\ \/ UNCHANGED toVM
     \/ \E m \in VMMessages : m.type # "RUN_NODE" /\ toVM' = Append(toVM, m)
  /\ \/ UNCHANGED toSim
     \/ toSim # <<>> /\ toSim[1].type # "NODE_RUN" /\ toSim' = Tail(toSim)
  /\ simpc # "start" /\ simpc' # "start"
  /\ simpc \in {"run", "crash"} => simpc' \in {"run", "crash"}
  /\ pqueue' \in Seq(Ids) /\ sim' \in [Ids -> Blocks]
  /\ \A n \in Ids : sim[n].next <= sim'[n].next

LEMMA KeepsNodeTypes == NodeTypes /\ KeepsTimes => NodeTypes'
<1> SUFFICES ASSUME NodeTypes, KeepsTimes PROVE NodeTypes'
  OBVIOUS
<1>1. DOMAIN node' \in {{}, Ids}
  BY DEF NodeTypes, KeepsTimes
<1>2. ASSUME NEW n \in DOMAIN node'
      PROVE  "timestamp" \in DOMAIN node'[n] /\ node'[n].timestamp \in Nat
  BY DEF NodeTypes, KeepsTimes, SameTime, HasTime
<1> QED BY <1>1, <1>2 DEF NodeTypes

LEMMA ReadsKeep == IInv /\ Reads => IInv'
<1> SUFFICES ASSUME IInv, Reads PROVE IInv'
  OBVIOUS
<1> USE DEF IInv
<1>0. UNCHANGED <<toSim, deterministic, sim, pqueue, simpc, writes, delay_queue>>
  BY DEF Reads, simVars
<1>1. toVM \in Seq(VMMessages) /\ toVM # <<>> /\ toVM' = Tail(toVM)
      /\ toVM[1].type \notin {"RUN_NODE", "CREATE_N_NODES"}
  BY DEF ChannelTypes, Reads
<1>2. /\ toVM' \in Seq(VMMessages)
      /\ \A i \in DOMAIN toVM' : i \in Nat /\ i + 1 \in DOMAIN toVM /\ toVM'[i] = toVM[i + 1]
      /\ \A i \in DOMAIN toVM : i # 1 => i - 1 \in DOMAIN toVM' /\ toVM'[i - 1] = toVM[i]
  BY <1>1, TailShape
<1>3. ChannelTypes' /\ WorkTypes' /\ SimTypes' /\ NodeTypes'
  BY <1>0, <1>2, KeepsNodeTypes DEF ChannelTypes, SimTypes, Reads
<1>4. RunInv'
  <2>1. /\ Single("RUN_NODE", toVM) => Single("RUN_NODE", toVM')
        /\ Absent("RUN_NODE", toVM) => Absent("RUN_NODE", toVM')
    BY <1>1, AbsentTail
  <2> QED BY <1>0, <2>1 DEF RunInv, Reads
<1>5. CreateInv'
  <2>2. simpc' # "start"
    BY <1>0, <1>1 DEF CreateInv
  <2>1. ASSUME DOMAIN node' = {}
        PROVE  \E j \in DOMAIN toVM' :
                 /\ toVM'[j].type = "CREATE_N_NODES"
                 /\ \A i \in DOMAIN toVM' : toVM'[i].type = "RUN_NODE" => j < i
    <3>1. PICK k \in DOMAIN toVM :
            /\ toVM[k].type = "CREATE_N_NODES"
            /\ \A i \in DOMAIN toVM : toVM[i].type = "RUN_NODE" => k < i
      BY <1>0, <2>1, <2>2 DEF CreateInv, Reads, KeepsTimes
    <3>2. k # 1 /\ k \in Nat
      BY <1>1, <3>1
    <3>3. k - 1 \in DOMAIN toVM' /\ toVM'[k - 1].type = "CREATE_N_NODES"
      BY <1>2, <3>1, <3>2
    <3>4. ASSUME NEW i \in DOMAIN toVM', toVM'[i].type = "RUN_NODE" PROVE k - 1 < i
      <4>1. i \in Nat /\ k < i + 1
        BY <1>2, <3>1, <3>4
      <4> QED BY <3>2, <4>1
    <3> QED BY <3>3, <3>4
  <2> QED BY <1>0, <2>1, <2>2 DEF CreateInv, Reads, KeepsTimes
<1>6. TimeInv'
  <2>1. \A n \in DOMAIN node' : node'[n].timestamp = node[n].timestamp /\ n \in DOMAIN node
    BY DEF Reads, KeepsTimes, SameTime
  <2>2. \A n \in DOMAIN node' : node'[n].timestamp <= sim'[n].next \/ Reported(n)'
    BY <1>0, <2>1 DEF TimeInv, Reported
  <2>3. ASSUME NEW i \in DOMAIN toVM', toVM'[i].type = "RUN_NODE",
               NEW n \in DOMAIN node', n = toVM'[i].node
        PROVE  node'[n].timestamp <= toVM'[i].ts
    <3>1. PICK k \in DOMAIN toVM : toVM'[i] = toVM[k]
      BY <1>2
    <3>2. node[n].timestamp <= toVM[k].ts
      BY <2>1, <2>3, <3>1 DEF TimeInv
    <3> QED BY <2>1, <3>1, <3>2
  <2>4. RunsForward'
    BY DEF RunsForward, Reads, Running
  <2> QED BY <2>2, <2>3, <2>4 DEF TimeInv
<1> QED BY <1>3, <1>4, <1>5, <1>6

LEMMA VMQuietKeeps == IInv /\ VMQuiet => IInv'
<1> SUFFICES ASSUME IInv, VMQuiet PROVE IInv'
  OBVIOUS
<1> USE DEF IInv
<1>0. UNCHANGED <<toVM, deterministic, sim, pqueue, simpc, writes>>
  BY DEF VMQuiet, simVars
<1>1. PICK s \in Seq(LateSends \cup Colors) : toSim' = toSim \o s
  BY DEF VMQuiet
<1> DEFINE S == Sends \cup Colors \cup Reports
<1>2. toSim \in Seq(S) /\ s \in Seq(S)
  BY DEF ChannelTypes, LateSends
<1>3. Absent("NODE_RUN", s)
  BY DEF Absent, LateSends, Sends, Colors
<1>4. /\ toSim' \in Seq(S)
      /\ \A i \in DOMAIN toSim : i \in DOMAIN toSim' /\ toSim'[i] = toSim[i]
  <2> HIDE DEF S
  <2> QED BY <1>1, <1>2, ConcatShape
<1>5. ChannelTypes' /\ WorkTypes' /\ SimTypes' /\ NodeTypes'
  BY <1>0, <1>4, KeepsNodeTypes DEF ChannelTypes, SimTypes, VMQuiet
<1>6. RunInv'
  <2>1. /\ Single("NODE_RUN", toSim) => Single("NODE_RUN", toSim')
        /\ Absent("NODE_RUN", toSim) => Absent("NODE_RUN", toSim')
    <3> HIDE DEF S
    <3> QED BY <1>1, <1>2, <1>3, AbsentConcat
  <2>2. Running' => Running
    BY DEF VMQuiet
  <2> QED BY <1>0, <2>1, <2>2 DEF RunInv
<1>7. CreateInv'
  BY <1>0 DEF CreateInv, VMQuiet, KeepsTimes
<1>8. TimeInv'
  <2>1. \A n \in DOMAIN node' : node'[n].timestamp = node[n].timestamp /\ n \in DOMAIN node
    BY DEF VMQuiet, KeepsTimes, SameTime
  <2>2. \A n \in DOMAIN node' : node'[n].timestamp <= sim'[n].next \/ Reported(n)'
    BY <1>0, <1>4, <2>1 DEF TimeInv, Reported
  <2>3. \A i \in DOMAIN toVM' : toVM'[i].type = "RUN_NODE" =>
          \A n \in DOMAIN node' : n = toVM'[i].node => node'[n].timestamp <= toVM'[i].ts
    BY <1>0, <2>1 DEF TimeInv
  <2>4. RunsForward'
    BY DEF RunsForward, VMQuiet, TimeInv
  <2> QED BY <2>2, <2>3, <2>4 DEF TimeInv
<1> QED BY <1>5, <1>6, <1>7, <1>8

LEMMA SimQuietKeeps == IInv /\ SimQuiet => IInv'
<1> SUFFICES ASSUME IInv, SimQuiet PROVE IInv'
  OBVIOUS
<1> USE DEF IInv
<1>0. UNCHANGED <<node, vmpc, current_node, sim_instr_counter, sim_instr_limit,
                  socket_messages, tmp_work, delay_queue, now>>
  BY DEF SimQuiet, timeVars
<1>1. /\ toVM' \in Seq(VMMessages)
      /\ \A i \in DOMAIN toVM : i \in DOMAIN toVM' /\ toVM'[i] = toVM[i]
      /\ \A i \in DOMAIN toVM' : toVM'[i].type = "RUN_NODE" => i \in DOMAIN toVM
      /\ Single("RUN_NODE", toVM) => Single("RUN_NODE", toVM')
      /\ Absent("RUN_NODE", toVM) => Absent("RUN_NODE", toVM')
  <2>1. toVM \in Seq(VMMessages)
    BY DEF ChannelTypes
  <2>2. CASE UNCHANGED toVM
    BY <2>1, <2>2
  <2>3. ASSUME NEW m \in VMMessages, m.type # "RUN_NODE", toVM' = Append(toVM, m)
        PROVE  <1>1!:
    <3> HIDE DEF VMMessages
    <3>1. /\ Append(toVM, m) \in Seq(VMMessages)
          /\ \A i \in DOMAIN toVM : i \in DOMAIN Append(toVM, m) /\ Append(toVM, m)[i] = toVM[i]
          /\ \A i \in DOMAIN Append(toVM, m) :
               i \in DOMAIN toVM \/ (i = Len(toVM) + 1 /\ Append(toVM, m)[i] = m)
      BY <2>1, AppendMember
    <3>2. /\ Single("RUN_NODE", toVM) => Single("RUN_NODE", Append(toVM, m))
          /\ Absent("RUN_NODE", toVM) => Absent("RUN_NODE", Append(toVM, m))
      BY <2>1, <2>3, AbsentAppend
    <3> QED BY <2>3, <3>1, <3>2
  <2> QED BY <2>2, <2>3 DEF SimQuiet
<1> DEFINE S == Sends \cup Colors \cup Reports
<1>2. /\ toSim' \in Seq(S)
      /\ Single("NODE_RUN", toSim) => Single("NODE_RUN", toSim')
      /\ Absent("NODE_RUN", toSim) => Absent("NODE_RUN", toSim')
      /\ \A i \in DOMAIN toSim : toSim[i].type = "NODE_RUN" =>
           \E j \in DOMAIN toSim' : toSim'[j] = toSim[i]
  <2>1. toSim \in Seq(S)
    BY DEF ChannelTypes
  <2> HIDE DEF S
  <2>2. CASE UNCHANGED toSim
    BY <2>1, <2>2
  <2>3. CASE toSim # <<>> /\ toSim[1].type # "NODE_RUN" /\ toSim' = Tail(toSim)
    <3>1. /\ Tail(toSim) \in Seq(S)
          /\ \A i \in DOMAIN toSim : i # 1 =>
               i - 1 \in DOMAIN Tail(toSim) /\ Tail(toSim)[i - 1] = toSim[i]
      BY <2>1, <2>3, TailShape
    <3>2. /\ Single("NODE_RUN", toSim) => Single("NODE_RUN", Tail(toSim))
          /\ Absent("NODE_RUN", toSim) => Absent("NODE_RUN", Tail(toSim))
      BY <2>1, <2>3, AbsentTail
    <3>3. ASSUME NEW i \in DOMAIN toSim, toSim[i].type = "NODE_RUN"
          PROVE  \E j \in DOMAIN toSim' : toSim'[j] = toSim[i]
      BY <2>3, <3>1, <3>3
    <3> QED BY <2>3, <3>1, <3>2, <3>3
  <2> QED BY <2>2, <2>3 DEF SimQuiet
<1>3. ChannelTypes' /\ WorkTypes' /\ SimTypes' /\ NodeTypes'
  BY <1>0, <1>1, <1>2 DEF ChannelTypes, WorkTypes, SimTypes, NodeTypes, SimQuiet
<1>4. RunInv'
  <2>1. simpc' \notin {"run", "crash"} => simpc \notin {"run", "crash"}
    BY DEF SimQuiet
  <2>2. Running' <=> Running
    BY <1>0 DEF Running
  <2> QED BY <1>1, <1>2, <2>1, <2>2 DEF RunInv
<1>5. CreateInv'
  <2>1. ASSUME DOMAIN node' = {}
        PROVE  \E j \in DOMAIN toVM' :
                 /\ toVM'[j].type = "CREATE_N_NODES"
                 /\ \A i \in DOMAIN toVM' : toVM'[i].type = "RUN_NODE" => j < i
    <3>1. PICK j \in DOMAIN toVM :
            /\ toVM[j].type = "CREATE_N_NODES"
            /\ \A i \in DOMAIN toVM : toVM[i].type = "RUN_NODE" => j < i
      BY <1>0, <2>1 DEF CreateInv, SimQuiet
    <3>2. j \in DOMAIN toVM' /\ toVM'[j] = toVM[j]
      BY <1>1
    <3>3. ASSUME NEW i \in DOMAIN toVM', toVM'[i].type = "RUN_NODE" PROVE j < i
      BY <1>1, <3>1, <3>3
    <3> QED BY <3>1, <3>2, <3>3
  <2>2. simpc' # "start"
    BY DEF SimQuiet
  <2> QED BY <1>0, <2>1, <2>2 DEF CreateInv, Running
<1>6. TimeInv'
  <2>1. ASSUME NEW n \in DOMAIN node'
        PROVE  node'[n].timestamp <= sim'[n].next \/ Reported(n)'
    <3>1. n \in DOMAIN node /\ n \in Ids /\ node'[n].timestamp = node[n].timestamp
          /\ node[n].timestamp \in Nat
      BY <1>0 DEF NodeTypes
    <3>2. CASE Reported(n)
      BY <1>0, <1>2, <3>1, <3>2 DEF Reported
    <3>3. CASE node[n].timestamp <= sim[n].next
      <4>1. sim \in [Ids -> Blocks] /\ sim' \in [Ids -> Blocks]
        BY DEF SimQuiet, SimTypes
      <4>2. sim[n].next \in Nat /\ sim'[n].next \in Nat /\ sim[n].next <= sim'[n].next
        BY <3>1, <4>1 DEF Blocks, SimQuiet
      <4> QED BY <3>1, <3>3, <4>2
    <3> QED BY <3>1, <3>2, <3>3 DEF TimeInv
  <2>2. \A i \in DOMAIN toVM' : toVM'[i].type = "RUN_NODE" =>
          \A n \in DOMAIN node' : n = toVM'[i].node => node'[n].timestamp <= toVM'[i].ts
    BY <1>0, <1>1 DEF TimeInv
  <2>3. RunsForward'
    BY <1>0 DEF RunsForward, TimeInv
  <2> QED BY <2>1, <2>2, <2>3 DEF TimeInv
<1> QED BY <1>3, <1>4, <1>5, <1>6

(***************************************************************************)
(* The messages that the VM reads.                                         *)
(***************************************************************************)
LEMMA HandledReads ==
  ASSUME IInv, NEW type, ReadMessage(type), type \notin {"RUN_NODE", "CREATE_N_NODES"},
         Handled, KeepsTimes, vmpc' \notin {"run", "sent"}, UNCHANGED simVars,
         UNCHANGED <<sim_instr_counter, sim_instr_limit, tmp_work, delay_queue>>
  PROVE  Reads
<1>1. toVM \in Seq(VMMessages) /\ toVM # <<>> /\ toVM[1].type = type
  BY TailShape DEF IInv, ChannelTypes, ReadMessage, Head0
<1>2. WorkTypes'
  BY DEF IInv, WorkTypes, Handled
<1>3. ~Running /\ ~Running'
  BY DEF Running, ReadMessage
<1> QED BY <1>1, <1>2, <1>3 DEF Reads, Handled

LEMMA SameNodesKeep == NodeTypes /\ UNCHANGED node => KeepsTimes
BY DEF NodeTypes, KeepsTimes, SameTime, HasTime

LEMMA UseThreadsReads == ASSUME IInv, use_threads, UNCHANGED simVars PROVE Reads
<1>1. UNCHANGED <<node, vmpc, sim_instr_counter, sim_instr_limit, tmp_work, delay_queue>>
  BY DEF use_threads, masterVars
<1>2. KeepsTimes
  BY <1>1, SameNodesKeep DEF IInv
<1>3. ReadMessage("USE_THREADS") /\ Handled /\ vmpc' \notin {"run", "sent"}
  BY <1>1 DEF use_threads, ReadMessage
<1> QED BY <1>1, <1>2, <1>3, HandledReads

LEMMA StopReads == ASSUME IInv, HandleStop, UNCHANGED simVars PROVE Reads
<1>1. UNCHANGED <<node, sim_instr_counter, sim_instr_limit, tmp_work, delay_queue>>
  BY DEF HandleStop
<1>2. KeepsTimes
  BY <1>1, SameNodesKeep DEF IInv
<1>3. ReadMessage("STOP") /\ Handled /\ vmpc' \notin {"run", "sent"}
  BY DEF HandleStop
<1> QED BY <1>1, <1>2, <1>3, HandledReads

LEMMA ReceiveReads ==
  ASSUME IInv, handle_receive_message, UNCHANGED simVars PROVE Reads
<1> DEFINE target == IF Head0.face = INVALID_FACE THEN Head0.node
                     ELSE node[Head0.node].face[Head0.face]
           new == add_received_tuple(node[target], Head0.ts, <<STuple(Head0.tuple, 1)>>)
<1>1. UNCHANGED <<sim_instr_counter, sim_instr_limit, tmp_work, delay_queue>>
  BY DEF handle_receive_message
<1>2. \/ vmpc' = "abort" /\ UNCHANGED node
      \/ node' = [node EXCEPT ![target] = new] /\ UNCHANGED vmpc
  BY Zenon DEF handle_receive_message
<1>3. target \in DOMAIN node => SameTime(node[target], new)
  <2> HIDE DEF target
  <2> QED BY ReceivedKeeps DEF IInv, NodeTypes, HasTime
<1>4. KeepsTimes
  <2>1. CASE UNCHANGED node
    BY <2>1, SameNodesKeep DEF IInv
  <2>2. CASE node' = [node EXCEPT ![target] = new]
    <3> HIDE DEF target, new
    <3> QED BY <1>3, <2>2, ReplaceKeeps DEF IInv
  <2> QED BY <1>2, <2>1, <2>2
<1>5. ReadMessage("RECEIVE_MESSAGE") /\ Handled /\ vmpc' \notin {"run", "sent"}
  BY <1>2 DEF handle_receive_message, ReadMessage
<1> QED BY <1>1, <1>4, <1>5, HandledReads

LEMMA AddNeighborReads ==
  ASSUME IInv, handle_add_neighbor, UNCHANGED simVars PROVE Reads
<1> DEFINE n == Head0.node
           new == AddNeighbor(node[n], Head0.ts, Head0.out, Head0.face)
<1>1. UNCHANGED <<vmpc, sim_instr_counter, sim_instr_limit, tmp_work, delay_queue>>
  BY DEF handle_add_neighbor, masterVars
<1>2. node' = [node EXCEPT ![n] = new]
  BY DEF handle_add_neighbor
<1>3. n \in DOMAIN node => SameTime(node[n], new)
  <2> HIDE DEF n
  <2> QED BY AddNeighborKeeps DEF IInv, NodeTypes, HasTime
<1>4. KeepsTimes
  <2> HIDE DEF n, new
  <2> QED BY <1>2, <1>3, ReplaceKeeps DEF IInv
<1>5. ReadMessage("ADD_NEIGHBOR") /\ Handled /\ vmpc' \notin {"run", "sent"}
  BY <1>1 DEF handle_add_neighbor, ReadMessage
<1> QED BY <1>1, <1>4, <1>5, HandledReads

LEMMA RemoveNeighborReads ==
  ASSUME IInv, handle_remove_neighbor, UNCHANGED simVars PROVE Reads
<1> DEFINE n == Head0.node
           new == RemoveNeighbor(node[n], Head0.ts, Head0.face)
<1>1. UNCHANGED <<sim_instr_counter, sim_instr_limit, tmp_work, delay_queue>>
  BY DEF handle_remove_neighbor
<1>2. \/ vmpc' = "abort" /\ UNCHANGED node
      \/ node' = [node EXCEPT ![n] = new] /\ UNCHANGED vmpc
  BY Zenon DEF handle_remove_neighbor
<1>3. n \in DOMAIN node => SameTime(node[n], new)
  <2> HIDE DEF n
  <2> QED BY RemoveNeighborKeeps DEF IInv, NodeTypes, HasTime
<1>4. KeepsTimes
  <2>1. CASE UNCHANGED node
    BY <2>1, SameNodesKeep DEF IInv
  <2>2. CASE node' = [node EXCEPT ![n] = new]
    <3> HIDE DEF n, new
    <3> QED BY <1>3, <2>2, ReplaceKeeps DEF IInv
  <2> QED BY <1>2, <2>1, <2>2
<1>5. ReadMessage("REMOVE_NEIGHBOR") /\ Handled /\ vmpc' \notin {"run", "sent"}
  BY <1>2 DEF handle_remove_neighbor, ReadMessage
<1> QED BY <1>1, <1>4, <1>5, HandledReads

LEMMA SensedReads ==
  ASSUME IInv, NEW type, NEW tuple, Sensed(type, tuple), UNCHANGED simVars,
         type \notin {"RUN_NODE", "CREATE_N_NODES"}
  PROVE  Reads
<1> DEFINE n == Head0.node
           new == add_received_tuple(node[n], Head0.ts, IfDeclared(tuple, 1))
<1>1. UNCHANGED <<vmpc, sim_instr_counter, sim_instr_limit, tmp_work, delay_queue>>
  BY DEF Sensed, masterVars
<1>2. node' = [node EXCEPT ![n] = new]
  BY DEF Sensed
<1>3. n \in DOMAIN node => SameTime(node[n], new)
  <2> HIDE DEF n
  <2> QED BY ReceivedKeeps DEF IInv, NodeTypes, HasTime
<1>4. KeepsTimes
  <2> HIDE DEF n, new
  <2> QED BY <1>2, <1>3, ReplaceKeeps DEF IInv
<1>5. ReadMessage(type) /\ Handled /\ vmpc' \notin {"run", "sent"}
  BY <1>1 DEF Sensed, ReadMessage
<1> QED BY <1>1, <1>4, <1>5, HandledReads

(***************************************************************************)
(* What the VM writes.                                                     *)
(***************************************************************************)
LEMMA MaxPair ==
  ASSUME NEW a \in Int, NEW b \in Int
  PROVE  Max({a, b}) \in {a, b} /\ Max({a, b}) >= a /\ Max({a, b}) >= b
<1> DEFINE P(x) == x \in {a, b} /\ \A y \in {a, b} : x >= y
<1>1. \E x : P(x)
  <2>1. CASE a >= b
    <3>1. P(a)
      BY <2>1
    <3> QED BY <3>1
  <2>2. CASE b >= a
    <3>1. P(b)
      BY <2>2
    <3> QED BY <3>1
  <2> QED BY <2>1, <2>2
<1>2. P(CHOOSE x : P(x))
  BY <1>1
<1>3. Max({a, b}) = CHOOSE x \in {a, b} : \A y \in {a, b} : x >= y
  BY DEF Max
<1> QED BY <1>1, <1>3

LEMMA FaceType ==
  ASSUME NEW n, NEW id PROVE get_face(n, id) \in Faces \cup {INVALID_FACE}
<1> DEFINE on == {f \in Faces : node[n].face[f] = id}
<1>1. CASE on = {}
  BY <1>1 DEF get_face
<1>2. CASE on # {}
  <2>1. on \subseteq Nat
    <3>1. on \subseteq Faces /\ Faces \subseteq 0 .. 5
      BY FacesAssumption
    <3> HIDE DEF on
    <3> QED BY <3>1
  <2>2. \E x \in on : \A y \in on : x <= y
    <3> HIDE DEF on
    <3> QED BY <1>2, <2>1, LeastElement
  <2>3. Min(on) \in on
    <3> HIDE DEF on
    <3> QED BY <2>2 DEF Min
  <2>4. get_face(n, id) = Min(on)
    BY <1>2 DEF get_face
  <2> QED BY <2>3, <2>4
<1> QED BY <1>1, <1>2

LEMMA SendType ==
  ASSUME NEW info, info.src \in Ids, info.to \in Ids, NEW ts \in Nat
  PROVE  /\ send_send_message(info, ts) \in Sends
         /\ info.delayed => send_send_message(info, ts) \in LateSends
<1> DEFINE face == get_face(info.src, info.to)
           how == IF info.delayed THEN "delayed" ELSE "run"
           led == IF face = INVALID_FACE THEN info.src ELSE info.to
<1>1. face \in Faces \cup {INVALID_FACE}
  BY FaceType
<1>2. <<"sent", info.to, how, led>> \in SentTuples
  <2>1. how \in {"run", "delayed"} /\ led \in Ids
    OBVIOUS
  <2> HIDE DEF how, led
  <2> QED BY <2>1 DEF SentTuples
<1>3. send_send_message(info, ts) =
        [type |-> "SEND_MESSAGE", ts |-> ts, node |-> info.src, face |-> face,
         tuple |-> <<"sent", info.to, how, led>>]
  BY DEF send_send_message
<1>4. info.delayed => how = "delayed"
  OBVIOUS
<1> HIDE DEF face, how, led
<1>5. send_send_message(info, ts) \in Sends
  BY <1>1, <1>2, <1>3 DEF Sends
<1> QED BY <1>3, <1>4, <1>5 DEF LateSends

LEMMA NothingWritten ==
  ASSUME NEW S, NEW q \in Seq(S), NEW T
  PROVE  \E s \in Seq(T) : q = q \o s
<1>1. <<>> \in Seq(T) /\ q = q \o <<>>
  OBVIOUS
<1> QED BY <1>1

LEMMA ColorWritten ==
  ASSUME NEW n \in Ids, NEW out, set_color(n, out), ChannelTypes, WorkTypes
  PROVE  /\ \E s \in Seq(LateSends \cup Colors) : toSim' = toSim \o s
         /\ socket_messages' \in Seq(Colors)
<1> DEFINE S == Sends \cup Colors \cup Reports
           T == LateSends \cup Colors
<1>1. SetColor(n) \in Colors
  BY DEF SetColor, Colors
<1>2. toSim \in Seq(S) /\ socket_messages \in Seq(Colors)
  BY DEF ChannelTypes, WorkTypes
<1>3. \E s \in Seq(T) : toSim = toSim \o s
  <2> HIDE DEF S, T
  <2> QED BY <1>2, NothingWritten
<1>4. CASE UNCHANGED toSim /\ socket_messages' = Append(socket_messages, SetColor(n))
  <2>1. socket_messages' \in Seq(Colors)
    <3> HIDE DEF Colors, SetColor
    <3> QED BY <1>1, <1>2, <1>4, AppendMember
  <2> QED BY <1>3, <1>4, <2>1
<1>5. CASE toSim' = Append(toSim, SetColor(n)) /\ UNCHANGED socket_messages
  <2>1. SetColor(n) \in T
    BY <1>1
  <2>2. <<SetColor(n)>> \in Seq(T) /\ toSim' = toSim \o <<SetColor(n)>>
    <3> HIDE DEF S, T, SetColor
    <3> QED BY <1>2, <1>5, <2>1
  <2> QED BY <1>2, <1>5, <2>2
<1>6. CASE UNCHANGED <<toSim, socket_messages>>
  BY <1>2, <1>3, <1>6
<1> QED BY <1>4, <1>5, <1>6 DEF set_color

\* A step of the master or of a slave that writes nothing, or only what waits.
LEMMA FlushQuiet ==
  ASSUME IInv, UNCHANGED simVars, UNCHANGED toVM, KeepsTimes,
         vmpc' # vmpc => vmpc' \notin {"run", "sent"},
         \/ UNCHANGED <<toSim, socket_messages>>
         \/ toSim' = toSim \o socket_messages /\ socket_messages' = <<>>,
         now' \in Nat,
         UNCHANGED <<current_node, sim_instr_counter, sim_instr_limit, tmp_work, delay_queue>>
  PROVE  VMQuiet
<1> DEFINE S == Sends \cup Colors \cup Reports
           T == LateSends \cup Colors
<1>1. toSim \in Seq(S) /\ socket_messages \in Seq(Colors) /\ socket_messages \in Seq(T)
  BY DEF IInv, ChannelTypes, WorkTypes
<1>2. \E s \in Seq(T) : toSim' = toSim \o s
  <2>1. \E s \in Seq(T) : toSim = toSim \o s
    <3> HIDE DEF S, T
    <3> QED BY <1>1, NothingWritten
  <2> QED BY <1>1, <2>1
<1>3. socket_messages' \in Seq(Colors)
  <2>1. <<>> \in Seq(Colors)
    OBVIOUS
  <2>2. socket_messages' \in {socket_messages, <<>>}
    OBVIOUS
  <2> QED BY <1>1, <2>1, <2>2
<1>4. WorkTypes'
  BY <1>3 DEF IInv, WorkTypes
<1>5. (Running' => Running) /\ (vmpc' = "run" => UNCHANGED vmpc)
  BY DEF Running
<1>6. delay_queue' # <<>> => DOMAIN node = Ids
  BY DEF IInv, CreateInv
<1> QED BY <1>2, <1>4, <1>5, <1>6 DEF VMQuiet

LEMMA AfterStopQuiet == ASSUME IInv, AfterStop, UNCHANGED simVars PROVE VMQuiet
<1>1. KeepsTimes
  BY SameNodesKeep DEF AfterStop, IInv
<1>2. now' \in Nat
  BY DEF AfterStop, IInv, WorkTypes
<1>3. UNCHANGED toVM /\ vmpc' \notin {"run", "sent"}
  BY DEF AfterStop
<1>4. /\ toSim' = toSim \o socket_messages /\ socket_messages' = <<>>
      /\ UNCHANGED <<current_node, sim_instr_counter, sim_instr_limit, tmp_work, delay_queue>>
  BY DEF AfterStop
<1> QED BY <1>1, <1>2, <1>3, <1>4, FlushQuiet

LEMMA SendPendingQuiet == ASSUME IInv, send_pending_messages, UNCHANGED simVars PROVE VMQuiet
<1>1. KeepsTimes
  BY SameNodesKeep DEF send_pending_messages, IInv
<1>2. now' \in Nat
  BY DEF send_pending_messages, IInv, WorkTypes
<1>3. UNCHANGED toVM /\ UNCHANGED vmpc
  BY DEF send_pending_messages, masterVars
<1>4. /\ toSim' = toSim \o socket_messages /\ socket_messages' = <<>>
      /\ UNCHANGED <<current_node, sim_instr_counter, sim_instr_limit, tmp_work, delay_queue>>
  BY DEF send_pending_messages, masterVars
<1> QED BY <1>1, <1>2, <1>3, <1>4, FlushQuiet

LEMMA InstantiateQuiet == ASSUME IInv, instantiate_all_nodes, UNCHANGED simVars PROVE VMQuiet
<1>1. KeepsTimes
  <2> DEFINE start(n) == [node[n] EXCEPT !.instantiated = TRUE]
  <2>1. /\ DOMAIN node' = DOMAIN node
        /\ \A n \in DOMAIN node : \E es : node'[n] = add_received_tuple(start(n), 0, es)
    BY Zenon DEF instantiate_all_nodes
  <2>2. ASSUME NEW n \in DOMAIN node PROVE SameTime(node[n], node'[n])
    <3>1. HasTime(node[n])
      BY DEF IInv, NodeTypes, HasTime
    <3>2. SameTime(node[n], start(n))
      BY <3>1, Zenon DEF SameTime, HasTime
    <3>3. \A es : SameTime(start(n), add_received_tuple(start(n), 0, es))
      <4> HIDE DEF start
      <4> QED BY <3>2, ReceivedKeeps DEF SameTime
    <3> HIDE DEF start
    <3> QED BY <2>1, <3>2, <3>3 DEF SameTime
  <2> QED BY <2>1, <2>2 DEF KeepsTimes
<1>2. now' \in Nat
  BY DEF instantiate_all_nodes, IInv, WorkTypes
<1>3. UNCHANGED toVM /\ UNCHANGED vmpc
  BY DEF instantiate_all_nodes, masterVars
<1>4. UNCHANGED <<toSim, socket_messages, current_node, sim_instr_counter, sim_instr_limit,
                  tmp_work, delay_queue>>
  BY DEF instantiate_all_nodes, masterVars
<1> QED BY <1>1, <1>2, <1>3, <1>4, FlushQuiet

LEMMA TickQuiet == ASSUME IInv, Tick, UNCHANGED simVars PROVE VMQuiet
<1>1. KeepsTimes
  BY SameNodesKeep DEF Tick, IInv
<1>2. now' \in Nat
  BY DEF Tick, IInv, WorkTypes
<1>3. UNCHANGED toVM /\ UNCHANGED vmpc
  BY DEF Tick, masterVars
<1>4. UNCHANGED <<toSim, socket_messages, current_node, sim_instr_counter, sim_instr_limit,
                  tmp_work, delay_queue>>
  BY DEF Tick, masterVars
<1> QED BY <1>1, <1>2, <1>3, <1>4, FlushQuiet

LEMMA SlaveEndQuiet ==
  ASSUME IInv, NEW n \in Ids, SlaveEnd(n), UNCHANGED simVars PROVE VMQuiet
<1>1. KeepsTimes
  BY SameNodesKeep DEF SlaveEnd, IInv
<1>2. now' \in Nat
  BY DEF SlaveEnd, IInv, WorkTypes
<1>3. UNCHANGED toVM /\ UNCHANGED vmpc
  BY DEF SlaveEnd, masterVars
<1>4. UNCHANGED <<toSim, socket_messages, current_node, sim_instr_counter, sim_instr_limit,
                  tmp_work, delay_queue>>
  BY DEF SlaveEnd, masterVars
<1> QED BY <1>1, <1>2, <1>3, <1>4, FlushQuiet

LEMMA SlaveGetWorkQuiet ==
  ASSUME IInv, NEW n \in Ids, SlaveGetWork(n), UNCHANGED simVars PROVE VMQuiet
<1>1. KeepsTimes
  <2>1. PICK x : node' = [node EXCEPT ![n] = [node[n] EXCEPT !.pending = <<>>,
                                                             !.delay_queue = x]]
    BY Zenon DEF SlaveGetWork
  <2> DEFINE new == [node[n] EXCEPT !.pending = <<>>, !.delay_queue = x]
  <2>2. n \in DOMAIN node => SameTime(node[n], new)
    <3>1. n \in DOMAIN node => HasTime(node[n])
      BY DEF IInv, NodeTypes, HasTime
    <3> QED BY <3>1, Zenon DEF SameTime, HasTime
  <2>3. node' = [node EXCEPT ![n] = new]
    BY <2>1
  <2> HIDE DEF new
  <2> QED BY <2>2, <2>3, ReplaceKeeps DEF IInv
<1>2. now' \in Nat
  BY DEF SlaveGetWork, IInv, WorkTypes
<1>3. UNCHANGED toVM /\ UNCHANGED vmpc
  BY DEF SlaveGetWork, masterVars
<1>4. UNCHANGED <<toSim, socket_messages, current_node, sim_instr_counter, sim_instr_limit,
                  tmp_work, delay_queue>>
  BY DEF SlaveGetWork, masterVars
<1> QED BY <1>1, <1>2, <1>3, <1>4, FlushQuiet

\* What a program sends is for a node that there is.
LEMMA OutputTypes ==
  ASSUME NEW known, NEW n \in Ids, NEW out \in ProgramOutputs(known, n), now \in Nat
  PROVE  /\ out.kind = "send" => out.to \in Ids
         /\ out.kind = "delay" => out.to \in Ids /\ out.due \in Nat
<1>1. Addressable(known, n) \subseteq Ids
  BY DEF Addressable
<1>2. \/ out = [kind |-> "none"] \/ out = [kind |-> "color"]
      \/ \E m \in Addressable(known, n) : out = [kind |-> "send", to |-> m]
      \/ \E m \in Addressable(known, n), d \in 1 .. 2 :
           out = [kind |-> "delay", to |-> m, due |-> now + d]
  BY DEF ProgramOutputs
<1>3. CASE out = [kind |-> "none"] \/ out = [kind |-> "color"]
  BY <1>3
<1>4. CASE \E m \in Addressable(known, n) : out = [kind |-> "send", to |-> m]
  BY <1>1, <1>4
<1>5. CASE \E m \in Addressable(known, n), d \in 1 .. 2 :
             out = [kind |-> "delay", to |-> m, due |-> now + d]
  BY <1>1, <1>5
<1> QED BY <1>2, <1>3, <1>4, <1>5

LEMMA SlaveRunQuiet ==
  ASSUME IInv, NEW n \in Ids, SlaveRun(n), UNCHANGED simVars PROVE VMQuiet
<1> DEFINE known == Processed(facts[n], gathered[n])
<1>1. PICK out \in ProgramOutputs(known, n) :
        /\ node' = CASE out.kind = "send" ->
                          [node EXCEPT ![out.to].pending =
                             Append(@, STuple(<<"sent", out.to, "run", out.to>>, 1))]
                     [] out.kind = "delay" ->
                          [node EXCEPT ![out.to].delay_queue = Append(@, [due |-> out.due])]
                     [] OTHER -> node
        /\ set_color(n, out)
  BY Zenon DEF SlaveRun
<1> HIDE DEF known
<1>2. KeepsTimes
  <2>1. CASE UNCHANGED node
    BY <2>1, SameNodesKeep DEF IInv
  <2>2. ASSUME NEW k, NEW x, node' = [node EXCEPT ![k].pending = x] PROVE KeepsTimes
    <3> DEFINE new == [node[k] EXCEPT !.pending = x]
    <3>1. k \in DOMAIN node => HasTime(node[k])
      BY DEF IInv, NodeTypes, HasTime
    <3>2. k \in DOMAIN node => SameTime(node[k], new)
      BY <3>1, Zenon DEF SameTime, HasTime
    <3>3. node' = [node EXCEPT ![k] = new]
      BY <2>2
    <3> HIDE DEF new
    <3> QED BY <3>2, <3>3, ReplaceKeeps DEF IInv
  <2>3. ASSUME NEW k, NEW x, node' = [node EXCEPT ![k].delay_queue = x] PROVE KeepsTimes
    <3> DEFINE new == [node[k] EXCEPT !.delay_queue = x]
    <3>1. k \in DOMAIN node => HasTime(node[k])
      BY DEF IInv, NodeTypes, HasTime
    <3>2. k \in DOMAIN node => SameTime(node[k], new)
      BY <3>1, Zenon DEF SameTime, HasTime
    <3>3. node' = [node EXCEPT ![k] = new]
      BY <2>3
    <3> HIDE DEF new
    <3> QED BY <3>2, <3>3, ReplaceKeeps DEF IInv
  <2>4. \/ UNCHANGED node
        \/ \E k, x : node' = [node EXCEPT ![k].pending = x]
        \/ \E k, x : node' = [node EXCEPT ![k].delay_queue = x]
    <3>1. CASE out.kind = "send"
      BY <1>1, <3>1, Zenon
    <3>2. CASE out.kind = "delay"
      <4>1. out.kind # "send"
        BY <3>2
      <4> QED BY <1>1, <3>2, <4>1, Zenon
    <3>3. CASE out.kind # "send" /\ out.kind # "delay"
      BY <1>1, <3>3, Zenon
    <3> QED BY <3>1, <3>2, <3>3
  <2> QED BY <2>1, <2>2, <2>3, <2>4
<1>3. /\ \E s \in Seq(LateSends \cup Colors) : toSim' = toSim \o s
      /\ socket_messages' \in Seq(Colors)
  BY <1>1, ColorWritten DEF IInv
<1>4. UNCHANGED <<toVM, vmpc, current_node, sim_instr_counter, sim_instr_limit, tmp_work,
                  delay_queue, now>>
  BY DEF SlaveRun, masterVars
<1>5. WorkTypes'
  BY <1>3, <1>4 DEF IInv, WorkTypes
<1>6. (Running' => Running) /\ (delay_queue' # <<>> => DOMAIN node = Ids)
  BY <1>4 DEF IInv, CreateInv, Running
<1> QED BY <1>2, <1>3, <1>4, <1>5, <1>6 DEF VMQuiet

Delays == [src : Ids, to : Ids, due : Nat, delayed : {TRUE}]

\* The delayed tuples that leave bear a natural number as their time.
LEMMA DelayedQuiet ==
  ASSUME IInv, check_delayed_queue, UNCHANGED simVars PROVE VMQuiet
<1> DEFINE Stamp(info) == Max({node[info.src].timestamp, node[info.to].timestamp + 1})
<1>1. PICK due \in Popped(delay_queue) :
        toSim' = toSim \o [i \in DOMAIN due |-> send_send_message(due[i], Stamp(due[i]))]
  BY Zenon DEF check_delayed_queue
<1>2. delay_queue \in Seq(Delays) /\ delay_queue # <<>> /\ DOMAIN node = Ids
  BY DEF IInv, WorkTypes, Delays, check_delayed_queue, Overdue, CreateInv
<1>3. DOMAIN due = 1 .. Len(delay_queue) /\ \A i \in DOMAIN due : due[i] \in Delays
  <2>1. PICK p \in [DOMAIN delay_queue -> DOMAIN delay_queue] :
          due = [i \in DOMAIN delay_queue |-> delay_queue[p[i]]]
    BY <1>1 DEF Popped, Bijection, Injection
  <2>2. DOMAIN delay_queue = 1 .. Len(delay_queue)
        /\ \A i \in DOMAIN delay_queue : delay_queue[i] \in Delays
    BY <1>2
  <2> QED BY <2>1, <2>2
<1>4. ASSUME NEW i \in DOMAIN due
      PROVE  send_send_message(due[i], Stamp(due[i])) \in LateSends
  <2>1. due[i].src \in Ids /\ due[i].to \in Ids /\ due[i].delayed
    BY <1>3 DEF Delays
  <2>2. node[due[i].src].timestamp \in Nat /\ node[due[i].to].timestamp \in Nat
    BY <1>2, <2>1 DEF IInv, NodeTypes
  <2>3. Stamp(due[i]) \in {node[due[i].src].timestamp, node[due[i].to].timestamp + 1}
    <3> DEFINE a == node[due[i].src].timestamp
               b == node[due[i].to].timestamp + 1
    <3>1. a \in Int /\ b \in Int
      BY <2>2
    <3>2. Max({a, b}) \in {a, b}
      <4> HIDE DEF a, b
      <4> QED BY <3>1, MaxPair
    <3> QED BY <3>2
  <2>4. Stamp(due[i]) \in Nat
    <3> HIDE DEF Stamp
    <3> QED BY <2>2, <2>3
  <2> HIDE DEF Stamp
  <2> QED BY <2>1, <2>4, SendType
<1> DEFINE s == [i \in DOMAIN due |-> send_send_message(due[i], Stamp(due[i]))]
<1>5. s \in Seq(LateSends \cup Colors) /\ toSim' = toSim \o s
  <2>1. DOMAIN s = 1 .. Len(delay_queue) /\ Len(delay_queue) \in Nat
    BY <1>2, <1>3
  <2>2. \A i \in DOMAIN due : s[i] \in LateSends \cup Colors
    BY <1>4
  <2>3. s = [i \in 1 .. Len(delay_queue) |-> s[i]]
    BY <1>3
  <2>4. toSim' = toSim \o s
    BY <1>1
  <2> HIDE DEF s
  <2> QED BY <1>3, <2>1, <2>2, <2>3, <2>4
<1>6. UNCHANGED <<toVM, node, vmpc, current_node, sim_instr_counter, sim_instr_limit, tmp_work,
                  socket_messages, now>> /\ delay_queue' = <<>>
  BY DEF check_delayed_queue
<1>7. WorkTypes'
  <2>1. <<>> \in Seq([src : Ids, to : Ids, due : Nat, delayed : {TRUE}])
    OBVIOUS
  <2> QED BY <1>6, <2>1 DEF IInv, WorkTypes
<1>8. KeepsTimes
  BY <1>6, SameNodesKeep DEF IInv
<1>9. Running' => Running
  BY <1>6 DEF Running
<1> HIDE DEF s
<1> QED BY <1>2, <1>5, <1>6, <1>7, <1>8, <1>9 DEF VMQuiet

Works == [src : Ids, to : Ids, ts : Nat, delayed : {FALSE}]

LEMMA NewWorkTypes ==
  ASSUME IInv, NEW n \in Ids, NEW known, NEW out \in ProgramOutputs(known, n), NEW ts \in Nat,
         new_work(n, out, ts), new_work_delay(n, out)
  PROVE  tmp_work' \in Seq(Works) /\ delay_queue' \in Seq(Delays)
<1>1. tmp_work \in Seq(Works) /\ delay_queue \in Seq(Delays) /\ now \in Nat
  BY DEF IInv, WorkTypes, Works, Delays
<1>2. /\ out.kind = "send" => out.to \in Ids
      /\ out.kind = "delay" => out.to \in Ids /\ out.due \in Nat
  BY <1>1, OutputTypes
<1>3. tmp_work' \in Seq(Works)
  <2> DEFINE w == [src |-> n, to |-> out.to, ts |-> ts, delayed |-> FALSE]
  <2>1. CASE out.kind = "send"
    <3>1. w \in Works
      BY <1>2, <2>1 DEF Works
    <3>2. tmp_work' = Append(tmp_work, w)
      BY <2>1 DEF new_work
    <3> HIDE DEF w
    <3> QED BY <1>1, <3>1, <3>2
  <2>2. CASE out.kind # "send"
    BY <1>1, <2>2 DEF new_work
  <2> QED BY <2>1, <2>2
<1>4. delay_queue' \in Seq(Delays)
  <2> DEFINE w == [src |-> n, to |-> out.to, due |-> out.due, delayed |-> TRUE]
  <2>1. CASE out.kind = "delay"
    <3>1. w \in Delays
      BY <1>2, <2>1 DEF Delays
    <3>2. delay_queue' = Append(delay_queue, w)
      BY <2>1 DEF new_work_delay
    <3> HIDE DEF w
    <3> QED BY <1>1, <3>1, <3>2
  <2>2. CASE out.kind # "delay"
    BY <1>1, <2>2 DEF new_work_delay
  <2> QED BY <2>1, <2>2
<1> QED BY <1>3, <1>4

\* A run keeps the node's timestamp, which is set when the run is over.
LEMMA RunQuiet == ASSUME IInv, RunCurrentNode, UNCHANGED simVars PROVE VMQuiet
<1> DEFINE n == current_node
           top == Max({sim_instr_counter, sim_instr_limit + Overshoot})
<1>1. PICK c \in sim_instr_counter .. top :
        \E x, known :
        \E out \in ProgramOutputs(known, n), ts \in sim_instr_counter .. c :
          /\ node' = [node EXCEPT ![n] =
                        [WithoutDue(node[n], sim_instr_limit) EXCEPT !.pending = x]]
          /\ sim_instr_counter' = IF c < sim_instr_limit THEN c + 1 ELSE c
          /\ new_work(n, out, ts) /\ new_work_delay(n, out) /\ set_color(n, out)
  <2>1. \A known : [kind |-> "none"] \in ProgramOutputs(known, n)
    BY DEF ProgramOutputs
  <2>2. \A k, known, out :
          out \in (IF k = 0 THEN {[kind |-> "none"]} ELSE ProgramOutputs(known, n))
            => out \in ProgramOutputs(known, n)
    BY <2>1
  <2> QED BY <2>2, ZenonT(90) DEF RunCurrentNode
<1>2. PICK x, known :
        \E out \in ProgramOutputs(known, n), ts \in sim_instr_counter .. c :
          /\ node' = [node EXCEPT ![n] =
                        [WithoutDue(node[n], sim_instr_limit) EXCEPT !.pending = x]]
          /\ sim_instr_counter' = IF c < sim_instr_limit THEN c + 1 ELSE c
          /\ new_work(n, out, ts) /\ new_work_delay(n, out) /\ set_color(n, out)
  BY <1>1
<1>3. PICK out \in ProgramOutputs(known, n), ts \in sim_instr_counter .. c :
        /\ node' = [node EXCEPT ![n] =
                      [WithoutDue(node[n], sim_instr_limit) EXCEPT !.pending = x]]
        /\ sim_instr_counter' = IF c < sim_instr_limit THEN c + 1 ELSE c
        /\ new_work(n, out, ts) /\ new_work_delay(n, out) /\ set_color(n, out)
  BY <1>2
<1>4. vmpc = "run" /\ vmpc' = "sent" /\ Running
      /\ UNCHANGED <<toVM, current_node, sim_instr_limit, now>>
  BY DEF RunCurrentNode, Running
<1>5. n \in Ids /\ DOMAIN node = Ids
  BY <1>4 DEF IInv, CreateInv
<1>6. c \in Nat /\ ts \in Nat /\ sim_instr_counter' \in Nat
  <2>1. sim_instr_counter \in Nat /\ sim_instr_limit \in Nat /\ Overshoot \in Nat
    BY SimBounds DEF IInv, WorkTypes
  <2>2. top \in Int
    <3> DEFINE a == sim_instr_counter
               b == sim_instr_limit + Overshoot
    <3>1. a \in Int /\ b \in Int
      BY <2>1
    <3>2. Max({a, b}) \in {a, b}
      <4> HIDE DEF a, b
      <4> QED BY <3>1, MaxPair
    <3> QED BY <3>1, <3>2
  <2> HIDE DEF top
  <2>3. c \in Nat
    BY <2>1, <2>2
  <2>4. ts \in Nat
    BY <2>1, <2>3
  <2> QED BY <1>3, <2>1, <2>3, <2>4
<1>7. KeepsTimes
  <2> DEFINE less == WithoutDue(node[n], sim_instr_limit)
             new == [less EXCEPT !.pending = x]
  <2>1. HasTime(node[n])
    BY <1>5 DEF IInv, NodeTypes, HasTime
  <2>2. SameTime(node[n], less)
    BY <2>1, WithoutDueKeeps
  <2> HIDE DEF less
  <2>3. SameTime(less, new)
    BY <2>2, Zenon DEF SameTime, HasTime
  <2>4. SameTime(node[n], new)
    BY <2>2, <2>3 DEF SameTime
  <2>5. node' = [node EXCEPT ![n] = new]
    BY <1>3 DEF less
  <2> HIDE DEF new
  <2> QED BY <2>4, <2>5, ReplaceKeeps DEF IInv
<1>8. /\ \E s \in Seq(LateSends \cup Colors) : toSim' = toSim \o s
      /\ socket_messages' \in Seq(Colors)
  BY <1>3, <1>5, ColorWritten DEF IInv
<1>9. tmp_work' \in Seq(Works) /\ delay_queue' \in Seq(Delays)
  <2> HIDE DEF n
  <2> QED BY <1>3, <1>5, <1>6, NewWorkTypes
<1>10. WorkTypes'
  BY <1>4, <1>6, <1>8, <1>9 DEF IInv, WorkTypes, Works, Delays
<1> QED BY <1>4, <1>5, <1>7, <1>8, <1>10 DEF VMQuiet

(***************************************************************************)
(* The steps that make up a run.                                           *)
(***************************************************************************)

\* The nodes are created: their time is zero.
LEMMA CreateKeeps == IInv /\ handle_create_n_nodes /\ UNCHANGED simVars => IInv'
<1> SUFFICES ASSUME IInv, handle_create_n_nodes, UNCHANGED simVars PROVE IInv'
  OBVIOUS
<1> USE DEF IInv
<1>0. UNCHANGED <<deterministic, sim, pqueue, simpc, writes>>
  BY DEF simVars
<1>1. /\ toVM \in Seq(VMMessages) /\ toVM # <<>> /\ toVM' = Tail(toVM) /\ vmpc = "loop"
      /\ UNCHANGED <<toSim, vmpc, sim_instr_counter, sim_instr_limit, tmp_work, delay_queue,
                     socket_messages, now, current_node>>
  BY DEF ChannelTypes, handle_create_n_nodes, ReadMessage, Handled, masterVars
<1>2. /\ toVM' \in Seq(VMMessages)
      /\ \A i \in DOMAIN toVM' : i \in Nat /\ i + 1 \in DOMAIN toVM /\ toVM'[i] = toVM[i + 1]
  BY <1>1, TailShape
<1>3. DOMAIN node' = Ids /\ \A n \in Ids : HasTime(node'[n]) /\ node'[n].timestamp = 0
  <2>1. PICK ascending \in BOOLEAN :
          \E start, new :
            /\ start = add_received_tuple(NewNode(ascending), 0, <<STuple(<<"init">>, 1)>>)
            /\ \/ new = start
               \/ \E ts, es : new = add_received_tuple([start EXCEPT !.instantiated = TRUE],
                                                       ts, es)
            /\ node' = [n \in Ids |-> new]
    BY ZenonT(90) DEF handle_create_n_nodes
  <2>2. PICK start, new :
          /\ start = add_received_tuple(NewNode(ascending), 0, <<STuple(<<"init">>, 1)>>)
          /\ \/ new = start
             \/ \E ts, es : new = add_received_tuple([start EXCEPT !.instantiated = TRUE], ts, es)
          /\ node' = [n \in Ids |-> new]
    BY <2>1
  <2>3. HasTime(NewNode(ascending)) /\ NewNode(ascending).timestamp = 0
    BY DEF NewNode, HasTime
  <2>4. HasTime(start) /\ start.timestamp = 0
    BY <2>2, <2>3, ReceivedKeeps DEF SameTime
  <2> DEFINE begun == [start EXCEPT !.instantiated = TRUE]
  <2>5. HasTime(begun) /\ begun.timestamp = 0
    BY <2>4, Zenon DEF HasTime
  <2>6. \/ new = start
        \/ \E ts, es : new = add_received_tuple(begun, ts, es)
    BY <2>2
  <2> HIDE DEF begun
  <2>7. HasTime(new) /\ new.timestamp = 0
    BY <2>4, <2>5, <2>6, ReceivedKeeps DEF SameTime
  <2> QED BY <2>2, <2>7
<1>4. ChannelTypes' /\ WorkTypes' /\ SimTypes' /\ NodeTypes'
  <2>1. ChannelTypes' /\ WorkTypes' /\ SimTypes'
    BY <1>0, <1>1, <1>2 DEF ChannelTypes, WorkTypes, SimTypes
  <2>2. NodeTypes'
    BY <1>3 DEF NodeTypes, HasTime
  <2> QED BY <2>1, <2>2
<1>5. RunInv'
  <2>1. /\ Single("RUN_NODE", toVM) => Single("RUN_NODE", toVM')
        /\ Absent("RUN_NODE", toVM) => Absent("RUN_NODE", toVM')
    BY <1>1, AbsentTail
  <2> QED BY <1>0, <1>1, <2>1 DEF RunInv, Running
<1>6. simpc # "start"
  BY <1>1 DEF CreateInv
<1>7. CreateInv'
  <2>1. DOMAIN node' # {}
    BY <1>3, IdsAssumption
  <2> QED BY <1>0, <1>1, <1>3, <1>6, <2>1 DEF CreateInv, Running
<1>8. TimeInv'
  <2>1. ASSUME NEW n \in DOMAIN node' PROVE node'[n].timestamp <= sim'[n].next
    <3>1. n \in Ids /\ node'[n].timestamp = 0
      BY <1>3
    <3>2. sim'[n].next \in Nat
      BY <1>0, <1>6, <3>1 DEF SimTypes, Blocks
    <3> QED BY <3>1, <3>2
  <2>2. ASSUME NEW i \in DOMAIN toVM', toVM'[i].type = "RUN_NODE", NEW n \in DOMAIN node'
        PROVE  node'[n].timestamp <= toVM'[i].ts
    <3>1. toVM'[i] \in VMMessages
      BY <1>2
    <3>2. toVM'[i] \in Orders
      BY <2>2, <3>1 DEF VMMessages, Receipts, Notices, Touches, Additions, Removals
    <3>3. toVM'[i].ts \in Nat
      BY <3>2 DEF Orders
    <3> QED BY <1>3, <3>3
  <2>3. RunsForward'
    BY <1>1 DEF RunsForward
  <2> QED BY <2>1, <2>2, <2>3 DEF TimeInv
<1> QED BY <1>4, <1>5, <1>7, <1>8

\* Orders are what their type says.
LEMMA OrderType ==
  ASSUME NEW m \in VMMessages, m.type = "RUN_NODE" PROVE m \in Orders
BY DEF VMMessages, Receipts, Notices, Touches, Additions, Removals

\* The VM reads the order: the node has not passed the limit.
LEMMA OrderRead == IInv /\ handle_run_node /\ UNCHANGED simVars => IInv'
<1> SUFFICES ASSUME IInv, handle_run_node, UNCHANGED simVars PROVE IInv'
  OBVIOUS
<1> USE DEF IInv
<1> DEFINE m == toVM[1]
<1>0. UNCHANGED <<deterministic, sim, pqueue, simpc, writes>>
  BY DEF simVars
<1>1. toVM \in Seq(VMMessages) /\ toVM # <<>> /\ toVM' = Tail(toVM) /\ vmpc = "loop"
  BY DEF ChannelTypes, handle_run_node, ReadMessage
<1>2. /\ toVM' \in Seq(VMMessages) /\ Head0 = m /\ 1 \in DOMAIN toVM /\ m \in VMMessages
      /\ \A i \in DOMAIN toVM' : i \in Nat /\ i + 1 \in DOMAIN toVM /\ toVM'[i] = toVM[i + 1]
  BY <1>1, TailShape DEF Head0
<1>3. /\ m.type = "RUN_NODE"
      /\ current_node' = m.node /\ sim_instr_limit' = m.ts
      /\ sim_instr_counter' = node[m.node].timestamp /\ vmpc' = "run"
      /\ UNCHANGED <<toSim, node, tmp_work, delay_queue, socket_messages, now>>
  BY <1>2 DEF handle_run_node, ReadMessage
<1>4. m.node \in Ids /\ m.ts \in Nat
  BY <1>2, <1>3, OrderType DEF Orders
<1>5. DOMAIN node = Ids
  <2>1. ASSUME DOMAIN node = {} PROVE FALSE
    <3>1. simpc # "start"
      BY <1>1 DEF CreateInv
    <3>2. \E j \in DOMAIN toVM : j < 1
      BY <1>2, <1>3, <2>1, <3>1 DEF CreateInv
    <3> QED BY <1>1, <3>2
  <2> QED BY <2>1 DEF NodeTypes
<1>6. node[m.node].timestamp \in Nat /\ node[m.node].timestamp <= m.ts
  BY <1>2, <1>3, <1>4, <1>5 DEF NodeTypes, TimeInv
<1>7. Absent("RUN_NODE", toVM') /\ Absent("NODE_RUN", toSim) /\ simpc \in {"run", "crash"}
  <2>1. Single("RUN_NODE", toVM) /\ ~Absent("RUN_NODE", toVM)
    BY <1>2, <1>3 DEF RunInv, Absent
  <2>2. Absent("RUN_NODE", Tail(toVM))
    BY <1>1, <1>3, <2>1, AbsentTail
  <2> QED BY <1>1, <2>1, <2>2 DEF RunInv
<1>8. ChannelTypes' /\ WorkTypes' /\ SimTypes' /\ NodeTypes'
  <2>1. ChannelTypes' /\ SimTypes' /\ NodeTypes'
    BY <1>0, <1>2, <1>3 DEF ChannelTypes, SimTypes, NodeTypes
  <2>2. WorkTypes'
    BY <1>3, <1>4, <1>6 DEF WorkTypes
  <2> QED BY <2>1, <2>2
<1>9. RunInv'
  BY <1>0, <1>3, <1>7 DEF RunInv, Single, Absent
<1>10. CreateInv'
  <2>1. Ids # {}
    BY IdsAssumption
  <2> QED BY <1>0, <1>1, <1>3, <1>4, <1>5, <2>1 DEF CreateInv, Running
<1>11. TimeInv'
  <2>1. \A n \in DOMAIN node' : node'[n].timestamp <= sim'[n].next \/ Reported(n)'
    BY <1>0, <1>3 DEF TimeInv, Reported
  <2>2. \A i \in DOMAIN toVM' : toVM'[i].type # "RUN_NODE"
    BY <1>7 DEF Absent
  <2>3. RunsForward'
    BY <1>3, <1>6 DEF RunsForward
  <2> QED BY <2>1, <2>2, <2>3 DEF TimeInv
<1> QED BY <1>8, <1>9, <1>10, <1>11

\* The run is over: its report follows what it sent.
LEMMA ReportWritten == IInv /\ handle_deterministic_computation /\ UNCHANGED simVars => IInv'
<1> SUFFICES ASSUME IInv, handle_deterministic_computation, UNCHANGED simVars PROVE IInv'
  OBVIOUS
<1> USE DEF IInv
<1> DEFINE n == current_node
           S == Sends \cup Colors \cup Reports
           touched == {tmp_work[i].to : i \in DOMAIN tmp_work}
                        \cup IF node[n].pending = <<>> THEN {} ELSE {n}
           ms == [i \in DOMAIN tmp_work |-> send_send_message(tmp_work[i], tmp_work[i].ts)]
           report == [type |-> "NODE_RUN", ts |-> sim_instr_counter, node |-> n,
                      nodes |-> touched]
<1>0. UNCHANGED <<deterministic, sim, pqueue, simpc, writes>>
  BY DEF simVars
<1>1. /\ vmpc = "sent" /\ vmpc' = "loop"
      /\ tmp_work' = <<>> /\ sim_instr_counter' = 0 /\ sim_instr_limit' = 0
      /\ UNCHANGED <<toVM, delay_queue, socket_messages, now>>
  BY DEF handle_deterministic_computation
<1>2. /\ node' = [node EXCEPT ![n].timestamp = sim_instr_counter]
      /\ toSim' = toSim \o (ms \o <<report>>)
  BY Zenon DEF handle_deterministic_computation, WrittenAfterRun
<1>3. DOMAIN node = Ids /\ n \in Ids
  BY <1>1 DEF CreateInv, Running
<1>4. Absent("NODE_RUN", toSim) /\ Absent("RUN_NODE", toVM) /\ simpc \in {"run", "crash"}
  BY <1>1 DEF RunInv, Running
<1>5. tmp_work \in Seq(Works) /\ sim_instr_counter \in Nat
  BY DEF WorkTypes, Works
<1>6. ms \in Seq(Sends) /\ ms \in Seq(S)
  <2>1. DOMAIN tmp_work = 1 .. Len(tmp_work) /\ Len(tmp_work) \in Nat
        /\ \A i \in DOMAIN tmp_work : tmp_work[i] \in Works
    BY <1>5
  <2>2. ASSUME NEW i \in DOMAIN tmp_work
        PROVE  send_send_message(tmp_work[i], tmp_work[i].ts) \in Sends
    <3>1. tmp_work[i].src \in Ids /\ tmp_work[i].to \in Ids /\ tmp_work[i].ts \in Nat
      BY <2>1 DEF Works
    <3> QED BY <3>1, SendType
  <2>3. \A i \in 1 .. Len(tmp_work) : ms[i] \in Sends
    BY <2>1, <2>2
  <2>4. ms = [i \in 1 .. Len(tmp_work) |-> ms[i]]
    BY <2>1
  <2>5. ms \in Seq(Sends)
    <3> HIDE DEF ms
    <3> QED BY <2>1, <2>3, <2>4
  <2> HIDE DEF ms
  <2> QED BY <2>5
<1>7. report \in Reports /\ report \in S
  <2>1. touched \subseteq Ids
    <3>1. ASSUME NEW i \in DOMAIN tmp_work PROVE tmp_work[i].to \in Ids
      <4>1. tmp_work[i] \in Works
        BY <1>5
      <4> QED BY <4>1 DEF Works
    <3> QED BY <1>3, <3>1
  <2> HIDE DEF touched
  <2>2. report \in Reports
    BY <1>3, <1>5, <2>1 DEF Reports
  <2> HIDE DEF report
  <2> QED BY <2>2
<1>8. toSim \in Seq(S)
  BY DEF ChannelTypes
<1>9. report.type = "NODE_RUN" /\ report.node = n /\ report.ts = sim_instr_counter
  OBVIOUS
<1>10. Absent("NODE_RUN", ms)
  <2> HIDE DEF ms
  <2>1. \A i \in DOMAIN ms : ms[i] \in Sends
    BY <1>6
  <2> QED BY <2>1 DEF Absent, Sends
<1> DEFINE before == toSim \o ms
<1>11. before \in Seq(S) /\ Absent("NODE_RUN", before) /\ toSim' = Append(before, report)
  <2> HIDE DEF S, ms, report
  <2>1. before \in Seq(S)
    BY <1>6, <1>8
  <2>2. Absent("NODE_RUN", before)
    BY <1>4, <1>6, <1>8, <1>10, AbsentConcat
  <2>3. toSim' = Append(before, report)
    BY <1>2, <1>6, <1>7, <1>8
  <2> QED BY <2>1, <2>2, <2>3
<1> HIDE DEF S, ms, report, before
<1>12. /\ toSim' \in Seq(S) /\ Single("NODE_RUN", toSim')
       /\ \E i \in DOMAIN toSim' : toSim'[i] = report
  <2>1. Single("NODE_RUN", Append(before, report))
    BY <1>7, <1>11, AbsentAppend
  <2>2. /\ Append(before, report) \in Seq(S)
        /\ Len(before) + 1 \in DOMAIN Append(before, report)
        /\ Append(before, report)[Len(before) + 1] = report
    BY <1>7, <1>11, AppendMember
  <2> QED BY <1>11, <2>1, <2>2
<1>13. /\ DOMAIN node' = Ids
       /\ \A k \in Ids : HasTime(node'[k])
       /\ \A k \in Ids : k # n => node'[k] = node[k]
       /\ node'[n].timestamp = sim_instr_counter
  <2> DEFINE new == [node[n] EXCEPT !.timestamp = sim_instr_counter]
  <2>1. HasTime(node[n])
    BY <1>3 DEF NodeTypes, HasTime
  <2>2. HasTime(new) /\ new.timestamp = sim_instr_counter
    BY <2>1, Zenon DEF HasTime
  <2>3. node' = [node EXCEPT ![n] = new]
    BY <1>2
  <2> HIDE DEF new
  <2>4. \A k \in Ids : HasTime(node[k])
    BY <1>3 DEF NodeTypes, HasTime
  <2> QED BY <1>3, <2>2, <2>3, <2>4
<1>14. ChannelTypes' /\ WorkTypes' /\ SimTypes' /\ NodeTypes'
  <2>1. ChannelTypes' /\ SimTypes'
    BY <1>0, <1>1, <1>12 DEF ChannelTypes, SimTypes, S
  <2>2. WorkTypes'
    <3>1. <<>> \in Seq(Works)
      OBVIOUS
    <3> QED BY <1>1, <3>1 DEF WorkTypes, Works
  <2>3. NodeTypes'
    BY <1>3, <1>5, <1>13 DEF NodeTypes, HasTime
  <2> QED BY <2>1, <2>2, <2>3
<1>15. RunInv'
  <2>1. ~Running'
    BY <1>1 DEF Running
  <2> QED BY <1>0, <1>1, <1>4, <1>12, <2>1 DEF RunInv
<1>16. CreateInv'
  <2>1. Ids # {} /\ ~Running'
    BY <1>1, IdsAssumption DEF Running
  <2> QED BY <1>0, <1>1, <1>3, <1>4, <1>13, <2>1 DEF CreateInv
<1>17. TimeInv'
  <2>1. ASSUME NEW k \in DOMAIN node'
        PROVE  node'[k].timestamp <= sim'[k].next \/ Reported(k)'
    <3>1. CASE k = n
      BY <1>9, <1>12, <1>13, <3>1 DEF Reported
    <3>2. CASE k # n
      <4>1. k \in DOMAIN node /\ node'[k] = node[k]
        BY <1>3, <1>13, <3>2
      <4>2. ~Reported(k)
        BY <1>4 DEF Reported, Absent
      <4> QED BY <1>0, <4>1, <4>2 DEF TimeInv
    <3> QED BY <3>1, <3>2
  <2>2. \A i \in DOMAIN toVM' : toVM'[i].type # "RUN_NODE"
    BY <1>1, <1>4 DEF Absent
  <2>3. RunsForward'
    BY <1>1 DEF RunsForward
  <2> QED BY <2>1, <2>2, <2>3 DEF TimeInv
<1> QED BY <1>14, <1>15, <1>16, <1>17

(***************************************************************************)
(* The simulator.                                                          *)
(***************************************************************************)
LEMMA VMFrame == UNCHANGED vmVars => UNCHANGED timeVars
BY DEF vmVars, masterVars, timeVars

\* The simulator creates the nodes, before anything else.
LEMMA SimCreates == IInv /\ write_create_n_nodes /\ UNCHANGED vmVars => IInv'
<1> SUFFICES ASSUME IInv, write_create_n_nodes, UNCHANGED vmVars PROVE IInv'
  OBVIOUS
<1> USE DEF IInv
<1>0. UNCHANGED <<node, vmpc, current_node, sim_instr_counter, sim_instr_limit,
                  socket_messages, tmp_work, delay_queue, now>>
  BY VMFrame DEF timeVars
<1>1. simpc = "start" /\ simpc' = "loop" /\ UNCHANGED toSim
  BY DEF write_create_n_nodes
<1>2. DOMAIN node = {} /\ toVM = <<>> /\ ~Running /\ Absent("NODE_RUN", toSim)
  BY <1>1 DEF CreateInv, RunInv
<1>3. toVM' \in Seq(Notices) /\ \E j \in DOMAIN toVM' : toVM'[j].type = "CREATE_N_NODES"
  <2> DEFINE a == [type |-> "USE_THREADS", ts |-> 0]
             b == [type |-> "CREATE_N_NODES", ts |-> 0]
  <2>1. a \in Notices /\ b \in Notices
    BY DEF Notices
  <2>0. b.type = "CREATE_N_NODES"
    OBVIOUS
  <2>2. toVM' = <<>> \o (IF deterministic THEN <<>> ELSE <<a>>) \o <<b>>
    BY <1>2 DEF write_create_n_nodes
  <2> HIDE DEF a, b
  <2>3. CASE deterministic
    <3>1. toVM' = <<>> \o <<>> \o <<b>>
      BY <2>2, <2>3
    <3>2. toVM' \in Seq(Notices) /\ 1 \in DOMAIN toVM' /\ toVM'[1] = b
      BY <2>1, <3>1
    <3> QED BY <2>0, <3>2
  <2>4. CASE ~deterministic
    <3>1. toVM' = <<>> \o <<a>> \o <<b>>
      BY <2>2, <2>4
    <3>2. toVM' \in Seq(Notices) /\ 2 \in DOMAIN toVM' /\ toVM'[2] = b
      BY <2>1, <3>1
    <3> QED BY <2>0, <3>2
  <2> QED BY <2>3, <2>4
<1>4. Absent("RUN_NODE", toVM')
  <2>1. \A i \in DOMAIN toVM' : toVM'[i] \in Notices
    BY <1>3
  <2> QED BY <2>1 DEF Absent, Notices
<1>5. ChannelTypes' /\ WorkTypes' /\ NodeTypes'
  <2>1. toVM' \in Seq(VMMessages)
    <3>1. Notices \subseteq VMMessages
      BY DEF VMMessages
    <3> QED BY <1>3, <3>1
  <2> QED BY <1>0, <1>1, <2>1 DEF ChannelTypes, WorkTypes, NodeTypes
<1>6. SimTypes'
  <2>1. sim' \in [Ids -> Blocks]
    <3> DEFINE b == [active |-> TRUE, ts |-> 0, next |-> 1,
                     face |-> [f \in Faces |-> NO_NEIGHBOR]]
    <3>1. b \in Blocks
      BY DEF Blocks
    <3>2. sim' = [n \in Ids |-> b]
      BY DEF write_create_n_nodes
    <3> HIDE DEF b
    <3> QED BY <3>1, <3>2
  <2>2. pqueue' \in Seq(Ids)
    <3>1. Cardinality(Ids) \in Nat /\ Ids = 0 .. Cardinality(Ids) - 1
      BY IdsAssumption, FS_CardinalityType
    <3>2. PICK c \in Nat : c = Cardinality(Ids)
      BY <3>1
    <3>3. pqueue' = [i \in 1 .. c |-> i - 1]
      BY <3>2 DEF write_create_n_nodes
    <3>4. \A i \in 1 .. c : i - 1 \in Ids
      BY <3>1, <3>2
    <3> QED BY <3>3, <3>4
  <2> QED BY <2>1, <2>2 DEF SimTypes
<1>7. RunInv'
  <2>1. ~Running'
    BY <1>0, <1>2 DEF Running
  <2> QED BY <1>1, <1>2, <1>4, <2>1 DEF RunInv, Absent, Single
<1>8. CreateInv'
  <2>1. ~Running'
    BY <1>0, <1>2 DEF Running
  <2> QED BY <1>0, <1>1, <1>2, <1>3, <1>4, <2>1 DEF CreateInv, Absent
<1>9. TimeInv'
  <2>1. vmpc' # "run"
    BY <1>0, <1>2 DEF Running
  <2> QED BY <1>0, <1>2, <1>4, <2>1 DEF TimeInv, Absent, RunsForward
<1> QED BY <1>5, <1>6, <1>7, <1>8, <1>9

\* There is a node to run next.
LEMMA NextNode ==
  ASSUME SimTypes, simpc # "start", pqueue # <<>>
  PROVE  get_next_node \in DOMAIN pqueue
<1> DEFINE Time(i) == sim[pqueue[i]].ts
           D == DOMAIN pqueue
           T == {Time(i) : i \in D}
<1>1. D \subseteq Nat /\ D # {} /\ \A i \in D : Time(i) \in Nat
  <2>1. DOMAIN pqueue = 1 .. Len(pqueue) /\ Len(pqueue) \in Nat /\ Len(pqueue) # 0
        /\ \A i \in DOMAIN pqueue : pqueue[i] \in Ids
    BY DEF SimTypes
  <2>2. sim \in [Ids -> Blocks]
    BY DEF SimTypes
  <2>3. \A n \in Ids : sim[n].ts \in Nat
    BY <2>2 DEF Blocks
  <2>4. D \subseteq Nat /\ D # {}
    BY <2>1
  <2>5. ASSUME NEW i \in D PROVE Time(i) \in Nat
    BY <2>1, <2>3
  <2> QED BY <2>4, <2>5
<1>2. PICK t \in T : \A u \in T : t <= u
  <2>1. T \subseteq Nat /\ T # {}
    BY <1>1
  <2> HIDE DEF T
  <2> QED BY <2>1, LeastElement
<1> DEFINE F == {i \in D : Time(i) = t}
<1>3. PICK i \in F : \A j \in F : i <= j
  <2>1. F \subseteq Nat /\ F # {}
    BY <1>1, <1>2
  <2> HIDE DEF F
  <2> QED BY <2>1, LeastElement
<1>4. i \in D /\ Time(i) = t /\ \A j \in D : Time(i) <= Time(j)
  BY <1>2, <1>3
<1>5. ASSUME NEW j \in 1 .. i - 1 PROVE Time(i) < Time(j)
  <2>1. j \in D /\ j < i
    BY <1>1, <1>4 DEF SimTypes
  <2>2. j \notin F
    BY <1>1, <1>3, <2>1
  <2>3. Time(j) # t
    BY <2>1, <2>2
  <2>4. PICK a \in Nat, b \in Nat : a = Time(i) /\ b = Time(j)
    BY <1>1, <1>4, <2>1
  <2>5. a <= b /\ a # b
    BY <1>4, <2>1, <2>3, <2>4
  <2> QED BY <2>4, <2>5
<1>6. \E k \in DOMAIN pqueue :
        /\ \A j \in DOMAIN pqueue : sim[pqueue[k]].ts <= sim[pqueue[j]].ts
        /\ \A j \in 1 .. k - 1 : sim[pqueue[k]].ts < sim[pqueue[j]].ts
  BY <1>4, <1>5
<1> QED BY <1>6 DEF get_next_node

\* The simulator orders a run.  There is none, so no report is under way and the
\* record of the node is up to date.
LEMMA OrderWritten == IInv /\ write_run_node /\ UNCHANGED vmVars => IInv'
<1> SUFFICES ASSUME IInv, write_run_node, UNCHANGED vmVars PROVE IInv'
  OBVIOUS
<1> USE DEF IInv
<1>0. UNCHANGED <<node, vmpc, current_node, sim_instr_counter, sim_instr_limit,
                  socket_messages, tmp_work, delay_queue, now>>
  BY VMFrame DEF timeVars
<1>1. simpc = "loop" /\ simpc' = "run" /\ UNCHANGED toSim /\ pqueue # <<>>
  BY DEF write_run_node
<1>2. Absent("RUN_NODE", toVM) /\ Absent("NODE_RUN", toSim) /\ ~Running
  BY <1>1 DEF RunInv
<1>3. sim \in [Ids -> Blocks] /\ pqueue \in Seq(Ids) /\ toVM \in Seq(VMMessages)
  BY <1>1 DEF SimTypes, ChannelTypes
<1>4. PICK pos \in DOMAIN pqueue : pos = get_next_node
  BY <1>1, NextNode
<1>5. PICK n \in Ids : n = pqueue[pos]
  BY <1>3
<1> DEFINE m == [type |-> "RUN_NODE", ts |-> sim[n].next, node |-> n]
<1>6. /\ pqueue' = [i \in 1 .. Len(pqueue) - 1 |-> pqueue[IF i < pos THEN i ELSE i + 1]]
      /\ toVM' = Append(toVM, m)
      /\ sim' = [sim EXCEPT ![n].active = FALSE, ![n].ts = sim[n].next]
  BY <1>4, <1>5 DEF write_run_node
<1>7. sim[n] \in Blocks /\ sim[n].next \in Nat
  BY <1>3 DEF Blocks
<1>8. m \in Orders /\ m \in VMMessages /\ m.type = "RUN_NODE" /\ m.node = n
      /\ m.ts = sim[n].next
  BY <1>7 DEF Orders, VMMessages
<1> HIDE DEF m
<1>9. /\ toVM' \in Seq(VMMessages)
      /\ \A i \in DOMAIN toVM' :
           \/ i \in DOMAIN toVM /\ toVM'[i] = toVM[i]
           \/ i = Len(toVM) + 1 /\ toVM'[i] = m
  BY <1>3, <1>6, <1>8, AppendMember
<1>10. SimTypes' /\ \A k \in Ids : sim'[k].next = sim[k].next
  <2>1. pqueue' \in Seq(Ids)
    <3>1. Len(pqueue) \in Nat /\ Len(pqueue) > 0 /\ DOMAIN pqueue = 1 .. Len(pqueue)
          /\ pos \in 1 .. Len(pqueue)
      BY <1>1, <1>3
    <3>2. \A i \in 1 .. Len(pqueue) - 1 : pqueue[IF i < pos THEN i ELSE i + 1] \in Ids
      BY <1>3, <3>1
    <3> DEFINE l == Len(pqueue) - 1
    <3>3. l \in Nat
      BY <3>1
    <3>4. pqueue' = [i \in 1 .. l |-> pqueue[IF i < pos THEN i ELSE i + 1]]
      BY <1>6
    <3>5. \A i \in 1 .. l : pqueue[IF i < pos THEN i ELSE i + 1] \in Ids
      BY <3>2
    <3> HIDE DEF l
    <3> QED BY <3>3, <3>4, <3>5
  <2>2. sim' \in [Ids -> Blocks] /\ \A k \in Ids : sim'[k].next = sim[k].next
    <3> DEFINE b == [sim[n] EXCEPT !.active = FALSE, !.ts = sim[n].next]
    <3>1. b \in Blocks /\ b.next = sim[n].next
      BY <1>7 DEF Blocks
    <3>2. sim' = [sim EXCEPT ![n] = b]
      BY <1>6
    <3> HIDE DEF b
    <3> QED BY <1>3, <3>1, <3>2
  <2> QED BY <2>1, <2>2 DEF SimTypes
<1>11. ChannelTypes' /\ WorkTypes' /\ NodeTypes'
  BY <1>0, <1>1, <1>9 DEF ChannelTypes, WorkTypes, NodeTypes
<1>12. RunInv'
  <2>1. Single("RUN_NODE", toVM')
    BY <1>2, <1>3, <1>6, <1>8, AbsentAppend
  <2>2. ~Running' /\ Absent("NODE_RUN", toSim') /\ Single("NODE_RUN", toSim')
    BY <1>0, <1>1, <1>2 DEF Running, RunInv
  <2> QED BY <1>1, <2>1, <2>2 DEF RunInv
<1>13. CreateInv'
  <2>1. ~Running' /\ simpc' # "start"
    BY <1>0, <1>1, <1>2 DEF Running
  <2>2. ASSUME DOMAIN node' = {}
        PROVE  \E j \in DOMAIN toVM' :
                 /\ toVM'[j].type = "CREATE_N_NODES"
                 /\ \A i \in DOMAIN toVM' : toVM'[i].type = "RUN_NODE" => j < i
    <3>1. PICK j \in DOMAIN toVM : toVM[j].type = "CREATE_N_NODES"
      BY <1>0, <1>1, <2>2 DEF CreateInv
    <3>2. j \in DOMAIN toVM' /\ toVM'[j] = toVM[j]
      BY <1>3, <1>6, <1>8, AppendMember
    <3>3. j < Len(toVM) + 1
      BY <1>3
    <3>4. \A i \in DOMAIN toVM' : toVM'[i].type = "RUN_NODE" => i = Len(toVM) + 1
      BY <1>2, <1>9 DEF Absent
    <3> QED BY <3>1, <3>2, <3>3, <3>4
  <2> QED BY <1>0, <2>1, <2>2 DEF CreateInv
<1>14. TimeInv'
  <2>1. ASSUME NEW k \in DOMAIN node' PROVE k \in Ids /\ node'[k].timestamp <= sim'[k].next
    <3>1. k \in Ids /\ k \in DOMAIN node /\ node'[k] = node[k]
      BY <1>0 DEF NodeTypes
    <3>2. ~Reported(k)
      BY <1>2 DEF Reported, Absent
    <3> QED BY <1>10, <3>1, <3>2 DEF TimeInv
  <2>2. ASSUME NEW i \in DOMAIN toVM', toVM'[i].type = "RUN_NODE",
               NEW k \in DOMAIN node', k = toVM'[i].node
        PROVE  node'[k].timestamp <= toVM'[i].ts
    <3>1. toVM'[i] = m
      BY <1>2, <1>9, <2>2 DEF Absent
    <3>2. k = n
      BY <1>8, <2>2, <3>1
    <3> QED BY <1>8, <1>10, <2>1, <3>1, <3>2
  <2>3. RunsForward'
    BY <1>0, <1>2 DEF RunsForward, Running
  <2> QED BY <2>1, <2>2, <2>3 DEF TimeInv
<1> QED BY <1>10, <1>11, <1>12, <1>13, <1>14

\* activate_node never takes the next timestamp of a node back.
LEMMA ActivateTypes ==
  ASSUME NEW s \in [Ids -> Blocks], NEW n \in Ids, NEW ts \in Nat, pqueue \in Seq(Ids),
         activate_node(s, n, ts)
  PROVE  /\ pqueue' \in Seq(Ids) /\ sim' \in [Ids -> Blocks]
         /\ \A k \in Ids : s[k].next <= sim'[k].next
<1> DEFINE next == NextTimestamp(s[n], ts)
           b == [s[n] EXCEPT !.active = TRUE, !.next = next]
<1>1. \A k \in Ids : s[k] \in Blocks /\ s[k].next \in Nat /\ s[k].ts \in Nat
  BY DEF Blocks
<1>2. next \in Nat /\ s[n].next <= next
  <2>1. PICK a \in Nat, c \in Nat : a = s[n].next /\ c = s[n].ts
    BY <1>1
  <2>2. next = Largest(Largest(a + 1, ts + 1), c)
    BY <2>1 DEF NextTimestamp
  <2>3. PICK d \in Nat : d = Largest(a + 1, ts + 1) /\ a + 1 <= d
    <3>1. Largest(a + 1, ts + 1) \in Nat /\ a + 1 <= Largest(a + 1, ts + 1)
      BY DEF Largest
    <3> QED BY <3>1
  <2>4. Largest(d, c) \in Nat /\ d <= Largest(d, c)
    BY DEF Largest
  <2>5. next = Largest(d, c)
    BY <2>2, <2>3
  <2> HIDE DEF next
  <2> QED BY <2>1, <2>3, <2>4, <2>5
<1> HIDE DEF next
<1>3. b \in Blocks /\ b.next = next
  BY <1>1, <1>2 DEF Blocks
<1>4. sim' = [s EXCEPT ![n] = b]
  BY DEF activate_node, next
<1>5. pqueue' \in Seq(Ids)
  <2>1. pqueue' = pqueue \/ pqueue' = Append(pqueue, n)
    BY DEF activate_node
  <2> QED BY <2>1
<1> HIDE DEF b
<1>6. sim' \in [Ids -> Blocks] /\ \A k \in Ids : s[k].next <= sim'[k].next
  BY <1>1, <1>2, <1>3, <1>4
<1> QED BY <1>5, <1>6

\* A message is read that is not a report.
LEMMA OtherRead ==
  ASSUME IInv, force_read, UNCHANGED vmVars, toSim[1].type # "NODE_RUN" PROVE SimQuiet
<1> DEFINE m == toSim[1]
           S == Sends \cup Colors \cup Reports
<1>1. /\ simpc \in {"loop", "run", "stop"} /\ toSim # <<>> /\ toSim' = Tail(toSim)
      /\ Head(toSim) = m /\ m \in S
  <2>1. toSim \in Seq(S)
    BY DEF IInv, ChannelTypes
  <2>2. simpc \in {"loop", "run", "stop"} /\ toSim # <<>> /\ toSim' = Tail(toSim)
    BY DEF force_read, handle_data
  <2>3. Head(toSim) = m /\ m \in S
    <3> HIDE DEF S
    <3> QED BY <2>1, <2>2, TailShape
  <2> QED BY <2>2, <2>3
<1>2. simpc' \in {simpc, "crash"} \/ (simpc = "loop" /\ simpc' = "turn")
  BY <1>1 DEF force_read, TurnDue
<1>3. sim \in [Ids -> Blocks] /\ pqueue \in Seq(Ids) /\ \A k \in Ids : sim[k].next \in Nat
  <2>1. sim \in [Ids -> Blocks] /\ pqueue \in Seq(Ids)
    BY <1>1 DEF IInv, SimTypes
  <2> QED BY <2>1 DEF Blocks
<1>4. handle_data(m)
  BY <1>1 DEF force_read
<1>5. /\ \/ UNCHANGED toVM
         \/ \E x \in VMMessages : x.type # "RUN_NODE" /\ toVM' = Append(toVM, x)
      /\ pqueue' \in Seq(Ids) /\ sim' \in [Ids -> Blocks]
      /\ \A k \in Ids : sim[k].next <= sim'[k].next
  <2>1. CASE UNCHANGED <<sim, pqueue, toVM>>
    BY <1>3, <2>1
  <2>2. CASE m.type = "SEND_MESSAGE"
    <3>1. m \in Sends
      BY <1>1, <2>2 DEF Colors, Reports
    <3>2. SendMessage(m)
      BY <1>4, <2>2 DEF handle_data
    <3> DEFINE x == [m EXCEPT !.type = "RECEIVE_MESSAGE"]
               target == IF m.face = INVALID_FACE THEN m.node ELSE sim[m.node].face[m.face]
    <3>3. x \in Receipts /\ x \in VMMessages /\ x.type # "RUN_NODE"
      <4>1. x \in Receipts
        BY <3>1 DEF Sends, Receipts
      <4> HIDE DEF x
      <4> QED BY <4>1 DEF Receipts, VMMessages
    <3>4. toVM' = Append(toVM, x)
      BY <3>2 DEF SendMessage
    <3>5. target \in Ids \cup {NO_NEIGHBOR} /\ m.ts \in Nat
      <4>1. m.node \in Ids /\ m.face \in Faces \cup {INVALID_FACE} /\ m.ts \in Nat
        BY <3>1 DEF Sends
      <4>2. sim[m.node].face \in [Faces -> Ids \cup {NO_NEIGHBOR}]
        BY <1>3, <4>1 DEF Blocks
      <4> QED BY <4>1, <4>2
    <3>6. UNCHANGED <<sim, pqueue>> \/ (target # NO_NEIGHBOR /\ activate_node(sim, target, m.ts))
      BY <3>2 DEF SendMessage
    <3> HIDE DEF x, target, m
    <3>7. CASE UNCHANGED <<sim, pqueue>>
      BY <1>3, <3>3, <3>4, <3>7
    <3>8. CASE target # NO_NEIGHBOR /\ activate_node(sim, target, m.ts)
      <4>1. target \in Ids
        BY <3>5, <3>8
      <4>2. /\ pqueue' \in Seq(Ids) /\ sim' \in [Ids -> Blocks]
            /\ \A k \in Ids : sim[k].next <= sim'[k].next
        BY <1>3, <3>5, <3>8, <4>1, ActivateTypes
      <4> QED BY <3>3, <3>4, <4>2
    <3> QED BY <3>6, <3>7, <3>8
  <2>3. CASE m.type # "SEND_MESSAGE"
    BY <1>4, <2>1, <2>3 DEF handle_data
  <2> QED BY <2>2, <2>3
<1>6. UNCHANGED timeVars
  BY VMFrame
<1> QED BY <1>1, <1>2, <1>5, <1>6 DEF SimQuiet

\* The report is read: the record of its node is up to date again.
LEMMA ReportRead ==
  IInv /\ force_read /\ UNCHANGED vmVars /\ toSim[1].type = "NODE_RUN" => IInv'
<1> SUFFICES ASSUME IInv, force_read, UNCHANGED vmVars, toSim[1].type = "NODE_RUN" PROVE IInv'
  OBVIOUS
<1> USE DEF IInv
<1> DEFINE m == toSim[1]
           S == Sends \cup Colors \cup Reports
<1>0. UNCHANGED <<node, vmpc, current_node, sim_instr_counter, sim_instr_limit,
                  socket_messages, tmp_work, delay_queue, now>>
  BY VMFrame DEF timeVars
<1>1. toSim \in Seq(S) /\ toSim # <<>> /\ toSim' = Tail(toSim)
  BY DEF ChannelTypes, force_read, handle_data
<1>2. toSim' \in Seq(S) /\ Head(toSim) = m /\ m \in S /\ 1 \in DOMAIN toSim
  <2> HIDE DEF S
  <2> QED BY <1>1, TailShape
<1>3. m \in Reports /\ m.node \in Ids /\ m.ts \in Nat
  <2>1. m \in Reports
    BY <1>2 DEF Sends, Colors
  <2> QED BY <2>1 DEF Reports
<1>4. /\ simpc = "run" /\ simpc' = "loop"
      /\ sim' = NodeRun(sim, m) /\ UNCHANGED <<pqueue, toVM>>
  <2>1. simpc \in {"run", "crash"}
    BY <1>2 DEF RunInv, Absent
  <2>2. simpc \in {"loop", "run", "stop"} /\ handle_data(m)
    BY <1>2 DEF force_read
  <2>3. ~StaleFace(m)
    BY DEF StaleFace
  <2>4. simpc' = "loop"
    BY <1>2, <2>1, <2>2, <2>3 DEF force_read, TurnDue
  <2> QED BY <2>1, <2>2, <2>4 DEF handle_data
<1>5. /\ Absent("RUN_NODE", toVM) /\ ~Running
      /\ Single("NODE_RUN", toSim) /\ Absent("NODE_RUN", toSim')
  <2>1. Single("NODE_RUN", toSim) /\ ~Absent("NODE_RUN", toSim)
    BY <1>2 DEF RunInv, Absent
  <2>2. Absent("NODE_RUN", Tail(toSim))
    <3> HIDE DEF S
    <3> QED BY <1>1, <2>1, AbsentTail
  <2> QED BY <1>1, <2>1, <2>2 DEF RunInv
<1>6. sim \in [Ids -> Blocks] /\ pqueue \in Seq(Ids)
  BY <1>4 DEF SimTypes
<1> DEFINE n == m.node
           b == [sim[n] EXCEPT !.ts = m.ts, !.next = Largest(m.ts, sim[n].next)]
<1>7. b \in Blocks /\ b.next = Largest(m.ts, sim[n].next)
  <2>1. sim[n] \in Blocks /\ sim[n].next \in Nat
    BY <1>3, <1>6 DEF Blocks
  <2>2. Largest(m.ts, sim[n].next) \in Nat
    BY <1>3, <2>1 DEF Largest
  <2> HIDE DEF m, n
  <2> QED BY <1>3, <2>1, <2>2 DEF Blocks, n
<1>8. sim' = [sim EXCEPT ![n] = b]
  BY <1>4 DEF NodeRun
<1> HIDE DEF b
<1>9. ChannelTypes' /\ WorkTypes' /\ SimTypes' /\ NodeTypes'
  <2>1. sim' \in [Ids -> Blocks]
    BY <1>3, <1>6, <1>7, <1>8
  <2> QED BY <1>0, <1>2, <1>4, <1>6, <2>1 DEF ChannelTypes, WorkTypes, SimTypes, NodeTypes
<1>10. RunInv'
  <2>1. ~Running'
    BY <1>0, <1>5 DEF Running
  <2> QED BY <1>4, <1>5, <2>1 DEF RunInv, Absent, Single
<1>11. CreateInv'
  <2>1. ~Running'
    BY <1>0, <1>5 DEF Running
  <2> QED BY <1>0, <1>4, <2>1 DEF CreateInv
<1>12. TimeInv'
  <2>1. ASSUME NEW k \in DOMAIN node' PROVE node'[k].timestamp <= sim'[k].next
    <3>1. k \in DOMAIN node /\ k \in Ids /\ node'[k] = node[k] /\ node[k].timestamp \in Nat
      BY <1>0 DEF NodeTypes
    <3>2. sim[k].next \in Nat
      BY <1>6, <3>1 DEF Blocks
    <3>3. node[k].timestamp <= sim[k].next \/ (k = n /\ m.ts = node[k].timestamp)
      BY <1>2, <1>5, <3>1 DEF TimeInv, Reported, Single
    <3>4. CASE k # n
      BY <1>3, <1>6, <1>8, <3>1, <3>3, <3>4
    <3>5. CASE k = n
      <4>1. sim'[k].next = Largest(m.ts, sim[k].next)
        BY <1>3, <1>6, <1>7, <1>8, <3>5
      <4>2. m.ts <= Largest(m.ts, sim[k].next) /\ sim[k].next <= Largest(m.ts, sim[k].next)
            /\ Largest(m.ts, sim[k].next) \in Nat
        BY <1>3, <3>2 DEF Largest
      <4> QED BY <1>3, <3>1, <3>2, <3>3, <4>1, <4>2
    <3> QED BY <3>4, <3>5
  <2>2. \A i \in DOMAIN toVM' : toVM'[i].type # "RUN_NODE"
    BY <1>4, <1>5 DEF Absent
  <2>3. RunsForward'
    BY <1>0, <1>5 DEF RunsForward, Running
  <2> QED BY <2>1, <2>2, <2>3 DEF TimeInv
<1> QED BY <1>9, <1>10, <1>11, <1>12

\* What the scenario does to a node schedules it, and orders no run.
LEMMA WriteQuiet ==
  ASSUME IInv, NEW n \in Ids, NEW m \in VMMessages, m.type # "RUN_NODE",
         NEW s \in [Ids -> Blocks], \A k \in Ids : s[k].next = sim[k].next,
         Write(n, m, s), UNCHANGED vmVars
  PROVE  SimQuiet
<1>1. /\ simpc \in {"loop", "turn"} /\ simpc' = simpc /\ UNCHANGED toSim /\ toVM' = Append(toVM, m)
      /\ activate_node(s, n, 0)
  BY DEF Write, Turn
<1>2. /\ pqueue' \in Seq(Ids) /\ sim' \in [Ids -> Blocks]
      /\ \A k \in Ids : s[k].next <= sim'[k].next
  BY <1>1, ActivateTypes DEF IInv, SimTypes
<1>3. UNCHANGED timeVars
  BY VMFrame
<1> QED BY <1>1, <1>2, <1>3 DEF SimQuiet

LEMMA PlaceTypes ==
  ASSUME sim \in [Ids -> Blocks], NEW n \in Ids, NEW side \in Faces,
         NEW x \in Ids \cup {NO_NEIGHBOR}
  PROVE  /\ [sim EXCEPT ![n].face[side] = x] \in [Ids -> Blocks]
         /\ \A k \in Ids : [sim EXCEPT ![n].face[side] = x][k].next = sim[k].next
<1> DEFINE b == [sim[n] EXCEPT !.face[side] = x]
<1>1. sim[n] \in Blocks
  OBVIOUS
<1>2. b \in Blocks /\ b.next = sim[n].next
  BY <1>1 DEF Blocks
<1>3. [sim EXCEPT ![n].face[side] = x] = [sim EXCEPT ![n] = b]
  OBVIOUS
<1> HIDE DEF b
<1> QED BY <1>2, <1>3

LEMMA ScenarioQuiet == ASSUME IInv, Scenario, UNCHANGED vmVars PROVE SimQuiet
<1>1. simpc \in {"loop", "turn"} /\ sim \in [Ids -> Blocks]
  <2>1. simpc \in {"loop", "turn"}
    BY DEF Scenario, write_add_neighbor, write_remove_neighbor, write_tap, write_accel,
           write_shake, Write, Turn
  <2> QED BY <2>1 DEF IInv, SimTypes
<1>2. \A k \in Ids : sim[k].ts \in Nat
  BY <1>1 DEF Blocks
<1>3. ASSUME NEW p \in Neighbors PROVE p[1] \in Ids /\ p[2] \in Ids /\ p[3] \in Faces
  BY ScenarioAssumption
<1>4. ASSUME NEW p \in Neighbors, write_add_neighbor(p[1], p[2], p[3]) PROVE SimQuiet
  <2> DEFINE m == [type |-> "ADD_NEIGHBOR", ts |-> sim[p[1]].ts, node |-> p[1],
                   out |-> p[2], face |-> p[3]]
             s == [sim EXCEPT ![p[1]].face[p[3]] = p[2]]
  <2>1. m \in VMMessages /\ m.type # "RUN_NODE"
    <3>1. m \in Additions
      BY <1>2, <1>3 DEF Additions
    <3> HIDE DEF m
    <3> QED BY <3>1 DEF VMMessages, Additions
  <2>2. s \in [Ids -> Blocks] /\ \A k \in Ids : s[k].next = sim[k].next
    BY <1>1, <1>3, PlaceTypes
  <2>3. Write(p[1], m, s)
    BY <1>4 DEF write_add_neighbor
  <2> HIDE DEF m, s
  <2> QED BY <1>3, <2>1, <2>2, <2>3, WriteQuiet
<1>5. ASSUME NEW p \in Neighbors, write_remove_neighbor(p[1], p[3]) PROVE SimQuiet
  <2> DEFINE m == [type |-> "REMOVE_NEIGHBOR", ts |-> sim[p[1]].ts, node |-> p[1],
                   face |-> p[3]]
             s == [sim EXCEPT ![p[1]].face[p[3]] = NO_NEIGHBOR]
  <2>1. m \in VMMessages /\ m.type # "RUN_NODE"
    <3>1. m \in Removals
      BY <1>2, <1>3 DEF Removals
    <3> HIDE DEF m
    <3> QED BY <3>1 DEF VMMessages, Removals
  <2>2. s \in [Ids -> Blocks] /\ \A k \in Ids : s[k].next = sim[k].next
    <3>1. PICK n \in Ids, side \in Faces, x \in Ids \cup {NO_NEIGHBOR} :
            n = p[1] /\ side = p[3] /\ x = NO_NEIGHBOR
      BY <1>3
    <3>2. /\ [sim EXCEPT ![n].face[side] = x] \in [Ids -> Blocks]
          /\ \A k \in Ids : [sim EXCEPT ![n].face[side] = x][k].next = sim[k].next
      BY <1>1, PlaceTypes
    <3> QED BY <3>1, <3>2
  <2>3. Write(p[1], m, s)
    BY <1>5 DEF write_remove_neighbor
  <2> HIDE DEF m, s
  <2> QED BY <1>3, <2>1, <2>2, <2>3, WriteQuiet
<1>6. ASSUME NEW n \in Touched, write_tap(n) \/ write_accel(n) \/ write_shake(n)
      PROVE  SimQuiet
  <2>1. n \in Ids
    BY ScenarioAssumption
  <2>2. PICK type \in {"TAP", "ACCEL", "SHAKE"} :
          Write(n, [type |-> type, ts |-> sim[n].ts, node |-> n], sim)
    BY <1>6 DEF write_tap, write_accel, write_shake
  <2> DEFINE m == [type |-> type, ts |-> sim[n].ts, node |-> n]
  <2>3. m \in VMMessages /\ m.type # "RUN_NODE"
    <3>1. m \in Touches
      BY <1>2, <2>1 DEF Touches
    <3> HIDE DEF m
    <3> QED BY <3>1 DEF VMMessages, Touches
  <2>4. Write(n, m, sim)
    BY <2>2
  <2> HIDE DEF m
  <2> QED BY <1>1, <2>1, <2>3, <2>4, WriteQuiet
<1> QED BY <1>4, <1>5, <1>6 DEF Scenario

LEMMA TurnQuiet == ASSUME IInv, BeginTurn \/ EndTurn, UNCHANGED vmVars PROVE SimQuiet
<1>1. /\ UNCHANGED <<toVM, toSim, sim, pqueue>>
      /\ simpc \in {"loop", "turn"} /\ simpc' \in {"loop", "turn"}
  BY DEF BeginTurn, EndTurn, TurnDue
<1>2. sim \in [Ids -> Blocks] /\ pqueue \in Seq(Ids)
  BY <1>1 DEF IInv, SimTypes
<1>3. \A k \in Ids : sim[k].next \in Nat
  BY <1>2 DEF Blocks
<1>4. UNCHANGED timeVars
  BY VMFrame
<1> QED BY <1>1, <1>2, <1>3, <1>4 DEF SimQuiet

LEMMA StopQuiet == ASSUME IInv, write_stop, UNCHANGED vmVars PROVE SimQuiet
<1> DEFINE m == [type |-> "STOP", ts |-> 0]
<1>1. m \in VMMessages /\ m.type # "RUN_NODE"
  <2>1. m \in Notices
    BY DEF Notices
  <2> HIDE DEF m
  <2> QED BY <2>1 DEF VMMessages, Notices
<1>2. /\ simpc = "loop" /\ simpc' = "stop" /\ toVM' = Append(toVM, m)
      /\ UNCHANGED <<toSim, sim, pqueue>>
  BY DEF write_stop
<1> HIDE DEF m
<1>3. sim \in [Ids -> Blocks] /\ pqueue \in Seq(Ids)
  BY <1>2 DEF IInv, SimTypes
<1>4. \A k \in Ids : sim[k].next <= sim'[k].next
  <2>1. \A k \in Ids : sim[k].next \in Nat
    BY <1>3 DEF Blocks
  <2> QED BY <1>2, <2>1
<1>5. UNCHANGED timeVars
  BY VMFrame
<1> QED BY <1>1, <1>2, <1>3, <1>4, <1>5 DEF SimQuiet

(***************************************************************************)
(* The theorem.                                                            *)
(***************************************************************************)
LEMMA InitIInv == Init => IInv
<1> SUFFICES ASSUME Init PROVE IInv
  OBVIOUS
<1>1. /\ toVM = <<>> /\ toSim = <<>> /\ node = <<>> /\ vmpc = "loop" /\ simpc = "start"
      /\ sim_instr_counter = 0 /\ sim_instr_limit = 0 /\ now = 0 /\ pqueue = <<>>
      /\ tmp_work = <<>> /\ delay_queue = <<>> /\ socket_messages = <<>>
  BY DEF Init, VMInit, SimInit
<1>2. DOMAIN node = {} /\ DOMAIN toVM = {} /\ DOMAIN toSim = {}
  BY <1>1
<1>3. ChannelTypes /\ WorkTypes /\ SimTypes
  BY <1>1 DEF ChannelTypes, WorkTypes, SimTypes
<1>4. NodeTypes /\ RunInv /\ CreateInv /\ TimeInv
  BY <1>1, <1>2 DEF NodeTypes, RunInv, CreateInv, TimeInv, Absent, Single, Running, RunsForward
<1> QED BY <1>3, <1>4 DEF IInv

LEMMA MasterIInv == IInv /\ Master /\ UNCHANGED simVars => IInv'
<1> SUFFICES ASSUME IInv, Master, UNCHANGED simVars PROVE IInv'
  OBVIOUS
<1>1. CASE use_threads
  BY <1>1, UseThreadsReads, ReadsKeep
<1>2. CASE handle_create_n_nodes
  BY <1>2, CreateKeeps
<1>3. CASE handle_run_node
  BY <1>3, OrderRead
<1>4. CASE handle_receive_message
  BY <1>4, ReceiveReads, ReadsKeep
<1>5. CASE handle_add_neighbor
  BY <1>5, AddNeighborReads, ReadsKeep
<1>6. CASE handle_remove_neighbor
  BY <1>6, RemoveNeighborReads, ReadsKeep
<1>7. CASE handle_tap \/ handle_accel \/ handle_shake
  BY <1>7, SensedReads, ReadsKeep DEF handle_tap, handle_accel, handle_shake
<1>8. CASE HandleStop
  BY <1>8, StopReads, ReadsKeep
<1>9. CASE AfterStop
  BY <1>9, AfterStopQuiet, VMQuietKeeps
<1>10. CASE send_pending_messages
  BY <1>10, SendPendingQuiet, VMQuietKeeps
<1>11. CASE instantiate_all_nodes
  BY <1>11, InstantiateQuiet, VMQuietKeeps
<1>12. CASE check_delayed_queue
  BY <1>12, DelayedQuiet, VMQuietKeeps
<1>13. CASE RunCurrentNode
  BY <1>13, RunQuiet, VMQuietKeeps
<1>14. CASE handle_deterministic_computation
  BY <1>14, ReportWritten
<1> QED BY <1>1, <1>2, <1>3, <1>4, <1>5, <1>6, <1>7, <1>8, <1>9, <1>10, <1>11, <1>12,
           <1>13, <1>14 DEF Master

LEMMA StepIInv == IInv /\ [Next]_vars => IInv'
<1> SUFFICES ASSUME IInv, [Next]_vars PROVE IInv'
  OBVIOUS
<1>1. CASE Master /\ UNCHANGED simVars
  BY <1>1, MasterIInv
<1>2. ASSUME NEW n \in Ids, Slave(n), UNCHANGED simVars PROVE IInv'
  BY <1>2, SlaveGetWorkQuiet, SlaveEndQuiet, SlaveRunQuiet, VMQuietKeeps DEF Slave
<1>3. CASE Tick /\ UNCHANGED simVars
  BY <1>3, TickQuiet, VMQuietKeeps
<1>4. CASE Main /\ UNCHANGED vmVars
  <2>1. CASE write_create_n_nodes
    BY <1>4, <2>1, SimCreates
  <2>2. CASE write_run_node
    BY <1>4, <2>2, OrderWritten
  <2>3. CASE force_read
    BY <1>4, <2>3, ReportRead, OtherRead, SimQuietKeeps
  <2>4. CASE Scenario
    BY <1>4, <2>4, ScenarioQuiet, SimQuietKeeps
  <2>5. CASE write_stop
    BY <1>4, <2>5, StopQuiet, SimQuietKeeps
  <2>6. CASE BeginTurn \/ EndTurn
    BY <1>4, <2>6, TurnQuiet, SimQuietKeeps
  <2> QED BY <1>4, <2>1, <2>2, <2>3, <2>4, <2>5, <2>6 DEF Main
<1>5. CASE UNCHANGED vars
  <2>1. UNCHANGED <<toVM, toSim, deterministic, sim, pqueue, simpc, writes, node, vmpc,
                    current_node, sim_instr_counter, sim_instr_limit, socket_messages,
                    tmp_work, delay_queue, now>>
    BY <1>5 DEF vars, vmVars, simVars, masterVars
  <2>2. ChannelTypes' /\ WorkTypes' /\ SimTypes' /\ NodeTypes'
    BY <2>1 DEF IInv, ChannelTypes, WorkTypes, SimTypes, NodeTypes
  <2>3. RunInv' /\ CreateInv'
    BY <2>1 DEF IInv, RunInv, CreateInv, Running
  <2>4. TimeInv'
    BY <2>1 DEF IInv, TimeInv, Reported, RunsForward
  <2> QED BY <2>2, <2>3, <2>4 DEF IInv
<1> QED BY <1>1, <1>2, <1>3, <1>4, <1>5 DEF Next

\* The invariant of the connection: one run at a time, and a record of the nodes'
\* times (timestamps and nexttimestamps of the simulator, timestamp of a sim_node)
\* that is up to date whenever no run is under way.
THEOREM ConnectionInv == Spec => []IInv
BY InitIInv, StepIInv, PTL DEF Spec

\* handle_run_node is never told to run a node up to an instruction that the node
\* has passed, for every number of blocks, every scenario of the simulator and every
\* overrun of the limit: activate_node and NODE_RUN never take nexttimestamps back,
\* and no order is given while a report is under way.
THEOREM TimeRunsForward == Spec => []RunsForward
<1>1. IInv => RunsForward
  BY DEF IInv, TimeInv
<1> QED BY <1>1, ConnectionInv, PTL

(***************************************************************************)
(* Where tuples arrive.  A tuple travels as a face: the VM looks up the    *)
(* face of the node it is for, the simulator looks up the node on that     *)
(* face and the VM looks it up again, each on its own record of the faces. *)
(* The records agree up to the changes under way (FaceInv), and no change  *)
(* is under way while a run is (AheadInv).                                 *)
(***************************************************************************)

\* What may lie in the queues of node n: a tuple that a run has sent was led to n.
Told == {<<"init">>, <<"tap">>, <<"accel">>, <<"shake">>}
          \cup ({"neighbor"} \X (Ids \cup {NO_NEIGHBOR}) \X Faces)
          \cup ({"neighborCount"} \X Int) \cup ({"vacant"} \X Faces)
TuplesFor(n) == Told \cup ({"sent"} \X Ids \X {"run"} \X {n})
                    \cup ({"sent"} \X Ids \X {"delayed"} \X Ids)

Items(n) == [tuple : TuplesFor(n), count : Int]
Timed(n) == [tuple : TuplesFor(n), count : Int, ts : Nat]

NodeRecords(n) ==
  [face : [Faces -> Ids \cup {NO_NEIGHBOR}], neighbor_count : Int, instantiated : BOOLEAN,
   timestamp : Nat, tuple_pqueue : Seq(Timed(n)), rtuple_pqueue : Seq(Timed(n)),
   rascending : BOOLEAN, pending : Seq(Items(n)), delay_queue : Seq([due : Nat])]

\* The nodes and what the slaves hold.
RecordInv ==
  /\ \A n \in DOMAIN node : node[n] \in NodeRecords(n)
  /\ DOMAIN gathered = Ids /\ DOMAIN slave = Ids
  /\ \A n \in Ids : gathered[n] \in Seq(Items(n))
  /\ \A n \in Ids : slave[n] # "none" => DOMAIN node = Ids

\* The nodes are created once, and by the first message but USE_THREADS.
FirstInv ==
  /\ Single("CREATE_N_NODES", toVM)
  /\ DOMAIN node # {} => Absent("CREATE_N_NODES", toVM)
  /\ simpc # "start" /\ DOMAIN node = {} =>
       \E j \in DOMAIN toVM :
         /\ toVM[j].type = "CREATE_N_NODES"
         /\ \A i \in DOMAIN toVM : i < j => toVM[i].type = "USE_THREADS"

\* The message m changes face f of node n.
Changes(m, n, f) == m.type \in {"ADD_NEIGHBOR", "REMOVE_NEIGHBOR"} /\ m.node = n /\ m.face = f
Put(m) == IF m.type = "ADD_NEIGHBOR" THEN m.out ELSE NO_NEIGHBOR

\* x is on face f of node n after the first k messages of q if v is there now.
Shows(q, k, n, f, v, x) ==
  \/ x = v /\ \A i \in 1 .. k : ~Changes(q[i], n, f)
  \/ \E i \in 1 .. k : /\ Changes(q[i], n, f) /\ x = Put(q[i])
                       /\ \A j \in i + 1 .. k : ~Changes(q[j], n, f)

\* What the VM has on a face: nothing before the nodes are created.
Known(n, f) == IF n \in DOMAIN node THEN node[n].face[f] ELSE NO_NEIGHBOR

\* The simulator is ahead of the VM by the changes that are under way.
FaceInv ==
  simpc # "start" =>
    \A n \in Ids, f \in Faces : Shows(toVM, Len(toVM), n, f, Known(n, f), sim[n].face[f])

\* A change that is under way together with the order of a run is in front of it, and
\* none is under way while a node runs.
AheadInv ==
  Running \/ ~Absent("RUN_NODE", toVM) =>
    \A i \in DOMAIN toVM : toVM[i].type \in {"ADD_NEIGHBOR", "REMOVE_NEIGHBOR"} =>
      \E j \in DOMAIN toVM : i < j /\ toVM[j].type = "RUN_NODE"

\* A tuple that a run has sent leads on the simulator's faces where it led when it
\* was sent, and the report of the run follows.
SendInv ==
  \A i \in DOMAIN toSim : toSim[i].type = "SEND_MESSAGE" /\ SentInRun(toSim[i].tuple) =>
    /\ Leads(toSim[i], sim) = toSim[i].tuple[4]
    /\ \E j \in DOMAIN toSim : i < j /\ toSim[j].type = "NODE_RUN"

\* The message at place i of toVM leads to d when it is read.
Reaches(i, d) ==
  IF toVM[i].face = INVALID_FACE THEN d = toVM[i].node
  ELSE Shows(toVM, i - 1, toVM[i].node, toVM[i].face, Known(toVM[i].node, toVM[i].face), d)

\* A tuple that a run has sent leads where it led then when the VM reads it.
ArriveInv ==
  \A i \in DOMAIN toVM : toVM[i].type = "RECEIVE_MESSAGE" /\ SentInRun(toVM[i].tuple) =>
    Reaches(i, toVM[i].tuple[4])

TravelInv == RecordInv /\ FirstInv /\ FaceInv /\ AheadInv /\ SendInv /\ ArriveInv

(***************************************************************************)
(* Who will run.  A tuple in the queues of a node is taken by a run up to  *)
(* its time.  Such a run is scheduled, ordered or under way whenever the   *)
(* tuple is in a queue (StrandInv), because it was scheduled when the      *)
(* simulator passed the tuple on, and no order that comes before the tuple *)
(* serves it (Noticed).                                                    *)
(***************************************************************************)

\* The times of the tuples in the queues of a node.
QueueTimes(q) == {q[i].ts : i \in DOMAIN q}
Times(nd) == QueueTimes(nd.tuple_pqueue) \cup QueueTimes(nd.rtuple_pqueue)

\* The simulator has scheduled node n.
Scheduled(n) == \E p \in DOMAIN pqueue : pqueue[p] = n

\* Node d is scheduled to run up to x, or an order to do so follows place i.
Served(d, x, i) ==
  \/ x <= sim[d].next /\ Scheduled(d)
  \/ \E j \in DOMAIN toVM :
       i < j /\ toVM[j].type = "RUN_NODE" /\ toVM[j].node = d /\ x <= toVM[j].ts

ModeInv == deterministic => ~thread_mode /\ Absent("USE_THREADS", toVM)

ScheduleInv ==
  simpc # "start" => \A n \in Ids : sim[n].active => Scheduled(n)

\* Whoever the message at place i is for will run up to its time after it has been read.
Noticed(i) ==
  /\ toVM[i].type \in {"ADD_NEIGHBOR", "REMOVE_NEIGHBOR", "TAP", "ACCEL", "SHAKE"} =>
       Served(toVM[i].node, toVM[i].ts, i)
  /\ toVM[i].type = "CREATE_N_NODES" => \A n \in Ids : Served(n, 0, i)
  /\ toVM[i].type = "RECEIVE_MESSAGE" =>
       \E d \in Ids \cup {NO_NEIGHBOR} :
         Reaches(i, d) /\ (d \in Ids => Served(d, toVM[i].ts, i))

NoticeInv == deterministic => \A i \in DOMAIN toVM : Noticed(i)

\* The same for what is in the queues, or the node runs now.
StrandInv ==
  deterministic =>
    \A n \in DOMAIN node : \A x \in Times(node[n]) :
      Served(n, x, 0) \/ (vmpc = "run" /\ current_node = n /\ x <= sim_instr_limit)

ServiceInv == ModeInv /\ ScheduleInv /\ NoticeInv /\ StrandInv

(***************************************************************************)
(* Tuples: what is queued on a node, what is taken off it and what it is    *)
(* told are tuples for that node.                                           *)
(***************************************************************************)
\* The items at some places of a sequence are items of the sequence, at these
\* places.
LEMMA AtPlacesShape ==
  ASSUME NEW S, NEW s \in Seq(S), NEW I \in SUBSET DOMAIN s
  PROVE  /\ AtPlaces(s, I) \in Seq(S)
         /\ \A k \in DOMAIN AtPlaces(s, I) : \E i \in I : AtPlaces(s, I)[k] = s[i]
<1> DEFINE n == Len(s)
           B(i) == {j \in I : j <= i}
           c == Cardinality(I)
           Nth(k) == CHOOSE i \in I : Cardinality(B(i)) = k
<1>1. n \in Nat /\ DOMAIN s = 1 .. n /\ I \subseteq 1 .. n /\ IsFiniteSet(I) /\ c \in Nat
  <2>1. n \in Nat /\ DOMAIN s = 1 .. n /\ I \subseteq 1 .. n
    OBVIOUS
  <2>2. IsFiniteSet(1 .. n)
    BY <2>1, FS_Interval
  <2> QED BY <2>1, <2>2, FS_Subset, FS_CardinalityType
<1>2. \A i \in 0 .. n : IsFiniteSet(B(i)) /\ Cardinality(B(i)) \in Nat
  BY <1>1, FS_Subset, FS_CardinalityType
<1>3. Cardinality(B(0)) = 0 /\ Cardinality(B(n)) = c
  <2>1. B(0) = {} /\ B(n) = I
    BY <1>1
  <2> QED BY <2>1, FS_EmptySet
<1>4. ASSUME NEW i \in 1 .. n, i \notin I PROVE B(i) = B(i - 1)
  BY <1>1, <1>4
<1>5. ASSUME NEW i \in 1 .. n, i \in I
      PROVE  Cardinality(B(i)) = Cardinality(B(i - 1)) + 1
  <2>1. B(i) = B(i - 1) \cup {i} /\ i \notin B(i - 1) /\ i - 1 \in 0 .. n
    BY <1>1, <1>5
  <2>2. IsFiniteSet(B(i - 1))
    BY <1>2, <2>1
  <2> HIDE DEF B
  <2> QED BY <2>1, <2>2, FS_AddElement
<1> HIDE DEF B, c
<1>6. ASSUME NEW k \in 1 .. c PROVE \E i \in I : Cardinality(B(i)) = k
  <2> DEFINE T == {i \in 0 .. n : Cardinality(B(i)) >= k}
  <2>1. T \subseteq Nat /\ n \in T
    BY <1>1, <1>3
  <2>2. PICK i \in T : \A y \in T : i <= y
    <3> HIDE DEF T
    <3> QED BY <2>1, LeastElement
  <2>3. i \in 0 .. n /\ Cardinality(B(i)) >= k /\ k >= 1 /\ k \in Nat
    BY <1>1, <2>2
  <2>4. i # 0
    BY <1>3, <2>3
  <2>5. i \in 1 .. n /\ i - 1 \in 0 .. n /\ i - 1 < i
    BY <2>3, <2>4
  <2>6. Cardinality(B(i - 1)) \in Nat /\ ~(Cardinality(B(i - 1)) >= k)
    BY <1>2, <2>2, <2>5
  <2>7. i \in I
    BY <1>4, <2>3, <2>5, <2>6
  <2>8. Cardinality(B(i)) = Cardinality(B(i - 1)) + 1
    BY <1>5, <2>5, <2>7
  <2>9. Cardinality(B(i)) = k
    BY <2>3, <2>6, <2>8
  <2> QED BY <2>7, <2>9
<1>7. \A k \in 1 .. c : Nth(k) \in I
  BY <1>6
<1>8. AtPlaces(s, I) = [k \in 1 .. c |-> s[Nth(k)]]
  BY DEF AtPlaces, B, c
<1>9. \A i \in I : s[i] \in S
  BY <1>1
<1> HIDE DEF Nth
<1> QED BY <1>1, <1>7, <1>8, <1>9

\* What a heap pops are items of the queue: the places are ranked, by time and then
\* by place, so that each rank up to their number is the rank of one of them.
LEMMA HeapOrderShape ==
  ASSUME NEW S, NEW q \in Seq(S), \A i \in DOMAIN q : q[i].ts \in Nat,
         NEW I \in SUBSET DOMAIN q, NEW ascending \in BOOLEAN
  PROVE  InHeapOrder(q, I, ascending) \in Seq(S)
<1> DEFINE Precedes(j, i) == IF q[j].ts = q[i].ts THEN j <= i
                             ELSE ascending <=> q[j].ts < q[i].ts
           U(i) == {j \in I : Precedes(j, i)}
           c == Cardinality(I)
           Nth(k) == CHOOSE i \in I : Cardinality(U(i)) = k
           rank == [i \in I |-> Cardinality(U(i))]
<1>1. Len(q) \in Nat /\ DOMAIN q = 1 .. Len(q) /\ I \subseteq 1 .. Len(q)
  OBVIOUS
<1>2. IsFiniteSet(I) /\ c \in Nat
  <2>1. IsFiniteSet(1 .. Len(q))
    BY <1>1, FS_Interval
  <2> QED BY <1>1, <2>1, FS_Subset, FS_CardinalityType
<1>3. \A i \in I : i \in Nat /\ q[i].ts \in Nat /\ q[i] \in S
  BY <1>1
<1>4. /\ \A i \in I : Precedes(i, i)
      /\ \A i, j \in I : Precedes(i, j) \/ Precedes(j, i)
      /\ \A i, j \in I : Precedes(i, j) /\ Precedes(j, i) => i = j
      /\ \A i, j, k \in I : Precedes(i, j) /\ Precedes(j, k) => Precedes(i, k)
  BY <1>3
<1> HIDE DEF Precedes
<1>5. \A i \in I : /\ U(i) \in SUBSET I /\ IsFiniteSet(U(i)) /\ Cardinality(U(i)) \in Nat
                   /\ Cardinality(U(i)) <= c /\ i \in U(i)
  BY <1>2, <1>4, FS_Subset, FS_CardinalityType
<1>6. ASSUME NEW i \in I, NEW j \in I, Precedes(i, j), i # j
      PROVE  Cardinality(U(i)) # Cardinality(U(j))
  <2>1. U(i) \in SUBSET U(j) /\ j \notin U(i) /\ j \in U(j) /\ IsFiniteSet(U(j))
    BY <1>4, <1>5, <1>6
  <2>2. U(i) # U(j)
    BY <2>1
  <2> HIDE DEF U
  <2> QED BY <2>1, <2>2, FS_Subset
<1>7. rank \in Injection(I, 1 .. c)
  <2>1. ASSUME NEW i \in I PROVE Cardinality(U(i)) \in 1 .. c
    <3>1. U(i) # {} /\ IsFiniteSet(U(i)) /\ Cardinality(U(i)) \in Nat /\ Cardinality(U(i)) <= c
      BY <1>5
    <3> HIDE DEF U
    <3>2. Cardinality(U(i)) # 0
      BY <3>1, FS_EmptySet
    <3> QED BY <1>2, <3>1, <3>2
  <2>2. ASSUME NEW i \in I, NEW j \in I, rank[i] = rank[j] PROVE i = j
    BY <1>4, <1>6, <2>2
  <2> HIDE DEF U
  <2>3. rank \in [I -> 1 .. c]
    BY <2>1
  <2> HIDE DEF rank
  <2> QED BY <2>2, <2>3 DEF Injection, IsInjective
<1>8. \A k \in 1 .. c : \E i \in I : Cardinality(U(i)) = k
  <2>1. IsFiniteSet(1 .. c) /\ Cardinality(1 .. c) = c
    BY <1>2, FS_Interval
  <2>2. rank \in Surjection(I, 1 .. c)
    <3> HIDE DEF rank
    <3> QED BY <1>7, <2>1, FS_Injection
  <2>3. \A k \in 1 .. c : \E i \in I : rank[i] = k
    <3> HIDE DEF rank
    <3> QED BY <2>2 DEF Surjection
  <2> HIDE DEF U
  <2> QED BY <2>3
<1>9. \A k \in 1 .. c : Nth(k) \in I
  BY <1>8
<1>10. InHeapOrder(q, I, ascending) = [k \in 1 .. c |-> q[Nth(k)]]
  BY DEF InHeapOrder, U, c, Precedes
<1> HIDE DEF Nth, c
<1> QED BY <1>2, <1>3, <1>9, <1>10

\* The tuples that the scheduler makes.
LEMMA ToldTuples ==
  /\ <<"init">> \in Told /\ <<"tap">> \in Told /\ <<"accel">> \in Told /\ <<"shake">> \in Told
  /\ \A out \in Ids \cup {NO_NEIGHBOR}, f \in Faces : <<"neighbor", out, f>> \in Told
  /\ \A k \in Int : <<"neighborCount", k>> \in Told
  /\ \A f \in Faces : <<"vacant", f>> \in Told
BY DEF Told

LEMMA ItemTypes ==
  ASSUME NEW n, NEW t \in TuplesFor(n), NEW c \in Int
  PROVE  STuple(t, c) \in Items(n) /\ <<STuple(t, c)>> \in Seq(Items(n))
<1>1. STuple(t, c) \in Items(n)
  BY DEF STuple, Items
<1> QED BY <1>1

LEMMA DeclaredTypes ==
  ASSUME NEW S, NEW es \in Seq(S) PROVE Declared(es) \in Seq(S)
<1> DEFINE I == {i \in DOMAIN es : es[i].tuple[1] \in Predicates}
<1>1. I \in SUBSET DOMAIN es /\ Declared(es) = AtPlaces(es, I)
  BY DEF Declared
<1> HIDE DEF I
<1> QED BY <1>1, AtPlacesShape

LEMMA NewsTypes ==
  ASSUME NEW n, NEW count \in Int
  PROVE  /\ \A t \in Told : IfDeclared(t, count) \in Seq(Items(n))
         /\ \A out \in Ids \cup {NO_NEIGHBOR}, f \in Faces :
              add_neighbor(out, f, count) \in Seq(Items(n))
         /\ \A k \in Int : add_neighbor_count(k, count) \in Seq(Items(n))
         /\ \A f \in Faces : add_vacant(f, count) \in Seq(Items(n))
<1>1. ASSUME NEW t \in Told PROVE IfDeclared(t, count) \in Seq(Items(n))
  <2>1. t \in TuplesFor(n)
    BY DEF TuplesFor
  <2>2. <<STuple(t, count)>> \in Seq(Items(n))
    BY <2>1, ItemTypes
  <2> QED BY <2>2, DeclaredTypes DEF IfDeclared
<1>2. \A out \in Ids \cup {NO_NEIGHBOR}, f \in Faces : add_neighbor(out, f, count) \in Seq(Items(n))
  BY <1>1, ToldTuples DEF add_neighbor
<1>3. \A k \in Int : add_neighbor_count(k, count) \in Seq(Items(n))
  BY <1>1, ToldTuples DEF add_neighbor_count
<1>4. \A f \in Faces : add_vacant(f, count) \in Seq(Items(n))
  BY <1>1, ToldTuples DEF add_vacant
<1> QED BY <1>1, <1>2, <1>3, <1>4

LEMMA FaceFactsTypes ==
  ASSUME NEW n, NEW face \in [Faces -> Ids \cup {NO_NEIGHBOR}]
  PROVE  FaceFacts(face) \in Seq(Items(n))
<1> DEFINE all == [i \in 1 .. 6 |-> i - 1]
           I == {i \in 1 .. 6 : i - 1 \in Faces}
           order == AtPlaces(all, I)
           Fact(f) == IF face[f] = NO_NEIGHBOR THEN <<"vacant", f>> ELSE <<"neighbor", face[f], f>>
           es == [i \in DOMAIN order |-> STuple(Fact(order[i]), 1)]
<1>1. all \in Seq(Int) /\ I \in SUBSET DOMAIN all /\ \A i \in I : all[i] \in Faces
  OBVIOUS
<1>2. order \in Seq(Int) /\ \A k \in DOMAIN order : order[k] \in Faces
  <2> HIDE DEF all, I
  <2> QED BY <1>1, AtPlacesShape
<1> HIDE DEF order
<1>3. \A f \in Faces : Fact(f) \in Told
  BY ToldTuples
<1> HIDE DEF Fact
<1>4. \A k \in DOMAIN order : STuple(Fact(order[k]), 1) \in Items(n)
  <2>1. \A k \in DOMAIN order : Fact(order[k]) \in TuplesFor(n)
    BY <1>2, <1>3 DEF TuplesFor
  <2> QED BY <2>1, ItemTypes
<1>5. es \in Seq(Items(n))
  <2>1. Len(order) \in Nat /\ DOMAIN order = 1 .. Len(order)
    BY <1>2
  <2>2. es = [k \in 1 .. Len(order) |-> STuple(Fact(order[k]), 1)]
    BY <2>1
  <2> HIDE DEF es
  <2> QED BY <1>4, <2>1, <2>2
<1>6. FaceFacts(face) = Declared(es)
  BY DEF FaceFacts, order, Fact
<1> HIDE DEF es
<1> QED BY <1>5, <1>6, DeclaredTypes

\* A tuple that a run has sent is in the queue of the node that its face led to.
LEMMA ItemsForNode ==
  ASSUME NEW n, NEW e \in Items(n) \cup Timed(n), SentInRun(e.tuple)
  PROVE  e.tuple[4] = n
<1>1. e.tuple \in TuplesFor(n)
  BY DEF Items, Timed
<1>2. e.tuple[1] = "sent" /\ e.tuple[3] = "run"
  BY DEF SentInRun
<1>3. e.tuple \notin Told
  BY <1>2 DEF Told
<1> QED BY <1>1, <1>2, <1>3 DEF TuplesFor

\* The times in a queue to which items of time ts are added.
LEMMA AddedTimes ==
  ASSUME NEW S, NEW a \in Seq(S), NEW b \in Seq(S), NEW ts, \A i \in DOMAIN b : b[i].ts = ts
  PROVE  QueueTimes(a \o b) \subseteq QueueTimes(a) \cup {ts}
<1> SUFFICES ASSUME NEW i \in DOMAIN (a \o b)
             PROVE  (a \o b)[i].ts \in QueueTimes(a) \cup {ts}
  BY DEF QueueTimes
<1>1. Len(a) \in Nat /\ Len(b) \in Nat /\ DOMAIN a = 1 .. Len(a) /\ DOMAIN b = 1 .. Len(b)
      /\ i \in 1 .. Len(a) + Len(b)
  OBVIOUS
<1>2. CASE i <= Len(a)
  <2>1. i \in DOMAIN a /\ (a \o b)[i] = a[i]
    BY <1>1, <1>2
  <2> QED BY <2>1 DEF QueueTimes
<1>3. CASE i > Len(a)
  <2>1. i - Len(a) \in DOMAIN b /\ (a \o b)[i] = b[i - Len(a)]
    BY <1>1, <1>3
  <2> QED BY <2>1
<1> QED BY <1>1, <1>2, <1>3

\* add_received_tuple: the items come at time ts, if at all.
LEMMA ReceivedShape ==
  ASSUME NEW n, NEW nd \in NodeRecords(n), NEW ts \in Nat, NEW es \in Seq(Items(n)), NEW r,
         r = add_received_tuple(nd, ts, es)
  PROVE  r \in NodeRecords(n) /\ r.face = nd.face /\ Times(r) \subseteq Times(nd) \cup {ts}
<1> DEFINE timed == [i \in DOMAIN es |-> [tuple |-> es[i].tuple, count |-> es[i].count, ts |-> ts]]
           asserted == {i \in DOMAIN es : es[i].count > 0}
           up == AtPlaces(timed, asserted)
           down == AtPlaces(timed, DOMAIN es \ asserted)
<1>1. CASE thread_mode
  <2>1. r = [nd EXCEPT !.pending = nd.pending \o es]
    BY <1>1 DEF add_received_tuple
  <2>2. nd.pending \o es \in Seq(Items(n))
    <3>1. nd.pending \in Seq(Items(n))
      BY DEF NodeRecords
    <3> QED BY <3>1
  <2>3. /\ r \in NodeRecords(n) /\ r.face = nd.face
        /\ r.tuple_pqueue = nd.tuple_pqueue /\ r.rtuple_pqueue = nd.rtuple_pqueue
    <3>1. PICK p \in Seq(Items(n)) : p = nd.pending \o es
      BY <2>2
    <3>2. r = [nd EXCEPT !.pending = p]
      BY <2>1, <3>1
    <3> QED BY <3>2 DEF NodeRecords
  <2> QED BY <2>3 DEF Times
<1>2. CASE ~thread_mode
  <2>1. timed \in Seq(Timed(n)) /\ DOMAIN timed = DOMAIN es /\ \A i \in DOMAIN timed : timed[i].ts = ts
    <3>1. Len(es) \in Nat /\ DOMAIN es = 1 .. Len(es) /\ \A i \in DOMAIN es : es[i] \in Items(n)
      OBVIOUS
    <3>2. \A i \in DOMAIN es : [tuple |-> es[i].tuple, count |-> es[i].count, ts |-> ts] \in Timed(n)
      BY <3>1 DEF Items, Timed
    <3>3. timed = [i \in 1 .. Len(es) |-> [tuple |-> es[i].tuple, count |-> es[i].count, ts |-> ts]]
      BY <3>1
    <3>4. DOMAIN timed = DOMAIN es /\ \A i \in DOMAIN timed : timed[i].ts = ts
      BY <3>3
    <3>5. \A i \in DOMAIN timed : timed[i] \in Timed(n)
      BY <3>2
    <3>6. timed \in Seq(Timed(n))
      <4>1. timed = [i \in 1 .. Len(es) |-> timed[i]]
        BY <3>3
      <4> HIDE DEF timed
      <4> QED BY <3>1, <3>4, <3>5, <4>1
    <3> QED BY <3>4, <3>6
  <2>2. asserted \in SUBSET DOMAIN timed /\ DOMAIN es \ asserted \in SUBSET DOMAIN timed
    BY <2>1
  <2>3. r = [nd EXCEPT !.tuple_pqueue = nd.tuple_pqueue \o up, !.rtuple_pqueue = nd.rtuple_pqueue \o down]
    BY <1>2 DEF add_received_tuple
  <2> HIDE DEF timed, asserted
  <2>4. /\ up \in Seq(Timed(n)) /\ \A i \in DOMAIN up : up[i].ts = ts
        /\ down \in Seq(Timed(n)) /\ \A i \in DOMAIN down : down[i].ts = ts
    BY <2>1, <2>2, AtPlacesShape
  <2> HIDE DEF up, down
  <2>5. nd.tuple_pqueue \in Seq(Timed(n)) /\ nd.rtuple_pqueue \in Seq(Timed(n))
    BY DEF NodeRecords
  <2>6. nd.tuple_pqueue \o up \in Seq(Timed(n)) /\ nd.rtuple_pqueue \o down \in Seq(Timed(n))
    <3> DEFINE T == Timed(n)
    <3>1. \A p, q \in Seq(T) : p \o q \in Seq(T)
      <4> HIDE DEF T
      <4> QED OBVIOUS
    <3> QED BY <2>4, <2>5, <3>1
  <2>7. /\ r \in NodeRecords(n) /\ r.face = nd.face
        /\ r.tuple_pqueue = nd.tuple_pqueue \o up /\ r.rtuple_pqueue = nd.rtuple_pqueue \o down
    <3>1. PICK p \in Seq(Timed(n)), q \in Seq(Timed(n)) :
            p = nd.tuple_pqueue \o up /\ q = nd.rtuple_pqueue \o down
      BY <2>6
    <3>2. r = [nd EXCEPT !.tuple_pqueue = p, !.rtuple_pqueue = q]
      BY <2>3, <3>1
    <3>3. /\ r \in NodeRecords(n) /\ r.face = nd.face
          /\ r.tuple_pqueue = p /\ r.rtuple_pqueue = q
      BY <3>2 DEF NodeRecords
    <3> QED BY <3>1, <3>3
  <2>8. /\ QueueTimes(r.tuple_pqueue) \subseteq QueueTimes(nd.tuple_pqueue) \cup {ts}
        /\ QueueTimes(r.rtuple_pqueue) \subseteq QueueTimes(nd.rtuple_pqueue) \cup {ts}
    BY <2>4, <2>5, <2>7, AddedTimes
  <2> QED BY <2>7, <2>8 DEF Times
<1> QED BY <1>1, <1>2

\* What is left in a queue is what was there at the places that are left.
LEMMA LeftTimes ==
  ASSUME NEW S, NEW q \in Seq(S), NEW I \in SUBSET DOMAIN q, NEW x \in QueueTimes(AtPlaces(q, I))
  PROVE  \E i \in I : x = q[i].ts
<1>1. PICK k \in DOMAIN AtPlaces(q, I) : x = AtPlaces(q, I)[k].ts
  BY DEF QueueTimes
<1> QED BY <1>1, AtPlacesShape

\* WithoutDue: what is not later than the run waits for something that is.
LEMMA WithoutDueShape ==
  ASSUME NEW n, NEW nd \in NodeRecords(n), NEW until \in Nat, NEW r, r = WithoutDue(nd, until)
  PROVE  /\ r \in NodeRecords(n) /\ r.face = nd.face
         /\ \A x \in Times(r) : \E y \in Times(nd) : x \in Nat /\ y \in Nat /\ x <= y /\ y > until
<1> DEFINE a == nd.tuple_pqueue
           b == nd.rtuple_pqueue
           I == DOMAIN a \ Due(a, until)
           J == DOMAIN b \ RetractionsDue(nd, until)
<1>1. a \in Seq(Timed(n)) /\ b \in Seq(Timed(n))
  BY DEF NodeRecords
<1>2. r = [nd EXCEPT !.tuple_pqueue = AtPlaces(a, I), !.rtuple_pqueue = AtPlaces(b, J)]
  BY DEF WithoutDue
<1>3. /\ \A i \in DOMAIN a : a[i].ts \in Nat /\ a[i].ts \in Times(nd)
      /\ \A i \in DOMAIN b : b[i].ts \in Nat /\ b[i].ts \in Times(nd)
  <2>1. /\ \A i \in DOMAIN a : a[i] \in Timed(n)
        /\ \A i \in DOMAIN b : b[i] \in Timed(n)
    BY <1>1
  <2> QED BY <2>1 DEF Timed, Times, QueueTimes
<1>4. \A i \in I : a[i].ts > until
  BY <1>3 DEF Due
<1>5. \A j \in J : b[j].ts > until \/ \E i \in DOMAIN b : b[i].ts > until
  <2> SUFFICES ASSUME NEW j \in J, b[j].ts <= until PROVE \E i \in DOMAIN b : b[i].ts > until
    BY <1>3
  <2>1. Due(b, until) # DOMAIN b
    BY DEF RetractionsDue, Due
  <2> QED BY <1>3, <2>1 DEF Due
<1>6. I \in SUBSET DOMAIN a /\ J \in SUBSET DOMAIN b
  OBVIOUS
<1> HIDE DEF a, b, I, J
<1>7. AtPlaces(a, I) \in Seq(Timed(n)) /\ AtPlaces(b, J) \in Seq(Timed(n))
  <2> DEFINE T == Timed(n)
  <2>1. AtPlaces(a, I) \in Seq(T)
    <3> HIDE DEF T
    <3> QED BY <1>1, <1>6, AtPlacesShape DEF T
  <2>2. AtPlaces(b, J) \in Seq(T)
    <3> HIDE DEF T
    <3> QED BY <1>1, <1>6, AtPlacesShape DEF T
  <2> QED BY <2>1, <2>2
<1>8. /\ r \in NodeRecords(n) /\ r.face = nd.face
      /\ r.tuple_pqueue = AtPlaces(a, I) /\ r.rtuple_pqueue = AtPlaces(b, J)
  BY <1>2, <1>7 DEF NodeRecords
<1>9. ASSUME NEW x \in QueueTimes(AtPlaces(a, I))
      PROVE  \E y \in Times(nd) : x \in Nat /\ y \in Nat /\ x <= y /\ y > until
  <2>1. PICK i \in I : x = a[i].ts
    BY <1>1, <1>6, LeftTimes
  <2> QED BY <1>3, <1>4, <1>6, <2>1
<1>10. ASSUME NEW x \in QueueTimes(AtPlaces(b, J))
       PROVE  \E y \in Times(nd) : x \in Nat /\ y \in Nat /\ x <= y /\ y > until
  <2>1. PICK j \in J : x = b[j].ts
    BY <1>1, <1>6, LeftTimes
  <2>2. x \in Nat /\ x \in Times(nd)
    BY <1>3, <1>6, <2>1
  <2>3. CASE x > until
    BY <2>2, <2>3
  <2>4. CASE ~(x > until)
    <3>1. PICK i \in DOMAIN b : b[i].ts > until
      BY <1>5, <2>1, <2>4
    <3> QED BY <1>3, <2>2, <2>4, <3>1
  <2> QED BY <2>3, <2>4
<1> QED BY <1>8, <1>9, <1>10 DEF Times

LEMMA ConcatItems ==
  ASSUME NEW n, NEW a \in Seq(Items(n)), NEW b \in Seq(Items(n))
  PROVE  a \o b \in Seq(Items(n))
OBVIOUS

LEMMA SignedNews ==
  ASSUME NEW n
  PROVE  /\ \A out \in Ids \cup {NO_NEIGHBOR}, f \in Faces :
              add_neighbor(out, f, 1) \in Seq(Items(n)) /\ add_neighbor(out, f, -1) \in Seq(Items(n))
         /\ \A k \in Int :
              /\ add_neighbor_count(k, 1) \in Seq(Items(n))
              /\ add_neighbor_count(k, -1) \in Seq(Items(n))
         /\ \A f \in Faces : add_vacant(f, -1) \in Seq(Items(n))
<1>1. 1 \in Int /\ -1 \in Int
  OBVIOUS
<1> QED BY <1>1, NewsTypes, Zenon

LEMMA AddNeighborShape ==
  ASSUME NEW n, NEW nd \in NodeRecords(n), NEW ts \in Nat, NEW out \in Ids, NEW f \in Faces,
         NEW r, r = AddNeighbor(nd, ts, out, f)
  PROVE  /\ r \in NodeRecords(n) /\ r.face = [nd.face EXCEPT ![f] = out]
         /\ Times(r) \subseteq Times(nd) \cup {ts}
<1> DEFINE old == nd.face[f]
           total == nd.neighbor_count
           k == IF old = NO_NEIGHBOR THEN total + 1 ELSE total
           nd1 == [nd EXCEPT !.face[f] = out, !.neighbor_count = k]
           news == IF old = NO_NEIGHBOR
                   THEN add_vacant(f, -1) \o add_neighbor_count(total, -1)
                          \o add_neighbor_count(total + 1, 1) \o add_neighbor(out, f, 1)
                   ELSE IF old # out
                        THEN add_neighbor(old, f, -1) \o add_neighbor(out, f, 1)
                        ELSE <<>>
<1>1. old \in Ids \cup {NO_NEIGHBOR} /\ total \in Int /\ total + 1 \in Int /\ k \in Int
  BY DEF NodeRecords
<1>2. r = IF nd.instantiated THEN add_received_tuple(nd1, ts, news) ELSE nd1
  BY DEF AddNeighbor
<1>3. /\ nd1 \in NodeRecords(n) /\ nd1.face = [nd.face EXCEPT ![f] = out]
      /\ Times(nd1) = Times(nd)
  <2>1. PICK c \in Int : c = k
    BY <1>1
  <2>2. PICK fs \in [Faces -> Ids \cup {NO_NEIGHBOR}] : fs = [nd.face EXCEPT ![f] = out]
    BY DEF NodeRecords
  <2>3. nd1 = [nd EXCEPT !.face = fs, !.neighbor_count = c]
    BY <2>1, <2>2
  <2> HIDE DEF nd1
  <2>4. nd1 \in NodeRecords(n) /\ nd1.face = fs
        /\ nd1.tuple_pqueue = nd.tuple_pqueue /\ nd1.rtuple_pqueue = nd.rtuple_pqueue
    BY <2>1, <2>3 DEF NodeRecords
  <2> QED BY <2>2, <2>4 DEF Times
<1>4. news \in Seq(Items(n))
  <2> HIDE DEF old, total
  <2>1. /\ add_vacant(f, -1) \in Seq(Items(n)) /\ add_neighbor_count(total, -1) \in Seq(Items(n))
        /\ add_neighbor_count(total + 1, 1) \in Seq(Items(n)) /\ add_neighbor(out, f, 1) \in Seq(Items(n))
        /\ add_neighbor(old, f, -1) \in Seq(Items(n))
    BY <1>1, SignedNews
  <2>2. /\ add_vacant(f, -1) \o add_neighbor_count(total, -1)
             \o add_neighbor_count(total + 1, 1) \o add_neighbor(out, f, 1) \in Seq(Items(n))
        /\ add_neighbor(old, f, -1) \o add_neighbor(out, f, 1) \in Seq(Items(n))
    BY <2>1, ConcatItems
  <2>3. <<>> \in Seq(Items(n))
    OBVIOUS
  <2> QED BY <2>2, <2>3, Zenon
<1> HIDE DEF nd1, news
<1>5. CASE nd.instantiated
  BY <1>2, <1>3, <1>4, <1>5, ReceivedShape
<1>6. CASE ~nd.instantiated
  BY <1>2, <1>3, <1>6
<1> QED BY <1>5, <1>6

LEMMA RemoveNeighborShape ==
  ASSUME NEW n, NEW nd \in NodeRecords(n), NEW ts \in Nat, NEW f \in Faces,
         NEW r, r = RemoveNeighbor(nd, ts, f)
  PROVE  /\ r \in NodeRecords(n) /\ r.face = [nd.face EXCEPT ![f] = NO_NEIGHBOR]
         /\ Times(r) \subseteq Times(nd) \cup {ts}
<1> DEFINE total == nd.neighbor_count
           nd1 == [nd EXCEPT !.face[f] = NO_NEIGHBOR, !.neighbor_count = total - 1]
           counts == IF nd.instantiated
                     THEN add_neighbor_count(total, -1) \o add_neighbor_count(total - 1, 1)
                     ELSE <<>>
           news == counts \o add_neighbor(nd.face[f], f, -1)
<1>1. nd.face[f] \in Ids \cup {NO_NEIGHBOR} /\ total \in Int /\ total - 1 \in Int
  BY DEF NodeRecords
<1>2. r = add_received_tuple(nd1, ts, news)
  BY DEF RemoveNeighbor
<1>3. /\ nd1 \in NodeRecords(n) /\ nd1.face = [nd.face EXCEPT ![f] = NO_NEIGHBOR]
      /\ Times(nd1) = Times(nd)
  <2>1. PICK c \in Int : c = total - 1
    BY <1>1
  <2>2. PICK fs \in [Faces -> Ids \cup {NO_NEIGHBOR}] : fs = [nd.face EXCEPT ![f] = NO_NEIGHBOR]
    BY DEF NodeRecords
  <2>3. nd1 = [nd EXCEPT !.face = fs, !.neighbor_count = c]
    BY <2>1, <2>2
  <2> HIDE DEF nd1
  <2>4. nd1 \in NodeRecords(n) /\ nd1.face = fs
        /\ nd1.tuple_pqueue = nd.tuple_pqueue /\ nd1.rtuple_pqueue = nd.rtuple_pqueue
    BY <2>1, <2>3 DEF NodeRecords
  <2> QED BY <2>2, <2>4 DEF Times
<1>4. news \in Seq(Items(n))
  <2> HIDE DEF total
  <2>1. /\ add_neighbor_count(total, -1) \in Seq(Items(n))
        /\ add_neighbor_count(total - 1, 1) \in Seq(Items(n))
        /\ add_neighbor(nd.face[f], f, -1) \in Seq(Items(n))
    BY <1>1, SignedNews
  <2>2. add_neighbor_count(total, -1) \o add_neighbor_count(total - 1, 1) \in Seq(Items(n))
    BY <2>1, ConcatItems
  <2>3. <<>> \in Seq(Items(n))
    OBVIOUS
  <2>4. counts \in Seq(Items(n))
    BY <2>2, <2>3, Zenon
  <2> QED BY <2>1, <2>4, ConcatItems
<1> HIDE DEF nd1, news
<1> QED BY <1>2, <1>3, <1>4, ReceivedShape

(***************************************************************************)
(* Steps of the VM that read no message: the faces stay, and what waits has *)
(* a time that was waited for before.                                       *)
(***************************************************************************)
\* A time in the queues of node n is one that was there, or waits for one that
\* was there; and, when a run of n ends, for one that the run did not reach.
Aged(n, x) ==
  \E y \in Times(node[n]) :
    x <= y /\ (vmpc = "run" /\ n = current_node => vmpc' = "run" \/ sim_instr_limit < y)

\* What the VM does to the nodes in a step that reads no message.
NodesKept ==
  /\ RecordInv'
  /\ DOMAIN node' = DOMAIN node
  /\ \A n \in DOMAIN node : node'[n].face = node[n].face
  /\ ~thread_mode => \A n \in DOMAIN node : \A x \in Times(node'[n]) : Aged(n, x)

LEMMA TimesNat ==
  ASSUME NEW n, NEW nd \in NodeRecords(n), NEW x \in Times(nd) PROVE x \in Nat
<1>1. nd.tuple_pqueue \in Seq(Timed(n)) /\ nd.rtuple_pqueue \in Seq(Timed(n))
  BY DEF NodeRecords
<1>2. /\ \A i \in DOMAIN nd.tuple_pqueue : nd.tuple_pqueue[i] \in Timed(n)
      /\ \A i \in DOMAIN nd.rtuple_pqueue : nd.rtuple_pqueue[i] \in Timed(n)
  BY <1>1
<1> QED BY <1>2 DEF Times, QueueTimes, Timed

LEMMA SameTimesAged ==
  ASSUME RecordInv, NEW n \in DOMAIN node, NEW x \in Times(node[n]), vmpc = "run" => vmpc' = "run"
  PROVE  Aged(n, x)
<1>1. x \in Nat
  BY TimesNat DEF RecordInv
<1> QED BY <1>1 DEF Aged

\* The nodes are left alone.
LEMMA NodesAlone ==
  ASSUME RecordInv, UNCHANGED <<node, gathered>>, vmpc = "run" => vmpc' = "run",
         DOMAIN slave' = Ids, \A n \in Ids : slave'[n] = "none" \/ slave[n] # "none"
  PROVE  NodesKept
<1>1. RecordInv'
  BY DEF RecordInv
<1>2. \A n \in DOMAIN node : \A x \in Times(node'[n]) : Aged(n, x)
  BY SameTimesAged
<1> QED BY <1>1, <1>2 DEF NodesKept

LEMMA SlavesAlone ==
  ASSUME RecordInv, UNCHANGED slave
  PROVE  DOMAIN slave' = Ids /\ \A n \in Ids : slave'[n] = "none" \/ slave[n] # "none"
BY DEF RecordInv

\* One node is replaced.
LEMMA NodeReplaced ==
  ASSUME RecordInv, NEW k \in DOMAIN node, NEW r \in NodeRecords(k),
         node' = [node EXCEPT ![k] = r], UNCHANGED slaveVars
  PROVE  RecordInv'
<1>1. DOMAIN node' = DOMAIN node /\ \A n \in DOMAIN node : node'[n] = IF n = k THEN r ELSE node[n]
  OBVIOUS
<1>2. \A n \in DOMAIN node' : node'[n] \in NodeRecords(n)
  BY <1>1 DEF RecordInv
<1> QED BY <1>1, <1>2 DEF RecordInv, slaveVars

LEMMA AfterStopNodes == ASSUME RecordInv, AfterStop PROVE NodesKept
<1>1. UNCHANGED <<node, gathered, slave>> /\ vmpc # "run"
  BY DEF AfterStop, slaveVars
<1> QED BY <1>1, NodesAlone, SlavesAlone

LEMMA SendPendingNodes == ASSUME RecordInv, send_pending_messages PROVE NodesKept
<1>1. UNCHANGED <<node, gathered, slave>> /\ vmpc # "run"
  BY DEF send_pending_messages, slaveVars, Idle
<1> QED BY <1>1, NodesAlone, SlavesAlone

LEMMA DelayedNodes == ASSUME RecordInv, check_delayed_queue PROVE NodesKept
<1>1. UNCHANGED <<node, gathered, slave>> /\ vmpc # "run"
  BY DEF check_delayed_queue, slaveVars, Idle
<1> QED BY <1>1, NodesAlone, SlavesAlone

LEMMA TickNodes == ASSUME RecordInv, Tick PROVE NodesKept
<1>1. UNCHANGED <<node, gathered, slave, vmpc>>
  BY DEF Tick, slaveVars, masterVars
<1> QED BY <1>1, NodesAlone, SlavesAlone

LEMMA SlaveEndNodes == ASSUME RecordInv, NEW n \in Ids, SlaveEnd(n) PROVE NodesKept
<1>1. UNCHANGED <<node, gathered, vmpc>> /\ slave' = [slave EXCEPT ![n] = "end"] /\ slave[n] = "wait"
  BY DEF SlaveEnd, masterVars
<1>2. DOMAIN slave' = Ids /\ \A k \in Ids : slave'[k] = "none" \/ slave[k] # "none"
  BY <1>1 DEF RecordInv
<1> QED BY <1>1, <1>2, NodesAlone

LEMMA InstantiateNodes == ASSUME RecordInv, instantiate_all_nodes PROVE NodesKept
<1> DEFINE start(n) == [node[n] EXCEPT !.instantiated = TRUE]
           news(n) == add_neighbor_count(node[n].neighbor_count, 1) \o FaceFacts(node[n].face)
<1>1. /\ thread_mode /\ UNCHANGED slaveVars
      /\ DOMAIN node' = DOMAIN node
      /\ \A n \in DOMAIN node : node'[n] = add_received_tuple(start(n), 0, news(n))
  BY Zenon DEF instantiate_all_nodes
<1>2. ASSUME NEW n \in DOMAIN node
      PROVE  node'[n] \in NodeRecords(n) /\ node'[n].face = node[n].face
  <2>1. node[n] \in NodeRecords(n)
    BY DEF RecordInv
  <2>2. start(n) \in NodeRecords(n) /\ start(n).face = node[n].face
    BY <2>1 DEF NodeRecords
  <2>3. news(n) \in Seq(Items(n))
    <3>1. node[n].neighbor_count \in Int /\ node[n].face \in [Faces -> Ids \cup {NO_NEIGHBOR}]
      BY <2>1 DEF NodeRecords
    <3>2. add_neighbor_count(node[n].neighbor_count, 1) \in Seq(Items(n))
      BY <3>1, SignedNews
    <3>3. FaceFacts(node[n].face) \in Seq(Items(n))
      BY <3>1, FaceFactsTypes
    <3> QED BY <3>2, <3>3, ConcatItems
  <2>4. node'[n] = add_received_tuple(start(n), 0, news(n)) /\ 0 \in Nat
    BY <1>1
  <2> HIDE DEF start, news
  <2>5. PICK nd \in NodeRecords(n) : nd = start(n)
    BY <2>2
  <2>6. PICK es \in Seq(Items(n)) : es = news(n)
    BY <2>3
  <2>7. PICK r : r = node'[n]
    OBVIOUS
  <2>8. r = add_received_tuple(nd, 0, es)
    BY <2>4, <2>5, <2>6, <2>7
  <2>9. r \in NodeRecords(n) /\ r.face = nd.face
    BY <2>4, <2>8, ReceivedShape
  <2> QED BY <2>2, <2>5, <2>7, <2>9
<1>3. RecordInv'
  BY <1>1, <1>2 DEF RecordInv, slaveVars
<1> QED BY <1>1, <1>2, <1>3 DEF NodesKept

LEMMA ReportNodes ==
  ASSUME IInv, RecordInv, handle_deterministic_computation PROVE NodesKept
<1>1. /\ vmpc = "sent" /\ node' = [node EXCEPT ![current_node].timestamp = sim_instr_counter]
      /\ UNCHANGED slaveVars
  BY Zenon DEF handle_deterministic_computation
<1>2. current_node \in DOMAIN node /\ sim_instr_counter \in Nat
  BY <1>1 DEF IInv, CreateInv, Running, WorkTypes
<1> DEFINE r == [node[current_node] EXCEPT !.timestamp = sim_instr_counter]
<1>3. node[current_node] \in NodeRecords(current_node)
  BY <1>2 DEF RecordInv
<1>4. /\ r \in NodeRecords(current_node) /\ r.face = node[current_node].face
      /\ r.tuple_pqueue = node[current_node].tuple_pqueue
      /\ r.rtuple_pqueue = node[current_node].rtuple_pqueue
  BY <1>2, <1>3 DEF NodeRecords
<1>5. node' = [node EXCEPT ![current_node] = r]
  BY <1>1
<1> HIDE DEF r
<1>6. RecordInv'
  BY <1>1, <1>2, <1>4, <1>5, NodeReplaced
<1>7. /\ DOMAIN node' = DOMAIN node
      /\ \A n \in DOMAIN node : node'[n].face = node[n].face /\ Times(node'[n]) = Times(node[n])
  BY <1>4, <1>5 DEF Times
<1>8. \A n \in DOMAIN node : \A x \in Times(node'[n]) : Aged(n, x)
  BY <1>1, <1>7, SameTimesAged
<1> QED BY <1>6, <1>7, <1>8 DEF NodesKept

LEMMA SlaveGetWorkNodes == ASSUME RecordInv, NEW n \in Ids, SlaveGetWork(n) PROVE NodesKept
<1> DEFINE late == IF Overdue(node[n].delay_queue) THEN node[n].delay_queue ELSE <<>>
           tuples == [i \in DOMAIN late |-> STuple(<<"sent", n, "delayed", n>>, 1)]
           left == IF late = <<>> THEN node[n].delay_queue ELSE <<>>
           r == [node[n] EXCEPT !.pending = <<>>, !.delay_queue = left]
<1>1. /\ slave[n] = "wait" /\ slave' = [slave EXCEPT ![n] = "run"]
      /\ gathered' = [gathered EXCEPT ![n] = node[n].pending \o tuples]
      /\ UNCHANGED vmpc
  BY DEF SlaveGetWork, masterVars
<1>2. node' = [node EXCEPT ![n] = r]
  BY DEF SlaveGetWork
<1>3. DOMAIN node = Ids /\ node[n] \in NodeRecords(n)
  BY <1>1 DEF RecordInv
<1>4. node[n].pending \in Seq(Items(n)) /\ node[n].delay_queue \in Seq([due : Nat])
  BY <1>3 DEF NodeRecords
<1>5. late \in Seq([due : Nat]) /\ left \in Seq([due : Nat])
  BY <1>4
<1>6. tuples \in Seq(Items(n))
  <2> HIDE DEF late
  <2>1. Len(late) \in Nat /\ DOMAIN late = 1 .. Len(late)
    BY <1>5
  <2>2. <<"sent", n, "delayed", n>> \in TuplesFor(n)
    BY DEF TuplesFor
  <2>3. STuple(<<"sent", n, "delayed", n>>, 1) \in Items(n)
    BY <2>2, ItemTypes
  <2> QED BY <2>1, <2>3
<1> HIDE DEF late, tuples, left
<1>7. gathered'[n] \in Seq(Items(n)) /\ DOMAIN gathered' = Ids
      /\ \A k \in Ids : k # n => gathered'[k] = gathered[k]
  <2>1. node[n].pending \o tuples \in Seq(Items(n))
    BY <1>4, <1>6, ConcatItems
  <2> QED BY <1>1, <2>1 DEF RecordInv
<1>8. /\ r \in NodeRecords(n) /\ r.face = node[n].face
      /\ r.tuple_pqueue = node[n].tuple_pqueue /\ r.rtuple_pqueue = node[n].rtuple_pqueue
  <2>1. PICK p \in Seq(Items(n)) : p = <<>>
    <3>1. <<>> \in Seq(Items(n))
      OBVIOUS
    <3> QED BY <3>1
  <2>2. PICK d \in Seq([due : Nat]) : d = left
    BY <1>5
  <2>3. r = [node[n] EXCEPT !.pending = p, !.delay_queue = d]
    BY <2>1, <2>2
  <2> HIDE DEF r
  <2> QED BY <1>3, <2>3 DEF NodeRecords
<1> HIDE DEF r
<1>9. /\ DOMAIN node' = DOMAIN node
      /\ \A k \in DOMAIN node : /\ node'[k] \in NodeRecords(k) /\ node'[k].face = node[k].face
                                /\ Times(node'[k]) = Times(node[k])
  BY <1>2, <1>3, <1>8 DEF Times, RecordInv
<1>10. RecordInv'
  <2>1. DOMAIN slave' = Ids
    BY <1>1 DEF RecordInv
  <2> QED BY <1>3, <1>7, <1>9, <2>1 DEF RecordInv
<1>11. \A k \in DOMAIN node : \A x \in Times(node'[k]) : Aged(k, x)
  BY <1>1, <1>9, SameTimesAged
<1> QED BY <1>9, <1>10, <1>11 DEF NodesKept

LEMMA SlaveRunNodes == ASSUME IInv, RecordInv, NEW n \in Ids, SlaveRun(n) PROVE NodesKept
<1> DEFINE known == Processed(facts[n], gathered[n])
<1>1. PICK out \in ProgramOutputs(known, n) :
        node' = CASE out.kind = "send" ->
                       [node EXCEPT ![out.to].pending =
                          Append(@, STuple(<<"sent", out.to, "run", out.to>>, 1))]
                  [] out.kind = "delay" ->
                       [node EXCEPT ![out.to].delay_queue = Append(@, [due |-> out.due])]
                  [] OTHER -> node
  BY Zenon DEF SlaveRun
<1> HIDE DEF known
<1>2. /\ slave[n] = "run" /\ slave' = [slave EXCEPT ![n] = "wait"]
      /\ gathered' = [gathered EXCEPT ![n] = <<>>] /\ UNCHANGED vmpc
  BY DEF SlaveRun, masterVars
<1>3. /\ out.kind = "send" => out.to \in Ids
      /\ out.kind = "delay" => out.to \in Ids /\ out.due \in Nat
  BY <1>1, OutputTypes DEF IInv, WorkTypes
<1>4. DOMAIN node = Ids /\ \A k \in Ids : node[k] \in NodeRecords(k)
  BY <1>2 DEF RecordInv
<1> DEFINE Kept == /\ DOMAIN node' = DOMAIN node
                   /\ \A k \in DOMAIN node :
                        /\ node'[k] \in NodeRecords(k) /\ node'[k].face = node[k].face
                        /\ Times(node'[k]) = Times(node[k])
<1>5. ASSUME out.kind = "send" PROVE Kept
  <2> DEFINE to == out.to
             r == [node[to] EXCEPT !.pending =
                     Append(node[to].pending, STuple(<<"sent", to, "run", to>>, 1))]
  <2>1. to \in Ids /\ node[to] \in NodeRecords(to) /\ node' = [node EXCEPT ![to] = r]
    BY <1>1, <1>3, <1>4, <1>5, Zenon
  <2> HIDE DEF to
  <2>2. STuple(<<"sent", to, "run", to>>, 1) \in Items(to)
    <3>1. <<"sent", to, "run", to>> \in TuplesFor(to)
      BY <2>1 DEF TuplesFor
    <3> QED BY <3>1, ItemTypes
  <2>3. PICK p \in Seq(Items(to)) : p = Append(node[to].pending, STuple(<<"sent", to, "run", to>>, 1))
    <3>1. node[to].pending \in Seq(Items(to))
      BY <2>1 DEF NodeRecords
    <3>2. Append(node[to].pending, STuple(<<"sent", to, "run", to>>, 1)) \in Seq(Items(to))
      BY <2>2, <3>1, AppendMember
    <3> QED BY <3>2
  <2>4. r = [node[to] EXCEPT !.pending = p]
    BY <2>3
  <2> HIDE DEF r
  <2>5. /\ r \in NodeRecords(to) /\ r.face = node[to].face
        /\ r.tuple_pqueue = node[to].tuple_pqueue /\ r.rtuple_pqueue = node[to].rtuple_pqueue
    BY <2>1, <2>4 DEF NodeRecords
  <2>6. Times(r) = Times(node[to])
    BY <2>5 DEF Times
  <2>7. Kept
    BY <1>4, <2>1, <2>5, <2>6
  <2> HIDE DEF Kept
  <2> QED BY <2>7
<1>6. ASSUME out.kind = "delay" PROVE Kept
  <2> DEFINE to == out.to
             r == [node[to] EXCEPT !.delay_queue =
                     Append(node[to].delay_queue, [due |-> out.due])]
  <2>0. out.kind # "send"
    BY <1>6
  <2>1. to \in Ids /\ node[to] \in NodeRecords(to) /\ node' = [node EXCEPT ![to] = r]
    BY <1>1, <1>3, <1>4, <1>6, <2>0, Zenon
  <2>2. PICK p \in Seq([due : Nat]) : p = Append(node[to].delay_queue, [due |-> out.due])
    <3>1. node[to].delay_queue \in Seq([due : Nat])
      BY <2>1 DEF NodeRecords
    <3>2. [due |-> out.due] \in [due : Nat]
      BY <1>3, <1>6
    <3>3. Append(node[to].delay_queue, [due |-> out.due]) \in Seq([due : Nat])
      BY <3>1, <3>2, AppendMember
    <3> QED BY <3>3
  <2> HIDE DEF to
  <2>3. r = [node[to] EXCEPT !.delay_queue = p]
    BY <2>2
  <2> HIDE DEF r
  <2>4. /\ r \in NodeRecords(to) /\ r.face = node[to].face
        /\ r.tuple_pqueue = node[to].tuple_pqueue /\ r.rtuple_pqueue = node[to].rtuple_pqueue
    BY <2>1, <2>3 DEF NodeRecords
  <2>5. Times(r) = Times(node[to])
    BY <2>4 DEF Times
  <2>6. Kept
    BY <1>4, <2>1, <2>4, <2>5
  <2> HIDE DEF Kept
  <2> QED BY <2>6
<1>7. ASSUME out.kind # "send", out.kind # "delay" PROVE Kept
  <2>1. node' = node
    BY <1>1, <1>7, Zenon
  <2>2. Kept
    BY <1>4, <2>1
  <2> HIDE DEF Kept
  <2> QED BY <2>2
<1>8. Kept
  <2> HIDE DEF Kept
  <2> QED BY <1>5, <1>6, <1>7
<1>9. RecordInv'
  <2>1. DOMAIN slave' = Ids /\ DOMAIN gathered' = Ids
    BY <1>2 DEF RecordInv
  <2>2. \A k \in Ids : gathered'[k] \in Seq(Items(k))
    <3>1. <<>> \in Seq(Items(n))
      OBVIOUS
    <3> QED BY <1>2, <3>1 DEF RecordInv
  <2> QED BY <1>4, <1>8, <2>1, <2>2 DEF RecordInv
<1>10. \A k \in DOMAIN node : \A x \in Times(node'[k]) : Aged(k, x)
  BY <1>2, <1>8, SameTimesAged
<1> HIDE DEF Kept
<1> QED BY <1>8, <1>9, <1>10 DEF NodesKept, Kept

\* The tuples of a run.
LEMMA RunTuples ==
  ASSUME NEW n, NEW nd \in NodeRecords(n), NEW until \in Nat,
         NEW ls, ls = nd.pending \o get_tuples_until_timestamp(nd, until)
  PROVE  ls \in Seq(Items(n) \cup Timed(n))
<1> DEFINE I == Due(nd.tuple_pqueue, until)
           J == RetractionsDue(nd, until)
           T == Items(n) \cup Timed(n)
           up == InHeapOrder(nd.tuple_pqueue, I, TRUE)
           down == InHeapOrder(nd.rtuple_pqueue, J, nd.rascending)
<1>1. /\ nd.tuple_pqueue \in Seq(Timed(n)) /\ nd.rtuple_pqueue \in Seq(Timed(n))
      /\ nd.pending \in Seq(Items(n))
  BY DEF NodeRecords
<1>2. I \in SUBSET DOMAIN nd.tuple_pqueue /\ J \in SUBSET DOMAIN nd.rtuple_pqueue
  BY DEF Due, RetractionsDue
<1> HIDE DEF I, J
<1>3. up \in Seq(Timed(n)) /\ down \in Seq(Timed(n))
  <2>1. /\ \A i \in DOMAIN nd.tuple_pqueue : nd.tuple_pqueue[i].ts \in Nat
        /\ \A i \in DOMAIN nd.rtuple_pqueue : nd.rtuple_pqueue[i].ts \in Nat
        /\ nd.rascending \in BOOLEAN
    <3>1. /\ \A i \in DOMAIN nd.tuple_pqueue : nd.tuple_pqueue[i] \in Timed(n)
          /\ \A i \in DOMAIN nd.rtuple_pqueue : nd.rtuple_pqueue[i] \in Timed(n)
      BY <1>1
    <3> QED BY <3>1 DEF Timed, NodeRecords
  <2> QED BY <1>1, <1>2, <2>1, HeapOrderShape
<1> HIDE DEF up, down
<1>4. nd.pending \in Seq(T) /\ up \in Seq(T) /\ down \in Seq(T)
  <2>1. \A q \in Seq(Timed(n)) : q \in Seq(T)
    OBVIOUS
  <2>2. \A q \in Seq(Items(n)) : q \in Seq(T)
    OBVIOUS
  <2> QED BY <1>1, <1>3, <2>1, <2>2
<1>5. \A p, q \in Seq(T) : p \o q \in Seq(T)
  <2> HIDE DEF T
  <2> QED OBVIOUS
<1>6. get_tuples_until_timestamp(nd, until) = up \o down
  BY DEF get_tuples_until_timestamp, I, J, up, down
<1> HIDE DEF T
<1> QED BY <1>4, <1>5, <1>6 DEF T

LEMMA SliceShape ==
  ASSUME NEW S, NEW s \in Seq(S), NEW k \in 0 .. Len(s)
  PROVE  SubSeq(s, k + 1, Len(s)) \in Seq(S)
OBVIOUS

LEMMA RunNodes == ASSUME IInv, RecordInv, RunCurrentNode PROVE NodesKept
<1> DEFINE n == current_node
           nd == node[n]
           ls == nd.pending \o get_tuples_until_timestamp(nd, sim_instr_limit)
<1>1. PICK k \in 0 .. Len(ls) :
        node' = [node EXCEPT ![n] =
                  [WithoutDue(nd, sim_instr_limit) EXCEPT !.pending =
                    [i \in DOMAIN SubSeq(ls, k + 1, Len(ls)) |->
                       STuple(SubSeq(ls, k + 1, Len(ls))[i].tuple, SubSeq(ls, k + 1, Len(ls))[i].count)]]]
  BY Zenon DEF RunCurrentNode
<1>2. vmpc = "run" /\ vmpc' = "sent" /\ UNCHANGED slaveVars
  BY DEF RunCurrentNode
<1>3. n \in DOMAIN node /\ sim_instr_limit \in Nat /\ nd \in NodeRecords(n)
  BY <1>2 DEF IInv, CreateInv, Running, WorkTypes, RecordInv
<1> DEFINE rest == SubSeq(ls, k + 1, Len(ls))
           pending == [i \in DOMAIN rest |-> STuple(rest[i].tuple, rest[i].count)]
           r == [WithoutDue(nd, sim_instr_limit) EXCEPT !.pending = pending]
<1>4. ls \in Seq(Items(n) \cup Timed(n))
  <2> HIDE DEF nd
  <2> QED BY <1>3, RunTuples
<1>5. rest \in Seq(Items(n) \cup Timed(n))
  <2> HIDE DEF ls
  <2> QED BY <1>4, SliceShape
<1>6. pending \in Seq(Items(n))
  <2> HIDE DEF rest
  <2>1. DOMAIN rest = 1 .. Len(rest) /\ Len(rest) \in Nat
        /\ \A i \in DOMAIN rest : rest[i] \in Items(n) \cup Timed(n)
    BY <1>5
  <2>2. \A i \in DOMAIN rest : STuple(rest[i].tuple, rest[i].count) \in Items(n)
    BY <2>1 DEF STuple, Items, Timed
  <2>3. pending = [i \in 1 .. Len(rest) |-> STuple(rest[i].tuple, rest[i].count)]
    BY <2>1
  <2> HIDE DEF pending
  <2> QED BY <2>1, <2>2, <2>3
<1> HIDE DEF pending
<1>7. PICK w \in NodeRecords(n) :
        /\ w = WithoutDue(nd, sim_instr_limit) /\ w.face = nd.face
        /\ \A x \in Times(w) : \E y \in Times(nd) :
             x \in Nat /\ y \in Nat /\ x <= y /\ y > sim_instr_limit
  <2> HIDE DEF nd
  <2> QED BY <1>3, WithoutDueShape
<1>8. /\ r \in NodeRecords(n) /\ r.face = nd.face
      /\ r.tuple_pqueue = w.tuple_pqueue /\ r.rtuple_pqueue = w.rtuple_pqueue
  <2>1. r = [w EXCEPT !.pending = pending]
    BY <1>7
  <2> HIDE DEF r
  <2> QED BY <1>6, <1>7, <2>1 DEF NodeRecords
<1>9. node' = [node EXCEPT ![n] = r]
  BY <1>1 DEF pending
<1> HIDE DEF r
<1>10. RecordInv'
  BY <1>2, <1>3, <1>8, <1>9, NodeReplaced
<1>11. /\ DOMAIN node' = DOMAIN node
       /\ \A m \in DOMAIN node : node'[m].face = node[m].face
       /\ \A m \in DOMAIN node : m # n => node'[m] = node[m]
       /\ Times(node'[n]) = Times(w)
  BY <1>3, <1>8, <1>9 DEF Times
<1>12. ASSUME NEW m \in DOMAIN node, NEW x \in Times(node'[m]) PROVE Aged(m, x)
  <2>1. CASE m = n
    <3>1. PICK y \in Times(nd) : x \in Nat /\ y \in Nat /\ x <= y /\ y > sim_instr_limit
      BY <1>7, <1>11, <1>12, <2>1
    <3>2. sim_instr_limit < y
      BY <1>3, <3>1
    <3> QED BY <2>1, <3>1, <3>2 DEF Aged
  <2>2. CASE m # n
    <3>1. x \in Times(node[m])
      BY <1>11, <1>12, <2>2
    <3>2. x \in Nat
      BY <3>1, TimesNat DEF RecordInv
    <3> QED BY <2>2, <3>1, <3>2 DEF Aged
  <2> QED BY <2>1, <2>2
<1> QED BY <1>10, <1>11, <1>12 DEF NodesKept

(***************************************************************************)
(* Steps of the VM that read a message: the faces change as the message     *)
(* says, and what is queued has the time of the message.                    *)
(***************************************************************************)
\* The message m puts something of time x into the queues of node n.
Brings(m, n, x) ==
  /\ x = m.ts
  /\ \/ m.type \in {"ADD_NEIGHBOR", "REMOVE_NEIGHBOR", "TAP", "ACCEL", "SHAKE"} /\ n = m.node
     \/ m.type = "CREATE_N_NODES"
     \/ m.type = "RECEIVE_MESSAGE" /\ n = Leads(m, node)

\* What the VM does to the nodes when it reads the first message.
NodesRead ==
  /\ RecordInv'
  /\ DOMAIN node' = IF toVM[1].type = "CREATE_N_NODES" THEN Ids ELSE DOMAIN node
  /\ \A n \in Ids, f \in Faces :
       Known(n, f)' = IF Changes(toVM[1], n, f) THEN Put(toVM[1]) ELSE Known(n, f)
  /\ \A n \in DOMAIN node' : \A x \in Times(node'[n]) :
       (n \in DOMAIN node /\ x \in Times(node[n])) \/ Brings(toVM[1], n, x)

LEMMA HeadRead ==
  ASSUME IInv, NEW type, ReadMessage(type)
  PROVE  toVM # <<>> /\ Head0 = toVM[1] /\ toVM[1] \in VMMessages /\ toVM[1].type = type
         /\ 1 \in DOMAIN toVM
BY TailShape DEF IInv, ChannelTypes, ReadMessage, Head0

\* Messages are what their types say.
LEMMA MessageTypes ==
  ASSUME NEW m \in VMMessages
  PROVE  /\ m.type = "RUN_NODE" => m \in Orders
         /\ m.type = "RECEIVE_MESSAGE" => m \in Receipts
         /\ m.type \in {"USE_THREADS", "CREATE_N_NODES", "STOP"} => m \in Notices
         /\ m.type \in {"TAP", "ACCEL", "SHAKE"} => m \in Touches
         /\ m.type = "ADD_NEIGHBOR" => m \in Additions
         /\ m.type = "REMOVE_NEIGHBOR" => m \in Removals
BY DEF VMMessages, Orders, Receipts, Notices, Touches, Additions, Removals

\* The nodes are there when anything but the first two messages is read.
LEMMA NodesThere ==
  ASSUME IInv, FirstInv, toVM # <<>>, 1 \in DOMAIN toVM,
         toVM[1].type \notin {"USE_THREADS", "CREATE_N_NODES"}
  PROVE  DOMAIN node = Ids
<1>1. simpc # "start"
  BY DEF IInv, CreateInv
<1>2. ASSUME DOMAIN node = {} PROVE FALSE
  <2>1. PICK j \in DOMAIN toVM :
          /\ toVM[j].type = "CREATE_N_NODES"
          /\ \A i \in DOMAIN toVM : i < j => toVM[i].type = "USE_THREADS"
    BY <1>1, <1>2 DEF FirstInv
  <2>2. toVM \in Seq(VMMessages)
    BY DEF IInv, ChannelTypes
  <2>3. j = 1 \/ 1 < j
    BY <2>1, <2>2
  <2> QED BY <2>1, <2>3
<1> QED BY <1>2 DEF IInv, NodeTypes

LEMMA NodesIgnore ==
  ASSUME RecordInv, UNCHANGED <<node, slaveVars>>, toVM[1].type # "CREATE_N_NODES",
         \A n \in Ids, f \in Faces : Changes(toVM[1], n, f) => Put(toVM[1]) = Known(n, f)
  PROVE  NodesRead
<1>1. RecordInv'
  BY DEF RecordInv, slaveVars
<1>2. \A n \in Ids, f \in Faces : Known(n, f)' = Known(n, f)
  BY DEF Known
<1> QED BY <1>1, <1>2 DEF NodesRead

LEMMA NodeTold ==
  ASSUME RecordInv, NEW k \in DOMAIN node, NEW r \in NodeRecords(k),
         node' = [node EXCEPT ![k] = r], UNCHANGED slaveVars,
         toVM[1].type # "CREATE_N_NODES",
         Times(r) \subseteq Times(node[k]) \cup {toVM[1].ts}, Brings(toVM[1], k, toVM[1].ts),
         \A f \in Faces : r.face[f] = IF Changes(toVM[1], k, f) THEN Put(toVM[1]) ELSE node[k].face[f],
         \A n \in Ids, f \in Faces : Changes(toVM[1], n, f) => n = k
  PROVE  NodesRead
<1>1. RecordInv'
  BY NodeReplaced
<1>2. DOMAIN node' = DOMAIN node /\ \A n \in DOMAIN node : node'[n] = IF n = k THEN r ELSE node[n]
  OBVIOUS
<1>3. ASSUME NEW n \in Ids, NEW f \in Faces
      PROVE  Known(n, f)' = IF Changes(toVM[1], n, f) THEN Put(toVM[1]) ELSE Known(n, f)
  BY <1>2 DEF Known
<1>4. ASSUME NEW n \in DOMAIN node', NEW x \in Times(node'[n])
      PROVE  (n \in DOMAIN node /\ x \in Times(node[n])) \/ Brings(toVM[1], n, x)
  <2>1. CASE n = k
    BY <1>2, <1>4, <2>1
  <2>2. CASE n # k
    BY <1>2, <1>4, <2>2
  <2> QED BY <2>1, <2>2
<1> QED BY <1>1, <1>2, <1>3, <1>4 DEF NodesRead

LEMMA UseThreadsNodes == ASSUME IInv, RecordInv, use_threads PROVE NodesRead
<1>1. toVM[1].type = "USE_THREADS" /\ UNCHANGED <<node, slaveVars>>
  BY HeadRead DEF use_threads
<1> QED BY <1>1, NodesIgnore DEF Changes

LEMMA StopNodes == ASSUME IInv, RecordInv, HandleStop PROVE NodesRead
<1>1. toVM[1].type = "STOP" /\ UNCHANGED <<node, slaveVars>>
  BY HeadRead DEF HandleStop
<1> QED BY <1>1, NodesIgnore DEF Changes

LEMMA OrderNodes == ASSUME IInv, RecordInv, handle_run_node PROVE NodesRead
<1>1. toVM[1].type = "RUN_NODE" /\ UNCHANGED <<node, slaveVars>>
  BY HeadRead DEF handle_run_node
<1> QED BY <1>1, NodesIgnore DEF Changes

LEMMA SensedNodes ==
  ASSUME IInv, RecordInv, FirstInv, NEW type \in {"TAP", "ACCEL", "SHAKE"}, NEW tuple \in Told,
         Sensed(type, tuple)
  PROVE  NodesRead
<1> DEFINE m == toVM[1]
<1>1. /\ Head0 = m /\ m \in VMMessages /\ m.type = type /\ toVM # <<>> /\ 1 \in DOMAIN toVM
  BY HeadRead DEF Sensed
<1>2. /\ node' = [node EXCEPT ![m.node] = add_received_tuple(node[m.node], m.ts, IfDeclared(tuple, 1))]
      /\ UNCHANGED slaveVars
  BY <1>1 DEF Sensed
<1>3. m.node \in Ids /\ m.ts \in Nat
  BY <1>1, MessageTypes DEF Touches
<1>4. DOMAIN node = Ids
  BY <1>1, NodesThere
<1> HIDE DEF m
<1>5. PICK k \in DOMAIN node : k = m.node
  BY <1>3, <1>4
<1>6. node[k] \in NodeRecords(k) /\ IfDeclared(tuple, 1) \in Seq(Items(k))
  <2>1. 1 \in Int
    OBVIOUS
  <2> QED BY <2>1, NewsTypes DEF RecordInv
<1>7. PICK r : r = add_received_tuple(node[k], m.ts, IfDeclared(tuple, 1))
  OBVIOUS
<1>8. r \in NodeRecords(k) /\ r.face = node[k].face /\ Times(r) \subseteq Times(node[k]) \cup {m.ts}
  BY <1>3, <1>6, <1>7, ReceivedShape
<1>9. node' = [node EXCEPT ![k] = r]
  BY <1>2, <1>5, <1>7
<1>10. /\ m.type # "CREATE_N_NODES" /\ Brings(m, k, m.ts)
       /\ \A n, f : ~Changes(m, n, f)
  BY <1>1, <1>5 DEF Brings, Changes
<1> QED BY <1>2, <1>8, <1>9, <1>10, NodeTold DEF m

LEMMA AddNodes ==
  ASSUME IInv, RecordInv, FirstInv, handle_add_neighbor PROVE NodesRead
<1> DEFINE m == toVM[1]
<1>1. /\ Head0 = m /\ m \in VMMessages /\ m.type = "ADD_NEIGHBOR" /\ toVM # <<>> /\ 1 \in DOMAIN toVM
  BY HeadRead DEF handle_add_neighbor
<1>2. /\ node' = [node EXCEPT ![m.node] = AddNeighbor(node[m.node], m.ts, m.out, m.face)]
      /\ UNCHANGED slaveVars
  BY <1>1 DEF handle_add_neighbor
<1>3. m.node \in Ids /\ m.ts \in Nat /\ m.out \in Ids /\ m.face \in Faces
  BY <1>1, MessageTypes DEF Additions
<1>4. DOMAIN node = Ids
  BY <1>1, NodesThere
<1> HIDE DEF m
<1>5. PICK k \in DOMAIN node : k = m.node
  BY <1>3, <1>4
<1>6. node[k] \in NodeRecords(k)
  BY DEF RecordInv
<1>7. PICK r : r = AddNeighbor(node[k], m.ts, m.out, m.face)
  OBVIOUS
<1>8. /\ r \in NodeRecords(k) /\ r.face = [node[k].face EXCEPT ![m.face] = m.out]
      /\ Times(r) \subseteq Times(node[k]) \cup {m.ts}
  <2>1. PICK ts \in Nat, out \in Ids, f \in Faces : ts = m.ts /\ out = m.out /\ f = m.face
    BY <1>3
  <2>2. r = AddNeighbor(node[k], ts, out, f)
    BY <1>7, <2>1
  <2>3. /\ r \in NodeRecords(k) /\ r.face = [node[k].face EXCEPT ![f] = out]
        /\ Times(r) \subseteq Times(node[k]) \cup {ts}
    BY <1>6, <2>2, AddNeighborShape
  <2> QED BY <2>1, <2>3
<1>9. node' = [node EXCEPT ![k] = r]
  BY <1>2, <1>5, <1>7
<1>10. /\ m.type # "CREATE_N_NODES" /\ Brings(m, k, m.ts)
       /\ \A n, f : Changes(m, n, f) <=> n = k /\ f = m.face
       /\ Put(m) = m.out
  BY <1>1, <1>5 DEF Brings, Changes, Put
<1>11. \A f \in Faces : r.face[f] = IF Changes(m, k, f) THEN Put(m) ELSE node[k].face[f]
  <2>1. node[k].face \in [Faces -> Ids \cup {NO_NEIGHBOR}]
    BY <1>6 DEF NodeRecords
  <2>2. \A f \in Faces : r.face[f] = IF f = m.face THEN m.out ELSE node[k].face[f]
    BY <1>8, <2>1
  <2>3. \A f \in Faces : Changes(m, k, f) <=> f = m.face
    BY <1>10
  <2> QED BY <1>10, <2>2, <2>3, Zenon
<1>12. /\ r \in NodeRecords(k) /\ Times(r) \subseteq Times(node[k]) \cup {m.ts} /\ UNCHANGED slaveVars
       /\ \A n \in Ids, f \in Faces : Changes(m, n, f) => n = k
  BY <1>2, <1>8, <1>10
<1>13. m.type # "CREATE_N_NODES" /\ Brings(m, k, m.ts)
  BY <1>10
<1> QED BY <1>9, <1>11, <1>12, <1>13, NodeTold, Zenon DEF m

LEMMA RemoveNodes ==
  ASSUME IInv, RecordInv, FirstInv, handle_remove_neighbor PROVE NodesRead
<1> DEFINE m == toVM[1]
<1>1. /\ Head0 = m /\ m \in VMMessages /\ m.type = "REMOVE_NEIGHBOR" /\ toVM # <<>> /\ 1 \in DOMAIN toVM
  BY HeadRead DEF handle_remove_neighbor
<1>2. /\ \/ node[m.node].face[m.face] = NO_NEIGHBOR /\ UNCHANGED node
         \/ node' = [node EXCEPT ![m.node] = RemoveNeighbor(node[m.node], m.ts, m.face)]
      /\ UNCHANGED slaveVars
  BY <1>1, Zenon DEF handle_remove_neighbor
<1>3. m.node \in Ids /\ m.ts \in Nat /\ m.face \in Faces
  BY <1>1, MessageTypes DEF Removals
<1>4. DOMAIN node = Ids
  BY <1>1, NodesThere
<1> HIDE DEF m
<1>5. PICK k \in DOMAIN node : k = m.node
  BY <1>3, <1>4
<1>6. node[k] \in NodeRecords(k)
  BY DEF RecordInv
<1>7. PICK r : r = RemoveNeighbor(node[k], m.ts, m.face)
  OBVIOUS
<1>8. /\ r \in NodeRecords(k) /\ r.face = [node[k].face EXCEPT ![m.face] = NO_NEIGHBOR]
      /\ Times(r) \subseteq Times(node[k]) \cup {m.ts}
  BY <1>3, <1>6, <1>7, RemoveNeighborShape
<1>9. /\ m.type # "CREATE_N_NODES" /\ Brings(m, k, m.ts)
      /\ \A n, f : Changes(m, n, f) <=> n = k /\ f = m.face
      /\ Put(m) = NO_NEIGHBOR
  BY <1>1, <1>5 DEF Brings, Changes, Put
<1>10. CASE node[m.node].face[m.face] = NO_NEIGHBOR /\ UNCHANGED node
  <2>1. \A n \in Ids, f \in Faces : Changes(m, n, f) => Put(m) = Known(n, f)
    BY <1>5, <1>9, <1>10 DEF Known
  <2> QED BY <1>2, <1>9, <1>10, <2>1, NodesIgnore DEF m
<1>11. CASE node' = [node EXCEPT ![m.node] = RemoveNeighbor(node[m.node], m.ts, m.face)]
  <2>1. node' = [node EXCEPT ![k] = r]
    BY <1>5, <1>7, <1>11
  <2>2. \A f \in Faces : r.face[f] = IF Changes(m, k, f) THEN Put(m) ELSE node[k].face[f]
    <3>1. node[k].face \in [Faces -> Ids \cup {NO_NEIGHBOR}]
      BY <1>6 DEF NodeRecords
    <3>2. \A f \in Faces : r.face[f] = IF f = m.face THEN NO_NEIGHBOR ELSE node[k].face[f]
      BY <1>8, <3>1
    <3>3. \A f \in Faces : Changes(m, k, f) <=> f = m.face
      BY <1>9
    <3> QED BY <1>9, <3>2, <3>3, Zenon
  <2>3. /\ r \in NodeRecords(k) /\ Times(r) \subseteq Times(node[k]) \cup {m.ts} /\ UNCHANGED slaveVars
        /\ \A n \in Ids, f \in Faces : Changes(m, n, f) => n = k
    BY <1>2, <1>8, <1>9
  <2>4. m.type # "CREATE_N_NODES" /\ Brings(m, k, m.ts)
    BY <1>9
  <2> QED BY <2>1, <2>2, <2>3, <2>4, NodeTold, Zenon DEF m
<1> QED BY <1>2, <1>10, <1>11

LEMMA ReceiveNodes ==
  ASSUME IInv, RecordInv, FirstInv, ArriveInv, handle_receive_message PROVE NodesRead
<1> DEFINE m == toVM[1]
           target == Leads(m, node)
<1>1. /\ Head0 = m /\ m \in VMMessages /\ m.type = "RECEIVE_MESSAGE" /\ toVM # <<>> /\ 1 \in DOMAIN toVM
  BY HeadRead DEF handle_receive_message
<1>2. /\ \/ UNCHANGED node
         \/ /\ target # NO_NEIGHBOR
            /\ node' = [node EXCEPT ![target] =
                          add_received_tuple(node[target], m.ts, <<STuple(m.tuple, 1)>>)]
      /\ UNCHANGED slaveVars
  BY <1>1, Zenon DEF handle_receive_message, Leads
<1>3. m.node \in Ids /\ m.ts \in Nat /\ m.face \in Faces \cup {INVALID_FACE} /\ m.tuple \in SentTuples
  BY <1>1, MessageTypes DEF Receipts
<1>4. DOMAIN node = Ids
  BY <1>1, NodesThere
<1>5. target \in Ids \cup {NO_NEIGHBOR}
  <2>1. node[m.node] \in NodeRecords(m.node)
    BY <1>3, <1>4 DEF RecordInv
  <2>2. node[m.node].face \in [Faces -> Ids \cup {NO_NEIGHBOR}]
    BY <2>1 DEF NodeRecords
  <2> QED BY <1>3, <2>2 DEF Leads
<1>6. SentInRun(m.tuple) => m.tuple[4] = target
  <2> SUFFICES ASSUME SentInRun(m.tuple) PROVE m.tuple[4] = target
    OBVIOUS
  <2>1. Reaches(1, m.tuple[4])
    BY <1>1 DEF ArriveInv
  <2>2. CASE m.face = INVALID_FACE
    BY <2>1, <2>2 DEF Reaches, Leads
  <2>3. CASE m.face # INVALID_FACE
    <3>1. Shows(toVM, 0, m.node, m.face, Known(m.node, m.face), m.tuple[4])
      BY <2>1, <2>3 DEF Reaches
    <3>2. m.tuple[4] = Known(m.node, m.face)
      BY <3>1 DEF Shows
    <3> QED BY <1>3, <1>4, <2>3, <3>2 DEF Known, Leads
  <2> QED BY <2>2, <2>3
<1>7. m.tuple \in TuplesFor(target)
  BY <1>3, <1>6 DEF SentTuples, SentInRun, TuplesFor
<1>8. /\ m.type # "CREATE_N_NODES" /\ Brings(m, target, m.ts)
      /\ \A n, f : ~Changes(m, n, f)
  BY <1>1 DEF Brings, Changes
<1>9. CASE UNCHANGED node
  <2> HIDE DEF m, target
  <2> QED BY <1>2, <1>8, <1>9, NodesIgnore DEF m
<1>10. CASE /\ target # NO_NEIGHBOR
            /\ node' = [node EXCEPT ![target] =
                          add_received_tuple(node[target], m.ts, <<STuple(m.tuple, 1)>>)]
  <2> HIDE DEF m, target
  <2>1. PICK k \in DOMAIN node : k = target
    BY <1>4, <1>5, <1>10
  <2>2. node[k] \in NodeRecords(k)
    BY DEF RecordInv
  <2>3. PICK es \in Seq(Items(k)) : es = <<STuple(m.tuple, 1)>>
    <3>1. 1 \in Int /\ m.tuple \in TuplesFor(k)
      BY <1>7, <2>1
    <3>2. <<STuple(m.tuple, 1)>> \in Seq(Items(k))
      BY <3>1, ItemTypes
    <3> QED BY <3>2
  <2>4. PICK r : r = add_received_tuple(node[k], m.ts, es)
    OBVIOUS
  <2>5. r \in NodeRecords(k) /\ r.face = node[k].face /\ Times(r) \subseteq Times(node[k]) \cup {m.ts}
    BY <1>3, <2>2, <2>4, ReceivedShape
  <2>6. node' = [node EXCEPT ![k] = r]
    BY <1>10, <2>1, <2>3, <2>4
  <2> QED BY <1>2, <1>8, <2>1, <2>5, <2>6, NodeTold DEF m
<1> QED BY <1>2, <1>9, <1>10

LEMMA NewNodeShape ==
  ASSUME NEW n, NEW ascending \in BOOLEAN, NEW r, r = NewNode(ascending)
  PROVE  /\ r \in NodeRecords(n) /\ r.face = [f \in Faces |-> NO_NEIGHBOR]
         /\ Times(r) = {}
<1>1. PICK fs \in [Faces -> Ids \cup {NO_NEIGHBOR}] : fs = [f \in Faces |-> NO_NEIGHBOR]
  OBVIOUS
<1>2. PICK a \in Seq(Timed(n)) : a = <<>>
  <2>1. <<>> \in Seq(Timed(n))
    OBVIOUS
  <2> QED BY <2>1
<1>3. PICK b \in Seq(Items(n)) : b = <<>>
  <2>1. <<>> \in Seq(Items(n))
    OBVIOUS
  <2> QED BY <2>1
<1>4. PICK c \in Seq([due : Nat]) : c = <<>>
  <2>1. <<>> \in Seq([due : Nat])
    OBVIOUS
  <2> QED BY <2>1
<1>5. r = [face |-> fs, neighbor_count |-> 0, instantiated |-> FALSE, timestamp |-> 0,
           tuple_pqueue |-> a, rtuple_pqueue |-> a, rascending |-> ascending,
           pending |-> b, delay_queue |-> c]
  BY <1>1, <1>2, <1>3, <1>4 DEF NewNode
<1>6. r \in NodeRecords(n) /\ r.face = fs /\ r.tuple_pqueue = a /\ r.rtuple_pqueue = a
  BY <1>5 DEF NodeRecords
<1>7. QueueTimes(<<>>) = {}
  BY DEF QueueTimes
<1> QED BY <1>1, <1>2, <1>6, <1>7 DEF Times

\* What a node is when it has been created.
LEMMA StartShape ==
  ASSUME NEW n, NEW ascending \in BOOLEAN, NEW start
  PROVE  start = add_received_tuple(NewNode(ascending), 0, <<STuple(<<"init">>, 1)>>) =>
           /\ start \in NodeRecords(n) /\ start.face = [f \in Faces |-> NO_NEIGHBOR]
           /\ Times(start) \subseteq {0}
<1>1. PICK blank : blank = NewNode(ascending)
  OBVIOUS
<1>2. blank \in NodeRecords(n) /\ blank.face = [f \in Faces |-> NO_NEIGHBOR] /\ Times(blank) = {}
  BY <1>1, NewNodeShape
<1>3. PICK first \in Seq(Items(n)) : first = <<STuple(<<"init">>, 1)>>
  <2>1. <<"init">> \in TuplesFor(n) /\ 1 \in Int
    BY ToldTuples DEF TuplesFor
  <2>2. <<STuple(<<"init">>, 1)>> \in Seq(Items(n))
    BY <2>1, ItemTypes
  <2> QED BY <2>2
<1>4. ASSUME start = add_received_tuple(NewNode(ascending), 0, <<STuple(<<"init">>, 1)>>)
      PROVE  /\ start \in NodeRecords(n) /\ start.face = [f \in Faces |-> NO_NEIGHBOR]
             /\ Times(start) \subseteq {0}
  <2>1. start = add_received_tuple(blank, 0, first) /\ 0 \in Nat
    BY <1>1, <1>3, <1>4
  <2>2. start \in NodeRecords(n) /\ start.face = blank.face
        /\ Times(start) \subseteq Times(blank) \cup {0}
    BY <1>2, <2>1, ReceivedShape
  <2> QED BY <1>2, <2>2
<1> QED BY <1>4

LEMMA BegunShape ==
  ASSUME NEW n, NEW start \in NodeRecords(n), Times(start) \subseteq {0}, NEW new
  PROVE  new = add_received_tuple([start EXCEPT !.instantiated = TRUE], 0,
                                  FaceFacts(start.face) \o add_neighbor_count(0, 1)) =>
           new \in NodeRecords(n) /\ new.face = start.face /\ Times(new) \subseteq {0}
<1>1. PICK begun \in NodeRecords(n) :
        /\ begun = [start EXCEPT !.instantiated = TRUE] /\ begun.face = start.face
        /\ Times(begun) \subseteq {0}
  <2>1. PICK b : b = [start EXCEPT !.instantiated = TRUE]
    OBVIOUS
  <2>2. /\ b \in NodeRecords(n) /\ b.face = start.face
        /\ b.tuple_pqueue = start.tuple_pqueue /\ b.rtuple_pqueue = start.rtuple_pqueue
    BY <2>1 DEF NodeRecords
  <2>3. Times(b) \subseteq {0}
    BY <2>2 DEF Times
  <2> QED BY <2>1, <2>2, <2>3
<1>2. PICK news \in Seq(Items(n)) : news = FaceFacts(start.face) \o add_neighbor_count(0, 1)
  <2>1. start.face \in [Faces -> Ids \cup {NO_NEIGHBOR}] /\ 0 \in Int
    BY DEF NodeRecords
  <2>2. FaceFacts(start.face) \in Seq(Items(n))
    BY <2>1, FaceFactsTypes
  <2>3. add_neighbor_count(0, 1) \in Seq(Items(n))
    BY <2>1, SignedNews
  <2>4. FaceFacts(start.face) \o add_neighbor_count(0, 1) \in Seq(Items(n))
    BY <2>2, <2>3, ConcatItems
  <2> QED BY <2>4
<1>3. ASSUME new = add_received_tuple([start EXCEPT !.instantiated = TRUE], 0,
                                      FaceFacts(start.face) \o add_neighbor_count(0, 1))
      PROVE  new \in NodeRecords(n) /\ new.face = start.face /\ Times(new) \subseteq {0}
  <2>1. new = add_received_tuple(begun, 0, news) /\ 0 \in Nat
    BY <1>1, <1>2, <1>3
  <2>2. new \in NodeRecords(n) /\ new.face = begun.face
        /\ Times(new) \subseteq Times(begun) \cup {0}
    BY <2>1, ReceivedShape
  <2> QED BY <1>1, <2>2
<1> QED BY <1>3

LEMMA CreateNodes ==
  ASSUME IInv, RecordInv, FirstInv, handle_create_n_nodes PROVE NodesRead
<1> DEFINE m == toVM[1]
<1>1. /\ Head0 = m /\ m \in VMMessages /\ m.type = "CREATE_N_NODES" /\ toVM # <<>> /\ 1 \in DOMAIN toVM
  BY HeadRead DEF handle_create_n_nodes
<1>2. m.ts = 0
  BY <1>1, MessageTypes DEF Notices
<1>3. DOMAIN node = {}
  BY <1>1 DEF FirstInv, Absent
<1>4. PICK ascending \in BOOLEAN :
        \E start, new :
          /\ start = add_received_tuple(NewNode(ascending), 0, <<STuple(<<"init">>, 1)>>)
          /\ \/ new = start
             \/ new = add_received_tuple([start EXCEPT !.instantiated = TRUE], Head0.ts,
                                         FaceFacts(start.face) \o add_neighbor_count(0, 1))
          /\ node' = [n \in Ids |-> new]
  BY ZenonT(30) DEF handle_create_n_nodes
<1>5. PICK start, new :
        /\ start = add_received_tuple(NewNode(ascending), 0, <<STuple(<<"init">>, 1)>>)
        /\ \/ new = start
           \/ new = add_received_tuple([start EXCEPT !.instantiated = TRUE], 0,
                                       FaceFacts(start.face) \o add_neighbor_count(0, 1))
        /\ node' = [n \in Ids |-> new]
  <2> HIDE DEF m
  <2> QED BY <1>1, <1>2, <1>4
<1>6. \A n : /\ new \in NodeRecords(n) /\ new.face = [f \in Faces |-> NO_NEIGHBOR]
             /\ Times(new) \subseteq {0}
  <2>1. \A n : /\ start \in NodeRecords(n) /\ start.face = [f \in Faces |-> NO_NEIGHBOR]
               /\ Times(start) \subseteq {0}
    BY <1>5, StartShape, Zenon
  <2>2. CASE new = start
    BY <2>1, <2>2, Zenon
  <2>3. CASE new = add_received_tuple([start EXCEPT !.instantiated = TRUE], 0,
                                      FaceFacts(start.face) \o add_neighbor_count(0, 1))
    <3>1. \A n : new \in NodeRecords(n) /\ new.face = start.face /\ Times(new) \subseteq {0}
      BY <2>1, <2>3, BegunShape, Zenon
    <3> QED BY <2>1, <3>1, Zenon
  <2> QED BY <1>5, <2>2, <2>3
<1>7. DOMAIN node' = Ids /\ \A n \in Ids : node'[n] = new
  BY <1>5
<1>8. RecordInv'
  <2>1. slave' = [n \in Ids |-> IF thread_mode THEN "wait" ELSE "none"]
        /\ gathered' = [n \in Ids |-> <<>>]
    BY DEF handle_create_n_nodes
  <2>2. \A n \in Ids : <<>> \in Seq(Items(n))
    OBVIOUS
  <2> QED BY <1>6, <1>7, <2>1, <2>2 DEF RecordInv
<1>9. \A n \in Ids, f \in Faces : Known(n, f)' = NO_NEIGHBOR /\ Known(n, f) = NO_NEIGHBOR
  BY <1>3, <1>6, <1>7 DEF Known
<1>10. \A n, f : ~Changes(m, n, f)
  BY <1>1 DEF Changes
<1>11. \A n \in Ids : \A x \in Times(node'[n]) : Brings(m, n, x)
  BY <1>1, <1>2, <1>6, <1>7 DEF Brings
<1> HIDE DEF m
<1> QED BY <1>1, <1>7, <1>8, <1>9, <1>10, <1>11 DEF NodesRead, m

(***************************************************************************)
(* Changes under way, when a message is read or written.                    *)
(***************************************************************************)
\* What a face shows once the first message has been read is what it showed before.
LEMMA ShowsTail ==
  ASSUME NEW S, NEW q \in Seq(S), q # <<>>, NEW k \in 0 .. Len(q) - 1, NEW n, NEW f, NEW v, NEW x,
         Shows(q, k + 1, n, f, v, x)
  PROVE  Shows(Tail(q), k, n, f, IF Changes(q[1], n, f) THEN Put(q[1]) ELSE v, x)
<1> DEFINE t == Tail(q)
           w == IF Changes(q[1], n, f) THEN Put(q[1]) ELSE v
<1>1. /\ Len(q) \in Nat /\ k \in Nat /\ 1 \in 1 .. k + 1
      /\ \A i \in 1 .. k : i + 1 \in 1 .. k + 1 /\ t[i] = q[i + 1]
  OBVIOUS
<1>2. CASE x = v /\ \A i \in 1 .. k + 1 : ~Changes(q[i], n, f)
  <2>1. x = w /\ \A i \in 1 .. k : ~Changes(t[i], n, f)
    BY <1>1, <1>2
  <2> HIDE DEF t, w
  <2> QED BY <2>1 DEF Shows, t, w
<1>3. ASSUME NEW i \in 1 .. k + 1, Changes(q[i], n, f), x = Put(q[i]),
             \A j \in i + 1 .. k + 1 : ~Changes(q[j], n, f)
      PROVE  Shows(t, k, n, f, w, x)
  <2>1. CASE i = 1
    <3>1. x = w
      BY <1>3, <2>1
    <3>2. \A j \in 1 .. k : ~Changes(t[j], n, f)
      <4> SUFFICES ASSUME NEW j \in 1 .. k PROVE ~Changes(t[j], n, f)
        OBVIOUS
      <4>1. j + 1 \in i + 1 .. k + 1 /\ t[j] = q[j + 1]
        BY <1>1, <2>1
      <4> QED BY <1>3, <4>1
    <3> HIDE DEF t, w
    <3> QED BY <3>1, <3>2 DEF Shows
  <2>2. CASE i # 1
    <3>1. i - 1 \in 1 .. k /\ t[i - 1] = q[i]
      <4>1. i - 1 \in 1 .. k /\ (i - 1) + 1 = i
        BY <1>1, <2>2
      <4> QED BY <1>1, <4>1
    <3>2. \A j \in (i - 1) + 1 .. k : ~Changes(t[j], n, f)
      <4> SUFFICES ASSUME NEW j \in (i - 1) + 1 .. k PROVE ~Changes(t[j], n, f)
        OBVIOUS
      <4>1. j + 1 \in i + 1 .. k + 1 /\ j \in 1 .. k
        BY <1>1, <2>2
      <4>2. t[j] = q[j + 1]
        BY <1>1, <4>1
      <4> QED BY <1>3, <4>1, <4>2
    <3> HIDE DEF t, w
    <3> QED BY <1>3, <3>1, <3>2 DEF Shows
  <2> QED BY <2>1, <2>2
<1> HIDE DEF t, w
<1> QED BY <1>2, <1>3 DEF Shows, t, w

\* A message that is appended changes what the face shows after all messages.
LEMMA ShowsPrefix ==
  ASSUME NEW S, NEW q \in Seq(S), NEW m \in S, NEW k \in 0 .. Len(q), NEW n, NEW f, NEW v, NEW x,
         Shows(q, k, n, f, v, x)
  PROVE  Shows(Append(q, m), k, n, f, v, x)
<1>1. \A i \in 1 .. k : Append(q, m)[i] = q[i]
  OBVIOUS
<1>2. CASE x = v /\ \A i \in 1 .. k : ~Changes(q[i], n, f)
  BY <1>1, <1>2 DEF Shows
<1>3. ASSUME NEW i \in 1 .. k, Changes(q[i], n, f), x = Put(q[i]),
             \A j \in i + 1 .. k : ~Changes(q[j], n, f)
      PROVE  Shows(Append(q, m), k, n, f, v, x)
  <2>1. \A j \in i + 1 .. k : j \in 1 .. k
    OBVIOUS
  <2> QED BY <1>1, <1>3, <2>1 DEF Shows
<1> QED BY <1>2, <1>3 DEF Shows

LEMMA ShowsAppend ==
  ASSUME NEW S, NEW q \in Seq(S), NEW m \in S, NEW n, NEW f, NEW v, NEW x,
         Shows(q, Len(q), n, f, v, x)
  PROVE  Shows(Append(q, m), Len(Append(q, m)), n, f, v, IF Changes(m, n, f) THEN Put(m) ELSE x)
<1> DEFINE k == Len(q)
           a == Append(q, m)
<1>1. /\ k \in Nat /\ Len(a) = k + 1 /\ a[k + 1] = m
      /\ \A i \in 1 .. k : a[i] = q[i]
      /\ \A i \in 1 .. k + 1 : i \in 1 .. k \/ i = k + 1
  OBVIOUS
<1> HIDE DEF a, k
<1>2. CASE Changes(m, n, f)
  <2>1. k + 1 \in 1 .. k + 1 /\ \A j \in (k + 1) + 1 .. k + 1 : FALSE
    BY <1>1
  <2> QED BY <1>1, <1>2, <2>1 DEF Shows, a
<1>3. CASE ~Changes(m, n, f)
  <2>1. CASE x = v /\ \A i \in 1 .. k : ~Changes(q[i], n, f)
    <3>1. \A i \in 1 .. k + 1 : ~Changes(a[i], n, f)
      BY <1>1, <1>3, <2>1
    <3> QED BY <1>1, <1>3, <2>1, <3>1 DEF Shows, a
  <2>2. ASSUME NEW i \in 1 .. k, Changes(q[i], n, f), x = Put(q[i]),
               \A j \in i + 1 .. k : ~Changes(q[j], n, f)
        PROVE  Shows(a, k + 1, n, f, v, x)
    <3>1. i \in 1 .. k + 1 /\ a[i] = q[i]
      BY <1>1
    <3>2. \A j \in i + 1 .. k + 1 : ~Changes(a[j], n, f)
      <4> SUFFICES ASSUME NEW j \in i + 1 .. k + 1 PROVE ~Changes(a[j], n, f)
        OBVIOUS
      <4>1. CASE j = k + 1
        BY <1>1, <1>3, <4>1
      <4>2. CASE j # k + 1
        <5>1. j \in i + 1 .. k /\ j \in 1 .. k
          BY <1>1, <4>2
        <5> QED BY <1>1, <2>2, <5>1
      <4> QED BY <4>1, <4>2
    <3> QED BY <2>2, <3>1, <3>2 DEF Shows
  <2>3. Shows(a, k + 1, n, f, v, x)
    <3>1. CASE x = v /\ \A i \in 1 .. k : ~Changes(q[i], n, f)
      BY <1>1, <1>3, <2>1, <3>1 DEF a
    <3> QED BY <2>2, <3>1 DEF Shows, k
  <2> QED BY <1>1, <1>3, <2>3 DEF a
<1> QED BY <1>2, <1>3

(***************************************************************************)
(* TravelInv and the steps of the VM.                                       *)
(***************************************************************************)
\* The VM reads a message.
MessageRead ==
  /\ toVM # <<>> /\ toVM' = Tail(toVM) /\ UNCHANGED <<toSim, simVars>>
  /\ ~Running /\ (Running' => toVM[1].type = "RUN_NODE")
  /\ toVM[1].type = "RUN_NODE" =>
       vmpc' = "run" /\ current_node' = toVM[1].node /\ sim_instr_limit' = toVM[1].ts
  /\ thread_mode' => thread_mode \/ toVM[1].type = "USE_THREADS"

LEMMA ReadShape ==
  ASSUME IInv, MessageRead
  PROVE  /\ toVM \in Seq(VMMessages) /\ toVM # <<>> /\ toVM' = Tail(toVM) /\ toVM' \in Seq(VMMessages)
         /\ Len(toVM) \in Nat /\ Len(toVM') = Len(toVM) - 1 /\ Len(toVM) > 0 /\ 1 \in DOMAIN toVM
         /\ \A i \in DOMAIN toVM' : /\ i \in Nat /\ i > 0 /\ i <= Len(toVM) - 1 /\ i + 1 \in DOMAIN toVM
                                    /\ toVM'[i] = toVM[i + 1]
         /\ \A i \in DOMAIN toVM : /\ i \in Nat
                                   /\ i # 1 => i - 1 \in DOMAIN toVM' /\ toVM'[i - 1] = toVM[i]
<1>1. toVM \in Seq(VMMessages) /\ toVM # <<>> /\ toVM' = Tail(toVM)
  BY DEF IInv, ChannelTypes, MessageRead
<1>2. /\ Len(toVM) \in Nat /\ Len(toVM) > 0 /\ Len(Tail(toVM)) = Len(toVM) - 1
      /\ DOMAIN toVM = 1 .. Len(toVM) /\ DOMAIN Tail(toVM) = 1 .. Len(toVM) - 1
  BY <1>1
<1>3. /\ Tail(toVM) \in Seq(VMMessages)
      /\ \A i \in DOMAIN Tail(toVM) : i \in Nat /\ i + 1 \in DOMAIN toVM /\ Tail(toVM)[i] = toVM[i + 1]
      /\ \A i \in DOMAIN toVM : i # 1 => i - 1 \in DOMAIN Tail(toVM) /\ Tail(toVM)[i - 1] = toVM[i]
  BY <1>1, TailShape
<1> QED BY <1>1, <1>2, <1>3

LEMMA ReachesTail ==
  ASSUME IInv, MessageRead, NodesRead, NEW i \in DOMAIN toVM', toVM[i + 1].type = "RECEIVE_MESSAGE",
         NEW d, Reaches(i + 1, d)
  PROVE  Reaches(i, d)'
<1> DEFINE r == toVM[i + 1]
<1>1. /\ toVM \in Seq(VMMessages) /\ toVM # <<>> /\ toVM' = Tail(toVM) /\ Len(toVM) \in Nat
      /\ i \in Nat /\ i > 0 /\ i <= Len(toVM) - 1 /\ i + 1 \in DOMAIN toVM /\ toVM'[i] = r
  BY ReadShape
<1>2. r \in VMMessages
  BY <1>1
<1>3. r.node \in Ids /\ r.face \in Faces \cup {INVALID_FACE}
  BY <1>2, MessageTypes DEF Receipts
<1> HIDE DEF r
<1>4. CASE r.face = INVALID_FACE
  BY <1>1, <1>4 DEF Reaches, r
<1>5. CASE r.face # INVALID_FACE
  <2>0. PICK n \in Ids, f \in Faces : n = r.node /\ f = r.face
    BY <1>3, <1>5
  <2>1. Shows(toVM, (i - 1) + 1, n, f, Known(n, f), d)
    <3>1. (i + 1) - 1 = (i - 1) + 1
      BY <1>1
    <3> QED BY <1>5, <2>0, <3>1 DEF Reaches, r
  <2>2. i - 1 \in 0 .. Len(toVM) - 1
    BY <1>1
  <2>3. Shows(Tail(toVM), i - 1, n, f,
              IF Changes(toVM[1], n, f) THEN Put(toVM[1]) ELSE Known(n, f), d)
    BY <1>1, <2>1, <2>2, ShowsTail
  <2>4. Known(n, f)' = IF Changes(toVM[1], n, f) THEN Put(toVM[1]) ELSE Known(n, f)
    BY DEF NodesRead
  <2>5. Shows(toVM', i - 1, n, f, Known(n, f)', d)
    BY <1>1, <2>3, <2>4
  <2>6. toVM'[i].node = n /\ toVM'[i].face = f /\ f # INVALID_FACE
    BY <1>1, <1>5, <2>0
  <2> QED BY <2>5, <2>6 DEF Reaches, Known
<1> QED BY <1>4, <1>5

LEMMA ReadTravels ==
  ASSUME IInv, TravelInv, MessageRead, NodesRead,
         toVM[1].type \in {"USE_THREADS", "CREATE_N_NODES"} \/ DOMAIN node = Ids
  PROVE  TravelInv'
<1> USE DEF TravelInv
<1>1. /\ toVM \in Seq(VMMessages) /\ toVM # <<>> /\ toVM' = Tail(toVM)
      /\ Len(toVM) \in Nat /\ Len(toVM') = Len(toVM) - 1 /\ Len(toVM) > 0 /\ 1 \in DOMAIN toVM
  BY ReadShape
<1>2. /\ \A i \in DOMAIN toVM' : /\ i \in Nat /\ i > 0 /\ i + 1 \in DOMAIN toVM
                                 /\ toVM'[i] = toVM[i + 1]
      /\ \A i \in DOMAIN toVM : /\ i \in Nat
                                /\ i # 1 => i - 1 \in DOMAIN toVM' /\ toVM'[i - 1] = toVM[i]
  BY ReadShape
<1>3. /\ UNCHANGED <<toSim, sim, simpc>>
      /\ ~Running /\ (Running' => toVM[1].type = "RUN_NODE")
  BY DEF MessageRead, simVars
<1>4. /\ RecordInv'
      /\ DOMAIN node' = IF toVM[1].type = "CREATE_N_NODES" THEN Ids ELSE DOMAIN node
      /\ \A n \in Ids, f \in Faces :
           Known(n, f)' = IF Changes(toVM[1], n, f) THEN Put(toVM[1]) ELSE Known(n, f)
  BY DEF NodesRead
<1>5. FirstInv'
  <2>1. /\ Single("CREATE_N_NODES", toVM')
        /\ Absent("CREATE_N_NODES", toVM) => Absent("CREATE_N_NODES", toVM')
        /\ toVM[1].type = "CREATE_N_NODES" => Absent("CREATE_N_NODES", toVM')
    BY <1>1, AbsentTail DEF FirstInv
  <2>2. DOMAIN node' # {} => Absent("CREATE_N_NODES", toVM')
    BY <1>4, <2>1 DEF FirstInv
  <2>3. ASSUME simpc' # "start", DOMAIN node' = {}
        PROVE  \E j \in DOMAIN toVM' :
                 /\ toVM'[j].type = "CREATE_N_NODES"
                 /\ \A i \in DOMAIN toVM' : i < j => toVM'[i].type = "USE_THREADS"
    <3>1. toVM[1].type # "CREATE_N_NODES" /\ DOMAIN node = {}
      BY <1>4, <2>3, IdsAssumption
    <3>2. PICK j \in DOMAIN toVM :
            /\ toVM[j].type = "CREATE_N_NODES"
            /\ \A i \in DOMAIN toVM : i < j => toVM[i].type = "USE_THREADS"
      BY <1>3, <2>3, <3>1 DEF FirstInv
    <3>3. j # 1 /\ j \in Nat /\ j - 1 \in DOMAIN toVM' /\ toVM'[j - 1] = toVM[j]
      BY <1>2, <3>1, <3>2
    <3>4. ASSUME NEW i \in DOMAIN toVM', i < j - 1 PROVE toVM'[i].type = "USE_THREADS"
      <4>1. i + 1 \in DOMAIN toVM /\ toVM'[i] = toVM[i + 1] /\ i + 1 < j
        BY <1>2, <3>3, <3>4
      <4> QED BY <3>2, <4>1
    <3> QED BY <3>2, <3>3, <3>4
  <2> QED BY <2>1, <2>2, <2>3 DEF FirstInv
<1>6. FaceInv'
  <2> SUFFICES ASSUME simpc' # "start", NEW n \in Ids, NEW f \in Faces
               PROVE  Shows(toVM', Len(toVM'), n, f, Known(n, f)', sim'[n].face[f])
    BY DEF FaceInv
  <2>1. Shows(toVM, (Len(toVM) - 1) + 1, n, f, Known(n, f), sim[n].face[f])
    <3>1. (Len(toVM) - 1) + 1 = Len(toVM)
      BY <1>1
    <3> QED BY <1>3, <3>1 DEF FaceInv
  <2>2. Len(toVM) - 1 \in 0 .. Len(toVM) - 1
    BY <1>1
  <2>3. Shows(Tail(toVM), Len(toVM) - 1, n, f,
              IF Changes(toVM[1], n, f) THEN Put(toVM[1]) ELSE Known(n, f), sim[n].face[f])
    BY <1>1, <2>1, <2>2, ShowsTail
  <2> QED BY <1>1, <1>3, <1>4, <2>3
<1>7. AheadInv'
  <2> SUFFICES ASSUME Running' \/ ~Absent("RUN_NODE", toVM'), NEW i \in DOMAIN toVM',
                      toVM'[i].type \in {"ADD_NEIGHBOR", "REMOVE_NEIGHBOR"}
               PROVE  \E j \in DOMAIN toVM' : i < j /\ toVM'[j].type = "RUN_NODE"
    BY DEF AheadInv
  <2>1. ~Absent("RUN_NODE", toVM)
    <3>1. CASE Running'
      BY <1>1, <1>3, <3>1 DEF Absent
    <3>2. CASE ~Absent("RUN_NODE", toVM')
      BY <1>2, <3>2 DEF Absent
    <3> QED BY <3>1, <3>2
  <2>2. i + 1 \in DOMAIN toVM /\ toVM'[i] = toVM[i + 1] /\ i \in Nat
    BY <1>2
  <2>3. PICK j \in DOMAIN toVM : i + 1 < j /\ toVM[j].type = "RUN_NODE"
    BY <2>1, <2>2 DEF AheadInv
  <2>4. j \in Nat /\ j # 1
    BY <1>2, <2>2, <2>3
  <2>5. j - 1 \in DOMAIN toVM' /\ toVM'[j - 1] = toVM[j] /\ i < j - 1
    BY <1>2, <2>2, <2>3, <2>4
  <2> QED BY <2>3, <2>5
<1>8. SendInv'
  BY <1>3 DEF SendInv, Leads
<1>9. ArriveInv'
  <2> SUFFICES ASSUME NEW i \in DOMAIN toVM', toVM'[i].type = "RECEIVE_MESSAGE",
                      SentInRun(toVM'[i].tuple)
               PROVE  Reaches(i, toVM[i].tuple[4])'
    BY DEF ArriveInv, SentInRun
  <2>1. i + 1 \in DOMAIN toVM /\ toVM'[i] = toVM[i + 1]
    BY <1>2
  <2>2. Reaches(i + 1, toVM[i + 1].tuple[4])
    BY <2>1 DEF ArriveInv
  <2>3. PICK d : d = toVM[i + 1].tuple[4]
    OBVIOUS
  <2>4. Reaches(i, d)'
    BY <2>1, <2>2, <2>3, ReachesTail
  <2> QED BY <2>1, <2>3, <2>4
<1> QED BY <1>4, <1>5, <1>6, <1>7, <1>8, <1>9

\* What the VM writes: a tuple that a run sends leads where its face leads, and the
\* report of the run follows.
WellSent(s) ==
  \A i \in DOMAIN s : s[i].type = "SEND_MESSAGE" /\ SentInRun(s[i].tuple) =>
    /\ Leads(s[i], sim) = s[i].tuple[4]
    /\ \E j \in DOMAIN s : i < j /\ s[j].type = "NODE_RUN"

LEMMA WriteTravels ==
  ASSUME IInv, TravelInv, NodesKept, UNCHANGED <<toVM, simVars>>, Running' => Running,
         NEW s \in Seq(Sends \cup Colors \cup Reports), toSim' = toSim \o s, WellSent(s)
  PROVE  TravelInv'
<1> USE DEF TravelInv
<1>1. UNCHANGED <<sim, simpc>> /\ RecordInv' /\ DOMAIN node' = DOMAIN node
  BY DEF simVars, NodesKept
<1>2. \A n, f : Known(n, f)' = Known(n, f)
  BY DEF NodesKept, Known
<1>3. FirstInv'
  BY <1>1 DEF FirstInv
<1>4. FaceInv'
  BY <1>1, <1>2 DEF FaceInv
<1>5. AheadInv'
  BY DEF AheadInv
<1>6. SendInv'
  <2> DEFINE S == Sends \cup Colors \cup Reports
  <2>1. toSim \in Seq(S) /\ Len(toSim) \in Nat
    BY DEF IInv, ChannelTypes
  <2>2. s \in Seq(S)
    OBVIOUS
  <2> HIDE DEF S
  <2>3. /\ \A i \in DOMAIN toSim : i \in Nat /\ i \in DOMAIN toSim' /\ toSim'[i] = toSim[i]
        /\ \A i \in DOMAIN s : i \in Nat /\ Len(toSim) + i \in DOMAIN toSim' /\ toSim'[Len(toSim) + i] = s[i]
        /\ \A i \in DOMAIN toSim' :
             /\ i \in Nat
             /\ i \in DOMAIN toSim \/ (i - Len(toSim) \in DOMAIN s /\ toSim'[i] = s[i - Len(toSim)])
    BY <2>1, <2>2, ConcatShape
  <2> SUFFICES ASSUME NEW i \in DOMAIN toSim', toSim'[i].type = "SEND_MESSAGE", SentInRun(toSim'[i].tuple)
               PROVE  /\ Leads(toSim'[i], sim) = toSim'[i].tuple[4]
                      /\ \E j \in DOMAIN toSim' : i < j /\ toSim'[j].type = "NODE_RUN"
    <3>1. \A m : Leads(m, sim') = Leads(m, sim)
      BY <1>1
    <3> QED BY <1>1, Zenon DEF SendInv
  <2>4. CASE i \in DOMAIN toSim
    <3>1. toSim'[i] = toSim[i]
      BY <2>3, <2>4
    <3>2. toSim[i].type = "SEND_MESSAGE" /\ SentInRun(toSim[i].tuple)
      BY <3>1
    <3>3. /\ Leads(toSim[i], sim) = toSim[i].tuple[4]
          /\ \E j \in DOMAIN toSim : i < j /\ toSim[j].type = "NODE_RUN"
      BY <2>4, <3>2 DEF SendInv
    <3>4. PICK j \in DOMAIN toSim : i < j /\ toSim[j].type = "NODE_RUN"
      BY <3>3
    <3>5. j \in DOMAIN toSim' /\ toSim'[j] = toSim[j]
      BY <2>3
    <3> QED BY <3>1, <3>3, <3>4, <3>5
  <2>5. CASE i - Len(toSim) \in DOMAIN s /\ toSim'[i] = s[i - Len(toSim)]
    <3>1. PICK j \in DOMAIN s : i - Len(toSim) < j /\ s[j].type = "NODE_RUN"
      BY <2>5 DEF WellSent
    <3>2. Len(toSim) + j \in DOMAIN toSim' /\ toSim'[Len(toSim) + j] = s[j] /\ i < Len(toSim) + j
      BY <2>1, <2>3, <3>1
    <3>3. Leads(toSim'[i], sim) = toSim'[i].tuple[4]
      BY <2>5 DEF WellSent
    <3> QED BY <3>1, <3>2, <3>3
  <2> QED BY <2>3, <2>4, <2>5
<1>7. ArriveInv'
  <2> SUFFICES ASSUME NEW i \in DOMAIN toVM, toVM[i].type = "RECEIVE_MESSAGE",
                      SentInRun(toVM[i].tuple)
               PROVE  Reaches(i, toVM[i].tuple[4])'
    BY DEF ArriveInv, SentInRun
  <2>1. Reaches(i, toVM[i].tuple[4])
    BY DEF ArriveInv
  <2> QED BY <1>2, <2>1 DEF Reaches
<1> QED BY <1>1, <1>3, <1>4, <1>5, <1>6, <1>7

LEMMA QuietTravels ==
  ASSUME IInv, TravelInv, VMQuiet, NodesKept PROVE TravelInv'
<1>1. UNCHANGED <<toVM, simVars>> /\ (Running' => Running)
  BY DEF VMQuiet
<1>2. PICK s \in Seq(LateSends \cup Colors) : toSim' = toSim \o s
  BY DEF VMQuiet
<1>3. \A i \in DOMAIN s : s[i] \in LateSends \cup Colors
  BY <1>2
<1>4. WellSent(s)
  BY <1>3 DEF WellSent, LateSends, Colors, SentInRun
<1>5. s \in Seq(Sends \cup Colors \cup Reports)
  BY <1>2 DEF LateSends
<1> QED BY <1>1, <1>2, <1>4, <1>5, WriteTravels

\* No change is under way while a node runs: the simulator and the VM have the
\* same faces.
LEMMA FacesAgree ==
  ASSUME IInv, TravelInv, Running, NEW n \in Ids, NEW f \in Faces
  PROVE  sim[n].face[f] = node[n].face[f]
<1>1. Absent("RUN_NODE", toVM) /\ simpc # "start" /\ DOMAIN node = Ids
  BY DEF IInv, RunInv, CreateInv
<1>2. \A i \in DOMAIN toVM : toVM[i].type \notin {"ADD_NEIGHBOR", "REMOVE_NEIGHBOR"}
  BY <1>1 DEF TravelInv, AheadInv, Absent
<1>3. \A i \in 1 .. Len(toVM) : ~Changes(toVM[i], n, f)
  <2>1. DOMAIN toVM = 1 .. Len(toVM)
    BY DEF IInv, ChannelTypes
  <2> QED BY <1>2, <2>1 DEF Changes
<1>4. Shows(toVM, Len(toVM), n, f, Known(n, f), sim[n].face[f])
  BY <1>1 DEF TravelInv, FaceInv
<1> QED BY <1>1, <1>3, <1>4 DEF Shows, Known

\* The face that get_face finds leads to the node.
LEMMA FaceLeads ==
  ASSUME NEW n, NEW id, get_face(n, id) # INVALID_FACE
  PROVE  get_face(n, id) \in Faces /\ node[n].face[get_face(n, id)] = id
<1> DEFINE on == {f \in Faces : node[n].face[f] = id}
<1>1. on # {} /\ get_face(n, id) = Min(on)
  BY DEF get_face
<1>2. on \subseteq Nat
  <2>1. on \subseteq Faces /\ Faces \subseteq 0 .. 5
    BY FacesAssumption
  <2> HIDE DEF on
  <2> QED BY <2>1
<1>3. Min(on) \in on
  <2> HIDE DEF on
  <2>1. \E x \in on : \A y \in on : x <= y
    BY <1>1, <1>2, LeastElement
  <2> QED BY <2>1 DEF Min
<1> QED BY <1>1, <1>3

LEMMA ReportTravels ==
  ASSUME IInv, TravelInv, handle_deterministic_computation, UNCHANGED simVars PROVE TravelInv'
<1> DEFINE S == Sends \cup Colors \cup Reports
           touched == {tmp_work[i].to : i \in DOMAIN tmp_work}
                        \cup IF node[current_node].pending = <<>> THEN {} ELSE {current_node}
           ms == [i \in DOMAIN tmp_work |-> send_send_message(tmp_work[i], tmp_work[i].ts)]
           report == [type |-> "NODE_RUN", ts |-> sim_instr_counter, node |-> current_node,
                      nodes |-> touched]
<1>1. /\ vmpc = "sent" /\ vmpc' = "loop" /\ UNCHANGED toVM
      /\ toSim' = toSim \o (ms \o <<report>>)
  BY Zenon DEF handle_deterministic_computation, WrittenAfterRun
<1>2. Running /\ ~Running' /\ current_node \in Ids
  BY <1>1 DEF Running, IInv, CreateInv
<1>3. /\ DOMAIN tmp_work = 1 .. Len(tmp_work) /\ Len(tmp_work) \in Nat
      /\ \A i \in DOMAIN tmp_work : tmp_work[i] \in Works
  <2>1. tmp_work \in Seq(Works)
    BY DEF IInv, WorkTypes, Works
  <2> QED BY <2>1
<1>4. ASSUME NEW i \in DOMAIN tmp_work
      PROVE  /\ ms[i] \in Sends
             /\ SentInRun(ms[i].tuple) => Leads(ms[i], sim) = ms[i].tuple[4]
  <2> DEFINE src == tmp_work[i].src
             to == tmp_work[i].to
             face == get_face(src, to)
  <2>1. src \in Ids /\ to \in Ids /\ tmp_work[i].ts \in Nat /\ ~tmp_work[i].delayed
    BY <1>3 DEF Works
  <2>2. ms[i] = send_send_message(tmp_work[i], tmp_work[i].ts)
    OBVIOUS
  <2>3. ms[i] \in Sends
    <3> HIDE DEF ms
    <3> QED BY <2>1, <2>2, SendType
  <2>4. /\ ms[i].node = src /\ ms[i].face = face
        /\ ms[i].tuple = <<"sent", to, "run", IF face = INVALID_FACE THEN src ELSE to>>
    BY <2>1, <2>2, Zenon DEF send_send_message
  <2> HIDE DEF ms, face
  <2>5. ASSUME SentInRun(ms[i].tuple) PROVE Leads(ms[i], sim) = ms[i].tuple[4]
    <3>1. CASE face = INVALID_FACE
      BY <2>4, <3>1 DEF Leads
    <3>2. CASE face # INVALID_FACE
      <4>1. face \in Faces /\ node[src].face[face] = to
        BY <3>2, FaceLeads DEF face
      <4>2. sim[src].face[face] = to
        BY <1>2, <2>1, <4>1, FacesAgree
      <4> QED BY <2>4, <3>2, <4>2 DEF Leads
    <3> QED BY <3>1, <3>2
  <2> QED BY <2>3, <2>5
<1>5. ms \in Seq(Sends) /\ Len(ms) \in Nat /\ DOMAIN ms = 1 .. Len(ms) /\ DOMAIN ms = DOMAIN tmp_work
  <2>1. \A i \in 1 .. Len(tmp_work) : ms[i] \in Sends
    BY <1>3, <1>4
  <2>2. ms = [i \in 1 .. Len(tmp_work) |-> ms[i]]
    BY <1>3
  <2>3. DOMAIN ms = DOMAIN tmp_work
    OBVIOUS
  <2> HIDE DEF ms
  <2> QED BY <1>3, <2>1, <2>2, <2>3
<1>6. report \in Reports /\ report.type = "NODE_RUN"
  <2>1. touched \subseteq Ids
    <3>1. ASSUME NEW i \in DOMAIN tmp_work PROVE tmp_work[i].to \in Ids
      BY <1>3 DEF Works
    <3> QED BY <1>2, <3>1
  <2>2. sim_instr_counter \in Nat
    BY DEF IInv, WorkTypes
  <2> HIDE DEF touched
  <2> QED BY <1>2, <2>1, <2>2 DEF Reports
<1> HIDE DEF ms, report
<1>7. ms \o <<report>> \in Seq(S)
  <2>1. ms \in Seq(S) /\ report \in S
    BY <1>5, <1>6
  <2> HIDE DEF S
  <2> QED BY <2>1
<1>8. WellSent(ms \o <<report>>)
  <2> DEFINE s == ms \o <<report>>
             k == Len(ms) + 1
  <2>1. /\ DOMAIN s = 1 .. k /\ s[k] = report /\ \A i \in 1 .. Len(ms) : s[i] = ms[i]
    BY <1>5
  <2> HIDE DEF s
  <2> SUFFICES ASSUME NEW i \in DOMAIN s, s[i].type = "SEND_MESSAGE", SentInRun(s[i].tuple)
               PROVE  /\ Leads(s[i], sim) = s[i].tuple[4]
                      /\ \E j \in DOMAIN s : i < j /\ s[j].type = "NODE_RUN"
    BY DEF WellSent, s
  <2>2. i # k
    BY <1>6, <2>1
  <2>3. i \in 1 .. Len(ms) /\ i < k /\ k \in DOMAIN s
    BY <1>5, <2>1, <2>2
  <2>4. s[i] = ms[i] /\ i \in DOMAIN tmp_work
    BY <1>5, <2>1, <2>3
  <2>5. Leads(s[i], sim) = s[i].tuple[4]
    BY <1>4, <2>4
  <2> QED BY <1>6, <2>1, <2>3, <2>5
<1>9. NodesKept
  BY ReportNodes DEF TravelInv
<1> HIDE DEF S
<1> QED BY <1>1, <1>2, <1>7, <1>8, <1>9, WriteTravels DEF S

(***************************************************************************)
(* What the simulator does: it schedules whom it tells something.           *)
(***************************************************************************)
\* The simulator schedules nodes, and takes none out of the schedule.
SchedulesMore ==
  \A n \in Ids : /\ sim[n].next <= sim'[n].next /\ (Scheduled(n) => Scheduled(n)')
                 /\ sim'[n].active => Scheduled(n)'

\* The simulator sends m, which is no order; whoever it is for is scheduled.
Tells(m) ==
  /\ toVM' = Append(toVM, m) /\ m.type \notin {"CREATE_N_NODES", "RUN_NODE"}
  /\ m.type = "USE_THREADS" => ~deterministic
  /\ \A n \in Ids, f \in Faces :
       sim'[n].face[f] = IF Changes(m, n, f) THEN Put(m) ELSE sim[n].face[f]
  /\ m.type \in {"ADD_NEIGHBOR", "REMOVE_NEIGHBOR", "TAP", "ACCEL", "SHAKE"} =>
       m.ts <= sim'[m.node].next /\ Scheduled(m.node)'
  /\ m.type = "RECEIVE_MESSAGE" =>
       \A d \in Ids : d = Leads(m, sim) => m.ts <= sim'[d].next /\ Scheduled(d)'

LEMMA NextLarger ==
  ASSUME NEW s \in Blocks, NEW ts \in Nat
  PROVE  /\ NextTimestamp(s, ts) \in Nat /\ s.next <= NextTimestamp(s, ts)
         /\ ts <= NextTimestamp(s, ts) /\ s.ts <= NextTimestamp(s, ts)
<1>1. PICK a \in Nat, c \in Nat : a = s.next /\ c = s.ts
  BY DEF Blocks
<1>2. PICK d : d = Largest(a + 1, ts + 1)
  OBVIOUS
<1>3. d \in Nat /\ a <= d /\ ts <= d
  BY <1>2 DEF Largest
<1>4. PICK e : e = Largest(d, c)
  OBVIOUS
<1>5. e \in Nat /\ d <= e /\ c <= e
  BY <1>3, <1>4 DEF Largest
<1>6. NextTimestamp(s, ts) = e
  BY <1>1, <1>2, <1>4 DEF NextTimestamp
<1> QED BY <1>1, <1>3, <1>5, <1>6

\* activate_node: the node is scheduled, for a time that is late enough.
LEMMA ActivateShape ==
  ASSUME NEW s \in [Ids -> Blocks], NEW n \in Ids, NEW ts \in Nat, pqueue \in Seq(Ids),
         activate_node(s, n, ts), \A k \in Ids : s[k].active => Scheduled(k)
  PROVE  /\ \A k \in Ids : sim'[k].face = s[k].face /\ s[k].next <= sim'[k].next
         /\ ts <= sim'[n].next /\ s[n].ts <= sim'[n].next /\ Scheduled(n)'
         /\ \A k \in Ids : /\ Scheduled(k) => Scheduled(k)'
                           /\ sim'[k].active => Scheduled(k)'
<1> DEFINE next == NextTimestamp(s[n], ts)
           b == [s[n] EXCEPT !.active = TRUE, !.next = next]
<1>1. \A k \in Ids : s[k] \in Blocks /\ s[k].next \in Nat /\ s[k].ts \in Nat
  BY DEF Blocks
<1>2. next \in Nat /\ s[n].next <= next /\ ts <= next /\ s[n].ts <= next
  BY <1>1, NextLarger
<1>3. sim' = [s EXCEPT ![n] = b]
  BY DEF activate_node
<1> HIDE DEF next
<1>4. b \in Blocks /\ b.next = next /\ b.face = s[n].face
  BY <1>1, <1>2 DEF Blocks
<1> HIDE DEF b
<1>5. /\ sim'[n].next = next /\ \A k \in Ids : sim'[k].face = s[k].face
      /\ \A k \in Ids : s[k].next <= sim'[k].next /\ (k # n => sim'[k] = s[k])
  BY <1>1, <1>2, <1>3, <1>4
<1>6. Scheduled(n)' /\ \A k \in Ids : Scheduled(k) => Scheduled(k)'
  <2>1. CASE s[n].active
    <3>1. pqueue' = pqueue /\ Scheduled(n)
      BY <2>1 DEF activate_node
    <3> QED BY <3>1 DEF Scheduled
  <2>2. CASE ~s[n].active
    <3>1. pqueue' = Append(pqueue, n)
      BY <2>2 DEF activate_node
    <3>2. /\ \A p \in DOMAIN pqueue : p \in DOMAIN pqueue' /\ pqueue'[p] = pqueue[p]
          /\ Len(pqueue) + 1 \in DOMAIN pqueue' /\ pqueue'[Len(pqueue) + 1] = n
      BY <3>1, AppendMember
    <3> QED BY <3>2 DEF Scheduled
  <2> QED BY <2>1, <2>2
<1>7. \A k \in Ids : sim'[k].active => Scheduled(k)'
  BY <1>5, <1>6
<1> QED BY <1>2, <1>5, <1>6, <1>7

LEMMA TouchTells ==
  ASSUME IInv, ScheduleInv, NEW n \in Ids, NEW m \in VMMessages,
         m.type \in {"ADD_NEIGHBOR", "REMOVE_NEIGHBOR", "TAP", "ACCEL", "SHAKE"},
         m.node = n, m.ts = sim[n].ts, NEW s \in [Ids -> Blocks],
         \A k \in Ids : /\ s[k].next = sim[k].next /\ s[k].ts = sim[k].ts
                        /\ s[k].active = sim[k].active
         /\ \A f \in Faces : s[k].face[f] = IF Changes(m, k, f) THEN Put(m) ELSE sim[k].face[f],
         Write(n, m, s)
  PROVE  Tells(m) /\ SchedulesMore
<1>1. simpc \in {"loop", "turn"} /\ toVM' = Append(toVM, m) /\ activate_node(s, n, 0)
  BY DEF Write, Turn
<1>2. pqueue \in Seq(Ids) /\ 0 \in Nat /\ \A k \in Ids : s[k].active => Scheduled(k)
  BY <1>1 DEF IInv, SimTypes, ScheduleInv
<1>3. /\ \A k \in Ids : sim'[k].face = s[k].face /\ s[k].next <= sim'[k].next
      /\ s[n].ts <= sim'[n].next /\ Scheduled(n)'
      /\ \A k \in Ids : /\ Scheduled(k) => Scheduled(k)'
                        /\ sim'[k].active => Scheduled(k)'
  BY <1>1, <1>2, ActivateShape
<1>4. SchedulesMore
  BY <1>3 DEF SchedulesMore
<1>5. Tells(m)
  BY <1>1, <1>3 DEF Tells
<1> QED BY <1>4, <1>5

(***************************************************************************)
(* TravelInv and the steps of the simulator.                                *)
(***************************************************************************)
\* The simulator sends m.
Written(m) ==
  /\ simpc # "start" /\ UNCHANGED vmVars /\ toVM' = Append(toVM, m)
  /\ \A n \in Ids, f \in Faces :
       sim'[n].face[f] = IF Changes(m, n, f) THEN Put(m) ELSE sim[n].face[f]

LEMMA NodesFrame ==
  ASSUME UNCHANGED vmVars
  PROVE  UNCHANGED <<node, gathered, slave, vmpc, current_node, sim_instr_limit, thread_mode>>
         /\ \A n, f : Known(n, f)' = Known(n, f)
BY DEF vmVars, flagVars, masterVars, slaveVars, Known

LEMMA SentShape ==
  ASSUME IInv, NEW m \in VMMessages, Written(m)
  PROVE  /\ toVM \in Seq(VMMessages) /\ Len(toVM) \in Nat /\ toVM' \in Seq(VMMessages)
         /\ Len(toVM') = Len(toVM) + 1
         /\ \A i \in DOMAIN toVM : /\ i \in Nat /\ i > 0 /\ i <= Len(toVM)
                                   /\ i \in DOMAIN toVM' /\ toVM'[i] = toVM[i]
         /\ \A i \in DOMAIN toVM' : i \in DOMAIN toVM \/ (i = Len(toVM) + 1 /\ toVM'[i] = m)
         /\ Len(toVM) + 1 \in DOMAIN toVM' /\ toVM'[Len(toVM) + 1] = m
<1>1. toVM \in Seq(VMMessages) /\ toVM' = Append(toVM, m)
  BY DEF IInv, ChannelTypes, Written
<1>2. Len(toVM) \in Nat /\ DOMAIN toVM = 1 .. Len(toVM) /\ Len(Append(toVM, m)) = Len(toVM) + 1
  BY <1>1
<1> QED BY <1>1, <1>2, AppendMember

\* A message still leads where it led.
LEMMA ReachesStill ==
  ASSUME IInv, NEW m \in VMMessages, Written(m), NEW i \in DOMAIN toVM, NEW d, Reaches(i, d)
  PROVE  Reaches(i, d)'
<1>1. /\ toVM \in Seq(VMMessages) /\ i \in Nat /\ i > 0 /\ i <= Len(toVM) /\ Len(toVM) \in Nat
      /\ toVM'[i] = toVM[i] /\ toVM' = Append(toVM, m)
  BY SentShape DEF Written
<1>2. i - 1 \in 0 .. Len(toVM)
  BY <1>1
<1>3. \A n, f : Known(n, f)' = Known(n, f)
  BY NodesFrame DEF Written
<1>4. CASE toVM[i].face = INVALID_FACE
  BY <1>1, <1>4 DEF Reaches
<1>5. CASE toVM[i].face # INVALID_FACE
  <2>0. PICK n, f : n = toVM[i].node /\ f = toVM[i].face
    OBVIOUS
  <2>1. Shows(toVM, i - 1, n, f, Known(n, f), d)
    BY <1>5, <2>0 DEF Reaches
  <2>2. Shows(Append(toVM, m), i - 1, n, f, Known(n, f), d)
    BY <1>1, <1>2, <2>1, ShowsPrefix
  <2>3. Shows(toVM', i - 1, n, f, Known(n, f)', d)
    BY <1>1, <1>3, <2>2
  <2>4. toVM'[i].node = n /\ toVM'[i].face = f
    BY <1>1, <2>0
  <2> QED BY <1>5, <2>0, <2>3, <2>4 DEF Reaches, Known
<1> QED BY <1>4, <1>5

\* A tuple leads to where it led the simulator.
LEMMA ReachesNow ==
  ASSUME IInv, FaceInv, NEW m \in Receipts, Written(m), NEW d, d = Leads(m, sim),
         NEW k \in Nat, k = Len(toVM)
  PROVE  Reaches(k + 1, d)'
<1>0. m \in VMMessages /\ m.node \in Ids /\ m.face \in Faces \cup {INVALID_FACE}
  BY DEF VMMessages, Receipts
<1>1. /\ toVM \in Seq(VMMessages) /\ Len(toVM) \in Nat /\ toVM' = Append(toVM, m)
      /\ toVM'[Len(toVM) + 1] = m
  BY <1>0, SentShape DEF Written
<1>3. \A n, f : Known(n, f)' = Known(n, f)
  BY NodesFrame DEF Written
<1>4. CASE m.face = INVALID_FACE
  <2>1. toVM'[k + 1] = m
    BY <1>1
  <2> QED BY <1>4, <2>1 DEF Reaches, Leads
<1>5. CASE m.face # INVALID_FACE
  <2>0. PICK n \in Ids, f \in Faces : n = m.node /\ f = m.face
    BY <1>0, <1>5
  <2>1. d = sim[n].face[f]
    BY <1>5, <2>0 DEF Leads
  <2>2. Shows(toVM, k, n, f, Known(n, f), d)
    BY <2>1 DEF FaceInv, Written
  <2>3. k \in 0 .. Len(toVM)
    OBVIOUS
  <2>4. Shows(Append(toVM, m), k, n, f, Known(n, f), d)
    BY <1>0, <1>1, <2>2, <2>3, ShowsPrefix
  <2>5. Shows(toVM', (k + 1) - 1, n, f, Known(n, f)', d)
    <3>1. (k + 1) - 1 = k
      OBVIOUS
    <3> QED BY <1>1, <1>3, <2>4, <3>1
  <2>6. toVM'[k + 1].node = n /\ toVM'[k + 1].face = f /\ f # INVALID_FACE
    BY <1>1, <1>5, <2>0
  <2> QED BY <2>5, <2>6 DEF Reaches, Known
<1> QED BY <1>4, <1>5

LEMMA AppendTravels ==
  ASSUME IInv, TravelInv, SendInv', simpc' # "start", NEW m \in VMMessages, Written(m),
         m.type # "CREATE_N_NODES",
         m.type \in {"ADD_NEIGHBOR", "REMOVE_NEIGHBOR"} => ~Running /\ Absent("RUN_NODE", toVM),
         m.type = "RECEIVE_MESSAGE" /\ SentInRun(m.tuple) => Leads(m, sim) = m.tuple[4]
  PROVE  TravelInv'
<1> USE DEF TravelInv
<1>1. /\ toVM \in Seq(VMMessages) /\ Len(toVM) \in Nat /\ toVM' = Append(toVM, m)
      /\ \A i \in DOMAIN toVM : /\ i \in Nat /\ i <= Len(toVM) /\ i \in DOMAIN toVM'
                                /\ toVM'[i] = toVM[i]
      /\ \A i \in DOMAIN toVM' : i \in DOMAIN toVM \/ (i = Len(toVM) + 1 /\ toVM'[i] = m)
      /\ Len(toVM) + 1 \in DOMAIN toVM' /\ toVM'[Len(toVM) + 1] = m
  BY SentShape DEF Written
<1>2. /\ UNCHANGED <<node, gathered, slave, vmpc>> /\ simpc # "start"
      /\ \A n, f : Known(n, f)' = Known(n, f)
  BY NodesFrame DEF Written
<1>3. RecordInv'
  BY <1>2 DEF RecordInv
<1>4. FirstInv'
  <2>1. /\ Single("CREATE_N_NODES", toVM')
        /\ Absent("CREATE_N_NODES", toVM) => Absent("CREATE_N_NODES", toVM')
    BY <1>1, AbsentAppend DEF FirstInv
  <2>2. ASSUME DOMAIN node' = {}
        PROVE  \E j \in DOMAIN toVM' :
                 /\ toVM'[j].type = "CREATE_N_NODES"
                 /\ \A i \in DOMAIN toVM' : i < j => toVM'[i].type = "USE_THREADS"
    <3>1. PICK j \in DOMAIN toVM :
            /\ toVM[j].type = "CREATE_N_NODES"
            /\ \A i \in DOMAIN toVM : i < j => toVM[i].type = "USE_THREADS"
      BY <1>2, <2>2 DEF FirstInv
    <3>2. j \in DOMAIN toVM' /\ toVM'[j] = toVM[j] /\ j \in Nat /\ j <= Len(toVM)
      BY <1>1
    <3>3. ASSUME NEW i \in DOMAIN toVM', i < j PROVE toVM'[i].type = "USE_THREADS"
      <4>1. i # Len(toVM) + 1
        BY <1>1, <3>2, <3>3
      <4>2. i \in DOMAIN toVM /\ toVM'[i] = toVM[i]
        BY <1>1, <4>1
      <4> QED BY <3>1, <3>3, <4>2
    <3> QED BY <3>1, <3>2, <3>3
  <2> QED BY <1>2, <2>1, <2>2 DEF FirstInv
<1>5. FaceInv'
  <2> SUFFICES ASSUME NEW n \in Ids, NEW f \in Faces
               PROVE  Shows(toVM', Len(toVM'), n, f, Known(n, f)', sim'[n].face[f])
    BY DEF FaceInv
  <2>1. Shows(toVM, Len(toVM), n, f, Known(n, f), sim[n].face[f])
    BY <1>2 DEF FaceInv
  <2>2. Shows(Append(toVM, m), Len(Append(toVM, m)), n, f, Known(n, f),
              IF Changes(m, n, f) THEN Put(m) ELSE sim[n].face[f])
    BY <1>1, <2>1, ShowsAppend
  <2>3. sim'[n].face[f] = IF Changes(m, n, f) THEN Put(m) ELSE sim[n].face[f]
    BY DEF Written
  <2> QED BY <1>1, <1>2, <2>2, <2>3
<1>6. AheadInv'
  <2> SUFFICES ASSUME Running' \/ ~Absent("RUN_NODE", toVM'), NEW i \in DOMAIN toVM',
                      toVM'[i].type \in {"ADD_NEIGHBOR", "REMOVE_NEIGHBOR"}
               PROVE  \E j \in DOMAIN toVM' : i < j /\ toVM'[j].type = "RUN_NODE"
    BY DEF AheadInv
  <2>0. Running' => Running
    BY <1>2 DEF Running
  <2>1. CASE m.type = "RUN_NODE"
    <3>1. i \in DOMAIN toVM /\ i \in Nat /\ i <= Len(toVM)
      BY <1>1, <2>1
    <3>2. i < Len(toVM) + 1
      BY <1>1, <3>1
    <3> QED BY <1>1, <2>1, <3>2
  <2>2. CASE m.type # "RUN_NODE"
    <3>1. Running \/ ~Absent("RUN_NODE", toVM)
      BY <1>1, <2>0, <2>2 DEF Absent
    <3>2. i \in DOMAIN toVM /\ toVM'[i] = toVM[i]
      BY <1>1, <3>1
    <3>3. PICK j \in DOMAIN toVM : i < j /\ toVM[j].type = "RUN_NODE"
      BY <3>1, <3>2 DEF AheadInv
    <3>4. j \in DOMAIN toVM' /\ toVM'[j] = toVM[j]
      BY <1>1
    <3> QED BY <3>3, <3>4
  <2> QED BY <2>1, <2>2
<1>7. ArriveInv'
  <2> SUFFICES ASSUME NEW i \in DOMAIN toVM', toVM'[i].type = "RECEIVE_MESSAGE",
                      SentInRun(toVM'[i].tuple)
               PROVE  Reaches(i, toVM[i].tuple[4])'
    BY DEF ArriveInv, SentInRun
  <2>1. PICK d : d = toVM'[i].tuple[4]
    OBVIOUS
  <2>2. CASE i \in DOMAIN toVM
    <3>1. toVM'[i] = toVM[i]
      BY <1>1, <2>2
    <3>2. Reaches(i, d)
      BY <2>1, <2>2, <3>1 DEF ArriveInv
    <3>3. Reaches(i, d)'
      BY <2>2, <3>2, ReachesStill
    <3> QED BY <2>1, <3>3
  <2>3. CASE i = Len(toVM) + 1 /\ toVM'[i] = m
    <3>1. m \in Receipts /\ d = Leads(m, sim)
      BY <2>1, <2>3, MessageTypes
    <3>2. PICK k \in Nat : k = Len(toVM)
      BY <1>1
    <3>3. Reaches(k + 1, d)'
      BY <3>1, <3>2, ReachesNow
    <3>4. Reaches(i, d)'
      BY <2>3, <3>2, <3>3
    <3> QED BY <2>1, <3>4
  <2> QED BY <1>1, <2>2, <2>3
<1> QED BY <1>3, <1>4, <1>5, <1>6, <1>7

\* The simulator reads a message and sends none.
LEMMA ListenTravels ==
  ASSUME IInv, TravelInv, SendInv', simpc # "start" \/ simpc' = "start", UNCHANGED vmVars, UNCHANGED toVM,
         simpc # "start" => \A n \in Ids, f \in Faces : sim'[n].face[f] = sim[n].face[f]
  PROVE  TravelInv'
<1> USE DEF TravelInv
<1>2. /\ UNCHANGED <<node, gathered, slave, vmpc>>
      /\ \A n, f : Known(n, f)' = Known(n, f)
  BY NodesFrame
<1>3. RecordInv'
  BY <1>2 DEF RecordInv
<1>4. FirstInv'
  BY <1>2 DEF FirstInv
<1>5. FaceInv'
  BY <1>2 DEF FaceInv
<1>6. AheadInv'
  BY <1>2 DEF AheadInv, Running
<1>7. ArriveInv'
  BY <1>2 DEF ArriveInv, Reaches, Known
<1> QED BY <1>3, <1>4, <1>5, <1>6, <1>7

SameFaces == \A n \in Ids, f \in Faces : sim'[n].face[f] = sim[n].face[f]

LEMMA LeadsSame ==
  ASSUME NEW m \in Sends, SameFaces PROVE Leads(m, sim') = Leads(m, sim)
<1>1. m.node \in Ids /\ m.face \in Faces \cup {INVALID_FACE}
  BY DEF Sends
<1> QED BY <1>1 DEF Leads, SameFaces

\* The simulator reads a message, or none, and the blocks stay where they are.
LEMMA SendsRead ==
  ASSUME IInv, SendInv, SameFaces, toSim' = toSim \/ (toSim # <<>> /\ toSim' = Tail(toSim))
  PROVE  SendInv'
<1> DEFINE S == Sends \cup Colors \cup Reports
<1>1. toSim \in Seq(S)
  BY DEF IInv, ChannelTypes
<1> HIDE DEF S
<1>2. PICK c \in {0, 1} :
        /\ \A i \in DOMAIN toSim' : i \in Nat /\ i + c \in DOMAIN toSim /\ toSim'[i] = toSim[i + c]
        /\ \A i \in DOMAIN toSim : /\ i \in Nat
                                   /\ i > c => i - c \in DOMAIN toSim' /\ toSim'[i - c] = toSim[i]
  <2>0. DOMAIN toSim = 1 .. Len(toSim) /\ Len(toSim) \in Nat
    BY <1>1
  <2>1. CASE toSim' = toSim
    <3>1. /\ \A i \in DOMAIN toSim' : i \in Nat /\ i + 0 \in DOMAIN toSim /\ toSim'[i] = toSim[i + 0]
          /\ \A i \in DOMAIN toSim : i \in Nat /\ i - 0 \in DOMAIN toSim' /\ toSim'[i - 0] = toSim[i]
      BY <2>0, <2>1
    <3> QED BY <3>1
  <2>2. CASE toSim # <<>> /\ toSim' = Tail(toSim)
    <3>1. /\ \A i \in DOMAIN toSim' : i \in Nat /\ i + 1 \in DOMAIN toSim /\ toSim'[i] = toSim[i + 1]
          /\ \A i \in DOMAIN toSim : i # 1 => i - 1 \in DOMAIN toSim' /\ toSim'[i - 1] = toSim[i]
      BY <1>1, <2>2, TailShape
    <3>2. \A i \in DOMAIN toSim : i \in Nat
      BY <2>0
    <3>3. \A i \in DOMAIN toSim : i > 1 => i - 1 \in DOMAIN toSim' /\ toSim'[i - 1] = toSim[i]
      BY <3>1, <3>2
    <3> QED BY <3>1, <3>2, <3>3
  <2> QED BY <2>1, <2>2
<1> SUFFICES ASSUME NEW i \in DOMAIN toSim', toSim'[i].type = "SEND_MESSAGE",
                    SentInRun(toSim'[i].tuple)
             PROVE  /\ Leads(toSim'[i], sim') = toSim'[i].tuple[4]
                    /\ \E j \in DOMAIN toSim' : i < j /\ toSim'[j].type = "NODE_RUN"
  BY Zenon DEF SendInv
<1>3. PICK x : x = toSim'[i]
  OBVIOUS
<1>4. i \in Nat /\ i + c \in DOMAIN toSim /\ x = toSim[i + c] /\ i + c \in Nat
  BY <1>2, <1>3
<1>5. x.type = "SEND_MESSAGE" /\ SentInRun(x.tuple)
  BY <1>3
<1>6. /\ Leads(x, sim) = x.tuple[4]
      /\ \E j \in DOMAIN toSim : i + c < j /\ toSim[j].type = "NODE_RUN"
  BY <1>4, <1>5 DEF SendInv
<1>7. x \in Sends
  BY <1>1, <1>4, <1>5 DEF S, Colors, Reports
<1>8. Leads(x, sim') = x.tuple[4]
  BY <1>6, <1>7, LeadsSame
<1>9. PICK j \in DOMAIN toSim : i + c < j /\ toSim[j].type = "NODE_RUN"
  BY <1>6
<1>10. j \in Nat /\ j > c /\ i < j - c
  BY <1>2, <1>4, <1>9
<1>11. j - c \in DOMAIN toSim' /\ toSim'[j - c] = toSim[j]
  BY <1>2, <1>10
<1> QED BY <1>3, <1>8, <1>9, <1>10, <1>11

\* Nothing that a run has sent is under way while no report is.
LEMMA SendsNone ==
  ASSUME SendInv, UNCHANGED toSim, Absent("NODE_RUN", toSim) PROVE SendInv'
<1>1. \A i \in DOMAIN toSim : ~(toSim[i].type = "SEND_MESSAGE" /\ SentInRun(toSim[i].tuple))
  BY DEF SendInv, Absent
<1> QED BY <1>1, Zenon DEF SendInv, SentInRun

\* The scenario tells the VM, which is not running a node.
LEMMA ScenarioTells ==
  ASSUME IInv, ScheduleInv, Scenario
  PROVE  \E m \in VMMessages :
           /\ m.type \in {"ADD_NEIGHBOR", "REMOVE_NEIGHBOR", "TAP", "ACCEL", "SHAKE"}
           /\ Tells(m) /\ SchedulesMore
           /\ simpc \in {"loop", "turn"} /\ simpc' = simpc /\ UNCHANGED <<toSim, deterministic>>
<1>0. simpc \in {"loop", "turn"} /\ simpc' = simpc /\ UNCHANGED <<toSim, deterministic>>
  BY DEF Scenario, write_add_neighbor, write_remove_neighbor, write_tap, write_accel,
         write_shake, Write, Turn
<1>1. sim \in [Ids -> Blocks]
  BY <1>0 DEF IInv, SimTypes
<1>2. \A k \in Ids : sim[k] \in Blocks /\ sim[k].ts \in Nat /\ DOMAIN sim[k].face = Faces
  BY <1>1 DEF Blocks
<1>3. ASSUME NEW p \in Neighbors PROVE p[1] \in Ids /\ p[2] \in Ids /\ p[3] \in Faces
  BY ScenarioAssumption
<1> DEFINE Placed(n, side, x) == [sim EXCEPT ![n].face[side] = x]
<1>4. ASSUME NEW n \in Ids, NEW side \in Faces, NEW x \in Ids \cup {NO_NEIGHBOR}
      PROVE  /\ Placed(n, side, x) \in [Ids -> Blocks]
             /\ \A k \in Ids : /\ Placed(n, side, x)[k].next = sim[k].next
                               /\ Placed(n, side, x)[k].ts = sim[k].ts
                               /\ Placed(n, side, x)[k].active = sim[k].active
             /\ \A k \in Ids, f \in Faces : Placed(n, side, x)[k].face[f] =
                                  IF k = n /\ f = side THEN x ELSE sim[k].face[f]
  <2> DEFINE b == [sim[n] EXCEPT !.face[side] = x]
  <2>2. /\ b \in Blocks /\ b.next = sim[n].next /\ b.ts = sim[n].ts /\ b.active = sim[n].active
        /\ \A f \in Faces : b.face[f] = IF f = side THEN x ELSE sim[n].face[f]
    BY <1>2 DEF Blocks
  <2>3. Placed(n, side, x) = [sim EXCEPT ![n] = b]
    OBVIOUS
  <2> HIDE DEF b, Placed
  <2> QED BY <1>1, <2>2, <2>3
<1>5. ASSUME NEW p \in Neighbors, write_add_neighbor(p[1], p[2], p[3])
      PROVE  \E m \in VMMessages :
               /\ m.type \in {"ADD_NEIGHBOR", "REMOVE_NEIGHBOR", "TAP", "ACCEL", "SHAKE"}
               /\ Tells(m) /\ SchedulesMore
  <2> DEFINE m == [type |-> "ADD_NEIGHBOR", ts |-> sim[p[1]].ts, node |-> p[1],
                   out |-> p[2], face |-> p[3]]
             s == Placed(p[1], p[3], p[2])
  <2>1. /\ m \in VMMessages /\ m.type = "ADD_NEIGHBOR" /\ m.node = p[1] /\ m.ts = sim[p[1]].ts
        /\ m.face = p[3] /\ m.out = p[2]
    <3>1. m \in Additions
      BY <1>2, <1>3 DEF Additions
    <3> QED BY <3>1 DEF VMMessages
  <2>2. Write(p[1], m, s)
    BY <1>5 DEF write_add_neighbor
  <2> HIDE DEF m
  <2>3. /\ s \in [Ids -> Blocks]
        /\ \A k \in Ids : s[k].next = sim[k].next /\ s[k].ts = sim[k].ts /\ s[k].active = sim[k].active
        /\ \A k \in Ids, f \in Faces :
             s[k].face[f] = IF k = p[1] /\ f = p[3] THEN p[2] ELSE sim[k].face[f]
    <3> HIDE DEF Placed
    <3> QED BY <1>3, <1>4
  <2> HIDE DEF s, Placed
  <2>4. \A k \in Ids, f \in Faces : s[k].face[f] = IF Changes(m, k, f) THEN Put(m) ELSE sim[k].face[f]
    BY <2>1, <2>3 DEF Changes, Put
  <2>5. Tells(m) /\ SchedulesMore
    BY <1>3, <2>1, <2>2, <2>3, <2>4, TouchTells
  <2> QED BY <2>1, <2>5
<1>6. ASSUME NEW p \in Neighbors, write_remove_neighbor(p[1], p[3])
      PROVE  \E m \in VMMessages :
               /\ m.type \in {"ADD_NEIGHBOR", "REMOVE_NEIGHBOR", "TAP", "ACCEL", "SHAKE"}
               /\ Tells(m) /\ SchedulesMore
  <2> DEFINE m == [type |-> "REMOVE_NEIGHBOR", ts |-> sim[p[1]].ts, node |-> p[1],
                   face |-> p[3]]
             s == Placed(p[1], p[3], NO_NEIGHBOR)
  <2>1. /\ m \in VMMessages /\ m.type = "REMOVE_NEIGHBOR" /\ m.node = p[1] /\ m.ts = sim[p[1]].ts
        /\ m.face = p[3]
    <3>1. m \in Removals
      BY <1>2, <1>3 DEF Removals
    <3> QED BY <3>1 DEF VMMessages
  <2>2. Write(p[1], m, s)
    BY <1>6 DEF write_remove_neighbor
  <2> HIDE DEF m
  <2>3. /\ s \in [Ids -> Blocks]
        /\ \A k \in Ids : s[k].next = sim[k].next /\ s[k].ts = sim[k].ts /\ s[k].active = sim[k].active
        /\ \A k \in Ids, f \in Faces :
             s[k].face[f] = IF k = p[1] /\ f = p[3] THEN NO_NEIGHBOR ELSE sim[k].face[f]
    <3> HIDE DEF Placed
    <3>1. NO_NEIGHBOR \in Ids \cup {NO_NEIGHBOR}
      OBVIOUS
    <3> QED BY <1>3, <1>4, <3>1
  <2> HIDE DEF s, Placed
  <2>4. \A k \in Ids, f \in Faces : s[k].face[f] = IF Changes(m, k, f) THEN Put(m) ELSE sim[k].face[f]
    BY <2>1, <2>3 DEF Changes, Put
  <2>5. Tells(m) /\ SchedulesMore
    BY <1>3, <2>1, <2>2, <2>3, <2>4, TouchTells
  <2> QED BY <2>1, <2>5
<1>7. ASSUME NEW n \in Touched, write_tap(n) \/ write_accel(n) \/ write_shake(n)
      PROVE  \E m \in VMMessages :
               /\ m.type \in {"ADD_NEIGHBOR", "REMOVE_NEIGHBOR", "TAP", "ACCEL", "SHAKE"}
               /\ Tells(m) /\ SchedulesMore
  <2>1. n \in Ids
    BY ScenarioAssumption
  <2>2. PICK type \in {"TAP", "ACCEL", "SHAKE"} :
          Write(n, [type |-> type, ts |-> sim[n].ts, node |-> n], sim)
    BY <1>7 DEF write_tap, write_accel, write_shake
  <2> DEFINE m == [type |-> type, ts |-> sim[n].ts, node |-> n]
  <2>3. m \in VMMessages /\ m.type \in {"TAP", "ACCEL", "SHAKE"} /\ m.node = n /\ m.ts = sim[n].ts
    <3>1. m \in Touches
      BY <1>2, <2>1 DEF Touches
    <3> QED BY <3>1 DEF VMMessages
  <2>4. Write(n, m, sim)
    BY <2>2
  <2> HIDE DEF m, Placed
  <2>5. \A k \in Ids, f \in Faces : sim[k].face[f] = IF Changes(m, k, f) THEN Put(m) ELSE sim[k].face[f]
    BY <2>3 DEF Changes
  <2>6. Tells(m) /\ SchedulesMore
    BY <1>1, <2>1, <2>3, <2>4, <2>5, TouchTells
  <2> QED BY <2>3, <2>6
<1> QED BY <1>0, <1>5, <1>6, <1>7 DEF Scenario

LEMMA FirstRead ==
  ASSUME IInv, ScheduleInv, force_read
  PROVE  /\ simpc # "start" /\ simpc' # "start" /\ toSim # <<>> /\ toSim' = Tail(toSim)
         /\ 1 \in DOMAIN toSim /\ toSim[1] \in Sends \cup Colors \cup Reports /\ handle_data(toSim[1])
         /\ sim \in [Ids -> Blocks] /\ pqueue \in Seq(Ids) /\ UNCHANGED deterministic
         /\ \A k \in Ids : sim[k].active => Scheduled(k)
<1> DEFINE S == Sends \cup Colors \cup Reports
<1>1. toSim \in Seq(S)
  BY DEF IInv, ChannelTypes
<1>2. /\ simpc \in {"loop", "run", "stop"} /\ toSim # <<>> /\ UNCHANGED deterministic
      /\ simpc' # "start" /\ handle_data(Head(toSim))
  BY DEF force_read
<1>3. toSim' = Tail(toSim)
  BY <1>2 DEF handle_data
<1>4. Head(toSim) = toSim[1] /\ toSim[1] \in S /\ 1 \in DOMAIN toSim
  <2> HIDE DEF S
  <2> QED BY <1>1, <1>2, TailShape
<1> QED BY <1>2, <1>3, <1>4 DEF IInv, SimTypes, ScheduleInv

\* A tuple is sent back as one received.
LEMMA SendTells ==
  ASSUME IInv, ScheduleInv, force_read, toSim[1].type = "SEND_MESSAGE"
  PROVE  \E m \in Receipts : /\ m.tuple = toSim[1].tuple /\ Leads(m, sim) = Leads(toSim[1], sim)
                             /\ Tells(m) /\ SchedulesMore /\ SameFaces
<1> DEFINE x == toSim[1]
<1>1. x \in Sends /\ sim \in [Ids -> Blocks] /\ pqueue \in Seq(Ids) /\ handle_data(x)
      /\ \A k \in Ids : sim[k].active => Scheduled(k)
  <2>1. x \in Sends \cup Colors \cup Reports
    BY FirstRead
  <2>2. x \in Sends
    BY <2>1 DEF Colors, Reports
  <2> QED BY <2>2, FirstRead
<1>2. SendMessage(x)
  BY <1>1 DEF handle_data
<1> DEFINE m == [x EXCEPT !.type = "RECEIVE_MESSAGE"]
<1> HIDE DEF x
<1>3. m \in Receipts /\ m.tuple = x.tuple /\ m.node = x.node /\ m.face = x.face /\ m.ts = x.ts
      /\ m.type = "RECEIVE_MESSAGE"
  BY <1>1 DEF Sends, Receipts
<1>4. toVM' = Append(toVM, m)
  BY <1>2 DEF SendMessage
<1> HIDE DEF m
<1>5. PICK d : d = Leads(x, sim)
  OBVIOUS
<1>6. Leads(m, sim) = d
  BY <1>3, <1>5 DEF Leads
<1>7. x.ts \in Nat /\ d \in Ids \cup {NO_NEIGHBOR} /\ NO_NEIGHBOR \notin Ids
  <2>1. x.node \in Ids /\ x.face \in Faces \cup {INVALID_FACE} /\ x.ts \in Nat
    BY <1>1 DEF Sends
  <2>2. sim[x.node].face \in [Faces -> Ids \cup {NO_NEIGHBOR}]
    BY <1>1, <2>1 DEF Blocks
  <2>3. NO_NEIGHBOR \notin Ids
    BY IdsAssumption, FS_CardinalityType DEF NO_NEIGHBOR
  <2> QED BY <1>5, <2>1, <2>2, <2>3 DEF Leads
<1>8. IF d = NO_NEIGHBOR THEN UNCHANGED <<sim, pqueue>> ELSE activate_node(sim, d, x.ts)
  BY <1>2, <1>5 DEF SendMessage, Leads
<1>9. \A k \in Ids : sim[k].next \in Nat
  BY <1>1 DEF Blocks
<1>10. /\ SameFaces /\ SchedulesMore
       /\ d \in Ids => x.ts <= sim'[d].next /\ Scheduled(d)'
  <2>1. CASE d = NO_NEIGHBOR
    BY <1>1, <1>7, <1>8, <1>9, <2>1 DEF SameFaces, SchedulesMore, Scheduled
  <2>2. CASE d # NO_NEIGHBOR
    <3>1. /\ \A k \in Ids : sim'[k].face = sim[k].face /\ sim[k].next <= sim'[k].next
          /\ x.ts <= sim'[d].next /\ Scheduled(d)'
          /\ \A k \in Ids : /\ Scheduled(k) => Scheduled(k)'
                            /\ sim'[k].active => Scheduled(k)'
      BY <1>1, <1>7, <1>8, <2>2, ActivateShape
    <3> QED BY <3>1 DEF SameFaces, SchedulesMore
  <2> QED BY <2>1, <2>2
<1>11. \A n \in Ids, f \in Faces :
         sim'[n].face[f] = IF Changes(m, n, f) THEN Put(m) ELSE sim[n].face[f]
  BY <1>3, <1>10 DEF Changes, SameFaces
<1>12. Tells(m)
  BY <1>3, <1>4, <1>6, <1>10, <1>11 DEF Tells
<1> QED BY <1>3, <1>5, <1>6, <1>10, <1>12 DEF x

\* A report or a colour is read.
LEMMA OtherListens ==
  ASSUME IInv, ScheduleInv, force_read, toSim[1].type # "SEND_MESSAGE"
  PROVE  UNCHANGED toVM /\ SameFaces /\ SchedulesMore
<1> DEFINE x == toSim[1]
<1>1. sim \in [Ids -> Blocks] /\ handle_data(x) /\ x \in Sends \cup Colors \cup Reports
      /\ \A k \in Ids : sim[k].active => Scheduled(k)
  BY FirstRead
<1>2. \A k \in Ids : sim[k] \in Blocks /\ sim[k].next \in Nat
  BY <1>1 DEF Blocks
<1>3. CASE x.type = "NODE_RUN"
  <2>1. sim' = NodeRun(sim, x) /\ UNCHANGED <<pqueue, toVM>>
    BY <1>1, <1>3 DEF handle_data
  <2>2. x \in Reports
    BY <1>1, <1>3 DEF Sends, Colors
  <2>3. PICK n \in Ids, ts \in Nat : n = x.node /\ ts = x.ts
    BY <2>2 DEF Reports
  <2> DEFINE next == Largest(ts, sim[n].next)
             b == [sim[n] EXCEPT !.ts = ts, !.next = next]
  <2>4. next \in Nat /\ sim[n].next <= next
    BY <1>2 DEF Largest
  <2>5. sim' = [sim EXCEPT ![n] = b]
    BY <2>1, <2>3 DEF NodeRun
  <2> HIDE DEF next
  <2>6. b \in Blocks /\ b.next = next /\ b.face = sim[n].face /\ b.active = sim[n].active
    BY <1>2, <2>4 DEF Blocks
  <2> HIDE DEF b
  <2>7. \A k \in Ids : sim'[k].face = sim[k].face /\ sim'[k].active = sim[k].active
                       /\ sim[k].next <= sim'[k].next
    BY <1>1, <1>2, <2>4, <2>5, <2>6
  <2> QED BY <1>1, <2>1, <2>7 DEF SameFaces, SchedulesMore, Scheduled
<1>4. CASE x.type # "NODE_RUN"
  <2>1. UNCHANGED <<sim, pqueue, toVM>>
    BY <1>1, <1>4 DEF handle_data
  <2> QED BY <1>1, <1>2, <2>1 DEF SameFaces, SchedulesMore, Scheduled
<1> QED BY <1>3, <1>4

\* A turn begins or ends.
LEMMA TurnListens ==
  ASSUME IInv, ScheduleInv, BeginTurn \/ EndTurn
  PROVE  /\ UNCHANGED <<toVM, toSim, deterministic>> /\ SameFaces /\ SchedulesMore
         /\ simpc # "start" /\ simpc' # "start"
<1>1. /\ UNCHANGED <<toVM, toSim, deterministic, sim, pqueue>>
      /\ simpc # "start" /\ simpc' # "start"
  BY DEF BeginTurn, EndTurn, TurnDue
<1>2. sim \in [Ids -> Blocks] /\ \A k \in Ids : sim[k].active => Scheduled(k)
  BY <1>1 DEF IInv, SimTypes, ScheduleInv
<1>3. \A k \in Ids : sim[k].next \in Nat
  BY <1>2 DEF Blocks
<1> QED BY <1>1, <1>2, <1>3 DEF SchedulesMore, SameFaces, Scheduled

\* The end of the scenario.
LEMMA StopTells ==
  ASSUME IInv, ScheduleInv, write_stop
  PROVE  /\ ~deterministic /\ UNCHANGED <<toSim, deterministic>> /\ simpc # "start" /\ simpc' # "start"
         /\ \E m \in VMMessages : m.type = "STOP" /\ Tells(m) /\ SchedulesMore /\ SameFaces
<1> DEFINE m == [type |-> "STOP", ts |-> 0]
<1>1. m \in VMMessages /\ m.type = "STOP"
  <2>1. m \in Notices
    BY DEF Notices
  <2> QED BY <2>1 DEF VMMessages
<1>2. /\ simpc = "loop" /\ simpc' = "stop" /\ toVM' = Append(toVM, m)
      /\ UNCHANGED <<toSim, sim, pqueue, deterministic>> /\ ~deterministic
  BY DEF write_stop
<1> HIDE DEF m
<1>3. sim \in [Ids -> Blocks] /\ \A k \in Ids : sim[k].active => Scheduled(k)
  BY <1>2 DEF IInv, SimTypes, ScheduleInv
<1>4. \A k \in Ids : sim[k].next \in Nat
  BY <1>3 DEF Blocks
<1>5. SchedulesMore /\ SameFaces
  BY <1>2, <1>3, <1>4 DEF SchedulesMore, SameFaces, Scheduled
<1>6. Tells(m)
  BY <1>1, <1>2, <1>5 DEF Tells, Changes, SameFaces
<1> QED BY <1>1, <1>2, <1>5, <1>6

\* The steps of main but the first and the orders of runs.
LEMMA MainTravels ==
  ASSUME IInv, TravelInv, ScheduleInv, Main, UNCHANGED vmVars,
         ~write_create_n_nodes, ~write_run_node
  PROVE  TravelInv'
<1>1. CASE Scenario
  <2>1. PICK m \in VMMessages :
           /\ m.type \in {"ADD_NEIGHBOR", "REMOVE_NEIGHBOR", "TAP", "ACCEL", "SHAKE"}
           /\ Tells(m)
           /\ simpc \in {"loop", "turn"} /\ simpc' = simpc /\ UNCHANGED toSim
    BY <1>1, ScenarioTells
  <2>2. ~Running /\ Absent("RUN_NODE", toVM) /\ Absent("NODE_RUN", toSim)
    BY <2>1 DEF IInv, RunInv
  <2>3. SendInv'
    BY <2>1, <2>2, SendsNone DEF TravelInv
  <2>4. Written(m) /\ m.type # "CREATE_N_NODES" /\ m.type # "RECEIVE_MESSAGE"
    BY <2>1 DEF Written, Tells
  <2> QED BY <2>1, <2>2, <2>3, <2>4, AppendTravels
<1>2. CASE force_read /\ toSim[1].type = "SEND_MESSAGE"
  <2>1. PICK m \in Receipts : /\ m.tuple = toSim[1].tuple /\ Leads(m, sim) = Leads(toSim[1], sim)
                              /\ Tells(m) /\ SameFaces
    BY <1>2, SendTells
  <2>2. /\ simpc # "start" /\ simpc' # "start" /\ toSim # <<>> /\ toSim' = Tail(toSim)
        /\ 1 \in DOMAIN toSim
    BY <1>2, FirstRead
  <2>3. SendInv'
    BY <2>1, <2>2, SendsRead DEF TravelInv
  <2>4. m \in VMMessages /\ m.type = "RECEIVE_MESSAGE"
    BY DEF Receipts, VMMessages
  <2>5. Written(m)
    BY <2>1, <2>2 DEF Written, Tells
  <2>6. SentInRun(m.tuple) => Leads(m, sim) = m.tuple[4]
    BY <1>2, <2>1, <2>2 DEF TravelInv, SendInv
  <2> QED BY <2>2, <2>3, <2>4, <2>5, <2>6, AppendTravels
<1>3. CASE force_read /\ toSim[1].type # "SEND_MESSAGE"
  <2>1. UNCHANGED toVM /\ SameFaces
    BY <1>3, OtherListens
  <2>2. simpc # "start" /\ toSim # <<>> /\ toSim' = Tail(toSim)
    BY <1>3, FirstRead
  <2>3. SendInv'
    BY <2>1, <2>2, SendsRead DEF TravelInv
  <2> QED BY <2>1, <2>2, <2>3, ListenTravels DEF SameFaces
<1>4. CASE write_stop
  <2>1. PICK m \in VMMessages : m.type = "STOP" /\ Tells(m) /\ SameFaces
    BY <1>4, StopTells
  <2>2. UNCHANGED toSim /\ simpc # "start" /\ simpc' # "start"
    BY <1>4, StopTells
  <2>3. SendInv'
    BY <2>1, <2>2, SendsRead DEF TravelInv
  <2>4. Written(m)
    BY <2>1, <2>2 DEF Written, Tells
  <2> QED BY <2>1, <2>2, <2>3, <2>4, AppendTravels
<1>5. CASE BeginTurn \/ EndTurn
  <2>1. UNCHANGED <<toVM, toSim>> /\ SameFaces /\ simpc # "start"
    BY <1>5, TurnListens
  <2>2. SendInv'
    BY <2>1, SendsRead DEF TravelInv
  <2> QED BY <2>1, <2>2, ListenTravels DEF SameFaces
<1> QED BY <1>1, <1>2, <1>3, <1>4, <1>5 DEF Main

\* The simulator orders a run: the node is no longer scheduled, the others are.
Ordered(m) ==
  /\ m.ts = sim[m.node].next /\ toVM' = Append(toVM, m) /\ SameFaces
  /\ simpc = "loop" /\ simpc' = "run" /\ UNCHANGED <<toSim, deterministic>>
  /\ \A k \in Ids : sim'[k].next = sim[k].next
  /\ \A k \in Ids \ {m.node} : sim'[k].active = sim[k].active /\ (Scheduled(k) => Scheduled(k)')
  /\ ~sim'[m.node].active

LEMMA OrderShape == ASSUME IInv, write_run_node PROVE \E m \in Orders : Ordered(m)
<1>1. /\ simpc = "loop" /\ simpc' = "run" /\ UNCHANGED <<toSim, deterministic>> /\ pqueue # <<>>
  BY DEF write_run_node
<1>3. sim \in [Ids -> Blocks] /\ pqueue \in Seq(Ids) /\ toVM \in Seq(VMMessages)
  BY <1>1 DEF IInv, SimTypes, ChannelTypes
<1>4. PICK pos \in DOMAIN pqueue : pos = get_next_node
  BY <1>1, NextNode DEF IInv
<1>5. PICK n \in Ids : n = pqueue[pos]
  BY <1>3
<1> DEFINE m == [type |-> "RUN_NODE", ts |-> sim[n].next, node |-> n]
<1>6. /\ pqueue' = [i \in 1 .. Len(pqueue) - 1 |-> pqueue[IF i < pos THEN i ELSE i + 1]]
      /\ toVM' = Append(toVM, m)
      /\ sim' = [sim EXCEPT ![n].active = FALSE, ![n].ts = sim[n].next]
  BY <1>4, <1>5 DEF write_run_node
<1>7. sim[n] \in Blocks /\ sim[n].next \in Nat
  BY <1>3 DEF Blocks
<1>8. m \in Orders /\ m.node = n /\ m.ts = sim[n].next
  BY <1>7 DEF Orders
<1> HIDE DEF m
<1> DEFINE b == [sim[n] EXCEPT !.active = FALSE, !.ts = sim[n].next]
<1>9. b \in Blocks /\ b.next = sim[n].next /\ b.face = sim[n].face /\ ~b.active
  BY <1>7 DEF Blocks
<1>10. sim' = [sim EXCEPT ![n] = b]
  BY <1>6
<1> HIDE DEF b
<1>11. /\ \A k \in Ids : sim'[k].next = sim[k].next /\ sim'[k].face = sim[k].face
       /\ \A k \in Ids \ {n} : sim'[k].active = sim[k].active
       /\ ~sim'[n].active
  BY <1>3, <1>9, <1>10
<1>12. ASSUME NEW k \in Ids \ {n}, Scheduled(k) PROVE Scheduled(k)'
  <2>1. PICK p \in DOMAIN pqueue : pqueue[p] = k
    BY <1>12 DEF Scheduled
  <2>2. /\ p \in Nat /\ pos \in Nat /\ p > 0 /\ pos > 0 /\ p <= Len(pqueue) /\ pos <= Len(pqueue)
        /\ Len(pqueue) \in Nat /\ p # pos
    BY <1>3, <1>5, <2>1
  <2>3. CASE p < pos
    <3>1. p \in 1 .. Len(pqueue) - 1
      BY <2>2, <2>3
    <3>2. p \in DOMAIN pqueue' /\ pqueue'[p] = k
      BY <1>6, <2>1, <2>3, <3>1
    <3> QED BY <3>2 DEF Scheduled
  <2>4. CASE p > pos
    <3>1. p - 1 \in 1 .. Len(pqueue) - 1 /\ ~(p - 1 < pos) /\ (p - 1) + 1 = p
      BY <2>2, <2>4
    <3>2. p - 1 \in DOMAIN pqueue' /\ pqueue'[p - 1] = k
      BY <1>6, <2>1, <3>1
    <3> QED BY <3>2 DEF Scheduled
  <2> QED BY <2>2, <2>3, <2>4
<1> QED BY <1>1, <1>6, <1>8, <1>11, <1>12 DEF Ordered, SameFaces

\* The simulator creates the nodes.
Creating ==
  /\ toVM = <<>> /\ DOMAIN node = {} /\ simpc = "start" /\ simpc' = "loop"
  /\ UNCHANGED <<toSim, deterministic>>
  /\ \E k \in {1, 2} :
       /\ DOMAIN toVM' = 1 .. k /\ toVM'[k].type = "CREATE_N_NODES"
       /\ k = 2 => toVM'[1].type = "USE_THREADS" /\ ~deterministic
  /\ \A i \in DOMAIN toVM' : toVM'[i] \in Notices
  /\ \A n \in Ids, f \in Faces : sim'[n].face[f] = NO_NEIGHBOR
  /\ \A n \in Ids : sim'[n].next = 1 /\ Scheduled(n)'

LEMMA CreateShape == ASSUME IInv, write_create_n_nodes PROVE Creating
<1>1. simpc = "start" /\ simpc' = "loop" /\ UNCHANGED <<toSim, deterministic>>
  BY DEF write_create_n_nodes
<1>2. DOMAIN node = {} /\ toVM = <<>>
  BY <1>1 DEF IInv, CreateInv
<1>3. /\ \E k \in {1, 2} :
           /\ DOMAIN toVM' = 1 .. k /\ toVM'[k].type = "CREATE_N_NODES"
           /\ k = 2 => toVM'[1].type = "USE_THREADS" /\ ~deterministic
      /\ \A i \in DOMAIN toVM' : toVM'[i] \in Notices
  <2> DEFINE a == [type |-> "USE_THREADS", ts |-> 0]
             b == [type |-> "CREATE_N_NODES", ts |-> 0]
  <2>1. a \in Notices /\ b \in Notices /\ a.type = "USE_THREADS" /\ b.type = "CREATE_N_NODES"
    BY DEF Notices
  <2>2. toVM' = <<>> \o (IF deterministic THEN <<>> ELSE <<a>>) \o <<b>>
    BY <1>2 DEF write_create_n_nodes
  <2> HIDE DEF a, b
  <2>3. CASE deterministic
    <3>1. toVM' = <<>> \o <<>> \o <<b>>
      BY <2>2, <2>3
    <3>2. DOMAIN toVM' = 1 .. 1 /\ toVM'[1] = b
      BY <2>1, <3>1
    <3> QED BY <2>1, <3>2
  <2>4. CASE ~deterministic
    <3>1. toVM' = <<>> \o <<a>> \o <<b>>
      BY <2>2, <2>4
    <3>2. DOMAIN toVM' = 1 .. 2 /\ toVM'[2] = b /\ toVM'[1] = a
      BY <2>1, <3>1
    <3> QED BY <2>1, <2>4, <3>2
  <2> QED BY <2>3, <2>4
<1>4. \A n \in Ids : sim'[n].next = 1 /\ \A f \in Faces : sim'[n].face[f] = NO_NEIGHBOR
  BY DEF write_create_n_nodes
<1>5. ASSUME NEW n \in Ids PROVE Scheduled(n)'
  <2>1. Cardinality(Ids) \in Nat /\ Ids = 0 .. Cardinality(Ids) - 1
    BY IdsAssumption, FS_CardinalityType
  <2>2. PICK c \in Nat : c = Cardinality(Ids)
    BY <2>1
  <2>3. pqueue' = [i \in 1 .. c |-> i - 1]
    BY <2>2 DEF write_create_n_nodes
  <2>4. n + 1 \in 1 .. c /\ (n + 1) - 1 = n
    BY <2>1, <2>2
  <2>5. n + 1 \in DOMAIN pqueue' /\ pqueue'[n + 1] = n
    BY <2>3, <2>4
  <2> QED BY <2>5 DEF Scheduled
<1> QED BY <1>1, <1>2, <1>3, <1>4, <1>5 DEF Creating

LEMMA OrderTravels ==
  ASSUME IInv, TravelInv, UNCHANGED vmVars, NEW m \in Orders, Ordered(m)
  PROVE  TravelInv'
<1>1. m \in VMMessages /\ m.type = "RUN_NODE"
  BY DEF VMMessages, Orders
<1>2. simpc = "loop" /\ simpc' = "run" /\ UNCHANGED toSim /\ toVM' = Append(toVM, m) /\ SameFaces
  BY DEF Ordered
<1>3. SendInv'
  BY <1>2, SendsRead DEF TravelInv
<1>4. Written(m)
  BY <1>1, <1>2 DEF Written, Changes, SameFaces
<1> QED BY <1>1, <1>2, <1>3, <1>4, AppendTravels

LEMMA CreateTravels ==
  ASSUME IInv, TravelInv, UNCHANGED vmVars, Creating
  PROVE  TravelInv'
<1>1. UNCHANGED <<node, gathered, slave, vmpc>> /\ DOMAIN node = {}
  BY NodesFrame DEF Creating
<1>2. PICK k \in {1, 2} :
        /\ DOMAIN toVM' = 1 .. k /\ toVM'[k].type = "CREATE_N_NODES"
        /\ k = 2 => toVM'[1].type = "USE_THREADS"
  BY DEF Creating
<1>3. \A i \in DOMAIN toVM' : i = k \/ (i < k /\ toVM'[i].type = "USE_THREADS")
  BY <1>2
<1>4. RecordInv'
  BY <1>1 DEF TravelInv, RecordInv
<1>5. FirstInv'
  <2>1. Single("CREATE_N_NODES", toVM')
    BY <1>3 DEF Single
  <2>2. k \in DOMAIN toVM' /\ \A i \in DOMAIN toVM' : i < k => toVM'[i].type = "USE_THREADS"
    BY <1>2, <1>3
  <2> QED BY <1>1, <1>2, <2>1, <2>2 DEF FirstInv
<1>6. FaceInv'
  <2> SUFFICES ASSUME NEW n \in Ids, NEW f \in Faces
               PROVE  Shows(toVM', Len(toVM'), n, f, Known(n, f)', sim'[n].face[f])
    BY DEF FaceInv
  <2>1. Known(n, f)' = NO_NEIGHBOR /\ sim'[n].face[f] = NO_NEIGHBOR
    BY <1>1 DEF Known, Creating
  <2>2. Len(toVM') = k
    BY <1>2
  <2>3. \A i \in 1 .. k : ~Changes(toVM'[i], n, f)
    BY <1>2, <1>3 DEF Changes
  <2> QED BY <2>1, <2>2, <2>3 DEF Shows
<1>7. AheadInv' /\ ArriveInv'
  BY <1>2, <1>3 DEF AheadInv, ArriveInv
<1>8. SendInv'
  <2>1. Absent("NODE_RUN", toSim) /\ UNCHANGED toSim
    BY DEF IInv, RunInv, Creating
  <2> QED BY <2>1, SendsNone DEF TravelInv
<1> QED BY <1>4, <1>5, <1>6, <1>7, <1>8 DEF TravelInv

LEMMA InitTravel == Init => TravelInv
<1> SUFFICES ASSUME Init PROVE TravelInv
  OBVIOUS
<1>1. /\ toVM = <<>> /\ toSim = <<>> /\ node = <<>> /\ vmpc = "loop" /\ simpc = "start"
      /\ slave = [n \in Ids |-> "none"] /\ gathered = [n \in Ids |-> <<>>]
  BY DEF Init, VMInit, SimInit
<1>2. DOMAIN node = {} /\ DOMAIN toVM = {} /\ DOMAIN toSim = {}
  BY <1>1
<1>3. RecordInv
  BY <1>1, <1>2 DEF RecordInv
<1> QED BY <1>1, <1>2, <1>3 DEF TravelInv, FirstInv, FaceInv, AheadInv, SendInv, ArriveInv, Single, Absent

(***************************************************************************)
(* The kinds of steps.                                                      *)
(***************************************************************************)
\* The messages but the first two find the nodes created.
Prepared == toVM[1].type \in {"USE_THREADS", "CREATE_N_NODES"} \/ DOMAIN node = Ids

LEMMA HandlerReads ==
  ASSUME IInv, TravelInv, UNCHANGED simVars, NEW type, ReadMessage(type), Handled,
         type # "RUN_NODE", vmpc' \notin {"run", "sent"},
         thread_mode' => thread_mode \/ type = "USE_THREADS"
  PROVE  MessageRead /\ Prepared
<1>1. toVM # <<>> /\ toVM[1].type = type /\ 1 \in DOMAIN toVM
  BY HeadRead
<1>2. vmpc = "loop" /\ toVM' = Tail(toVM) /\ UNCHANGED toSim
  BY DEF ReadMessage, Handled
<1>3. ~Running /\ ~Running'
  BY <1>2 DEF Running
<1>4. Prepared
  BY <1>1, NodesThere DEF Prepared, TravelInv
<1> QED BY <1>1, <1>2, <1>3, <1>4 DEF MessageRead

LEMMA VMReads ==
  ASSUME IInv, TravelInv, UNCHANGED simVars,
         \/ use_threads \/ handle_create_n_nodes \/ handle_run_node \/ handle_receive_message
         \/ handle_add_neighbor \/ handle_remove_neighbor
         \/ handle_tap \/ handle_accel \/ handle_shake \/ HandleStop
  PROVE  MessageRead /\ NodesRead /\ Prepared
<1> USE DEF TravelInv
<1>1. CASE use_threads
  <2>1. MessageRead /\ Prepared
    BY <1>1, HandlerReads DEF use_threads, ReadMessage, masterVars
  <2> QED BY <1>1, <2>1, UseThreadsNodes
<1>2. CASE handle_create_n_nodes
  <2>1. ReadMessage("CREATE_N_NODES") /\ Handled /\ UNCHANGED <<vmpc, thread_mode>>
    BY <1>2 DEF handle_create_n_nodes, masterVars, flagVars
  <2>2. MessageRead /\ Prepared
    BY <2>1, HandlerReads DEF ReadMessage
  <2> QED BY <1>2, <2>2, CreateNodes
<1>3. CASE handle_run_node
  <2>1. toVM # <<>> /\ Head0 = toVM[1] /\ toVM[1].type = "RUN_NODE" /\ 1 \in DOMAIN toVM
    BY <1>3, HeadRead DEF handle_run_node
  <2>2. /\ toVM' = Tail(toVM) /\ vmpc = "loop" /\ vmpc' = "run" /\ UNCHANGED <<toSim, thread_mode>>
        /\ current_node' = toVM[1].node /\ sim_instr_limit' = toVM[1].ts
    BY <1>3, <2>1 DEF handle_run_node, ReadMessage, flagVars
  <2>3. MessageRead
    BY <2>1, <2>2 DEF MessageRead, Running
  <2>4. Prepared
    BY <2>1, NodesThere DEF Prepared
  <2> QED BY <1>3, <2>3, <2>4, OrderNodes
<1>4. CASE handle_receive_message
  <2>1. /\ ReadMessage("RECEIVE_MESSAGE") /\ Handled /\ UNCHANGED thread_mode
        /\ vmpc' \in {vmpc, "abort"}
    BY <1>4 DEF handle_receive_message, flagVars
  <2>2. MessageRead /\ Prepared
    BY <2>1, HandlerReads DEF ReadMessage
  <2> QED BY <1>4, <2>2, ReceiveNodes
<1>5. CASE handle_add_neighbor
  <2>1. ReadMessage("ADD_NEIGHBOR") /\ Handled /\ UNCHANGED <<vmpc, thread_mode>>
    BY <1>5 DEF handle_add_neighbor, masterVars, flagVars
  <2>2. MessageRead /\ Prepared
    BY <2>1, HandlerReads DEF ReadMessage
  <2> QED BY <1>5, <2>2, AddNodes
<1>6. CASE handle_remove_neighbor
  <2>1. /\ ReadMessage("REMOVE_NEIGHBOR") /\ Handled /\ UNCHANGED thread_mode
        /\ vmpc' \in {vmpc, "abort"}
    BY <1>6 DEF handle_remove_neighbor, flagVars
  <2>2. MessageRead /\ Prepared
    BY <2>1, HandlerReads DEF ReadMessage
  <2> QED BY <1>6, <2>2, RemoveNodes
<1>7. ASSUME NEW type \in {"TAP", "ACCEL", "SHAKE"}, NEW tuple \in Told, Sensed(type, tuple)
      PROVE  MessageRead /\ NodesRead /\ Prepared
  <2>1. ReadMessage(type) /\ Handled /\ UNCHANGED <<vmpc, thread_mode>>
    BY <1>7 DEF Sensed, masterVars, flagVars
  <2>2. MessageRead /\ Prepared
    BY <2>1, HandlerReads DEF ReadMessage
  <2> QED BY <1>7, <2>2, SensedNodes
<1>8. CASE handle_tap \/ handle_accel \/ handle_shake
  <2>1. <<"tap">> \in Told /\ <<"accel">> \in Told /\ <<"shake">> \in Told
    BY DEF Told
  <2> QED BY <1>7, <1>8, <2>1 DEF handle_tap, handle_accel, handle_shake
<1>9. CASE HandleStop
  <2>1. ReadMessage("STOP") /\ Handled /\ vmpc' = "stop" /\ UNCHANGED thread_mode
    BY <1>9 DEF HandleStop
  <2>2. MessageRead /\ Prepared
    BY <2>1, HandlerReads
  <2> QED BY <1>9, <2>2, StopNodes
<1> QED BY <1>1, <1>2, <1>3, <1>4, <1>5, <1>6, <1>8, <1>9

\* What the VM does without reading a message.
VMWorks ==
  \/ AfterStop \/ send_pending_messages \/ instantiate_all_nodes \/ check_delayed_queue
  \/ RunCurrentNode \/ (\E n \in Ids : Slave(n)) \/ Tick

LEMMA VMWorksQuietly ==
  ASSUME IInv, RecordInv, VMWorks, UNCHANGED simVars PROVE VMQuiet /\ NodesKept /\ UNCHANGED thread_mode
<1>1. CASE AfterStop
  BY <1>1, AfterStopQuiet, AfterStopNodes DEF AfterStop, flagVars
<1>2. CASE send_pending_messages
  BY <1>2, SendPendingQuiet, SendPendingNodes DEF send_pending_messages, flagVars
<1>3. CASE instantiate_all_nodes
  BY <1>3, InstantiateQuiet, InstantiateNodes DEF instantiate_all_nodes, flagVars
<1>4. CASE check_delayed_queue
  BY <1>4, DelayedQuiet, DelayedNodes DEF check_delayed_queue, flagVars
<1>5. CASE RunCurrentNode
  <2>1. UNCHANGED thread_mode
    BY <1>5 DEF RunCurrentNode, flagVars
  <2> QED BY <1>5, <2>1, RunQuiet, RunNodes
<1>6. ASSUME NEW n \in Ids, Slave(n) PROVE VMQuiet /\ NodesKept /\ UNCHANGED thread_mode
  <2>1. CASE SlaveGetWork(n)
    <3>1. UNCHANGED thread_mode
      BY <2>1 DEF SlaveGetWork, flagVars
    <3> QED BY <2>1, <3>1, SlaveGetWorkQuiet, SlaveGetWorkNodes
  <2>2. CASE SlaveEnd(n)
    BY <2>2, SlaveEndQuiet, SlaveEndNodes DEF SlaveEnd, flagVars
  <2>3. CASE SlaveRun(n)
    <3>1. UNCHANGED thread_mode
      BY <2>3 DEF SlaveRun, flagVars
    <3> QED BY <2>3, <3>1, SlaveRunQuiet, SlaveRunNodes
  <2> QED BY <1>6, <2>1, <2>2, <2>3 DEF Slave
<1>7. CASE Tick
  BY <1>7, TickQuiet, TickNodes DEF Tick, flagVars
<1> QED BY <1>1, <1>2, <1>3, <1>4, <1>5, <1>6, <1>7 DEF VMWorks

\* The kinds of steps.
LEMMA StepKinds ==
  ASSUME IInv, TravelInv, Next
  PROVE  \/ MessageRead /\ NodesRead /\ Prepared
         \/ VMQuiet /\ NodesKept /\ UNCHANGED thread_mode
         \/ handle_deterministic_computation /\ UNCHANGED simVars
         \/ Main /\ UNCHANGED vmVars
<1>1. ASSUME Master, UNCHANGED simVars
      PROVE  \/ MessageRead /\ NodesRead /\ Prepared
             \/ VMQuiet /\ NodesKept /\ UNCHANGED thread_mode
             \/ handle_deterministic_computation
  BY <1>1, VMReads, VMWorksQuietly DEF Master, VMWorks, TravelInv
<1>2. ASSUME (\E n \in Ids : Slave(n)) \/ Tick, UNCHANGED simVars
      PROVE  VMQuiet /\ NodesKept /\ UNCHANGED thread_mode
  BY <1>2, VMWorksQuietly DEF VMWorks, TravelInv
<1> QED BY <1>1, <1>2 DEF Next

LEMMA StepTravel == IInv /\ TravelInv /\ ScheduleInv /\ [Next]_vars => TravelInv'
<1> SUFFICES ASSUME IInv, TravelInv, ScheduleInv, [Next]_vars PROVE TravelInv'
  OBVIOUS
<1>1. CASE MessageRead /\ NodesRead /\ Prepared
  BY <1>1, ReadTravels DEF Prepared
<1>2. CASE VMQuiet /\ NodesKept
  BY <1>2, QuietTravels
<1>3. CASE handle_deterministic_computation /\ UNCHANGED simVars
  BY <1>3, ReportTravels
<1>4. CASE Main /\ UNCHANGED vmVars
  <2>1. CASE write_create_n_nodes
    BY <1>4, <2>1, CreateShape, CreateTravels
  <2>2. CASE write_run_node
    BY <1>4, <2>2, OrderShape, OrderTravels
  <2> QED BY <1>4, <2>1, <2>2, MainTravels
<1>5. CASE UNCHANGED vars
  <2>1. UNCHANGED <<vmVars, toVM, toSim, sim, simpc>>
    BY <1>5 DEF vars, simVars
  <2>2. SendInv'
    BY <2>1, SendsRead DEF TravelInv, SameFaces
  <2> QED BY <2>1, <2>2, ListenTravels
<1> QED BY <1>1, <1>2, <1>3, <1>4, <1>5, StepKinds

(***************************************************************************)
(* ServiceInv and the steps of the VM.                                      *)
(***************************************************************************)
\* Who would run earlier than needed runs late enough.
LEMMA ServedLess ==
  ASSUME IInv, simpc # "start", NEW d \in Ids, NEW x \in Nat, NEW y \in Nat, y <= x, NEW i,
         Served(d, x, i)
  PROVE  Served(d, y, i)
<1>1. sim[d].next \in Nat
  BY DEF IInv, SimTypes, Blocks
<1>2. CASE x <= sim[d].next /\ Scheduled(d)
  BY <1>1, <1>2 DEF Served
<1>3. ASSUME NEW j \in DOMAIN toVM, i < j, toVM[j].type = "RUN_NODE", toVM[j].node = d, x <= toVM[j].ts
      PROVE  Served(d, y, i)
  <2>1. toVM[j] \in VMMessages
    BY DEF IInv, ChannelTypes
  <2>2. toVM[j].ts \in Nat
    BY <1>3, <2>1, MessageTypes DEF Orders
  <2> QED BY <1>3, <2>2 DEF Served
<1> QED BY <1>2, <1>3 DEF Served

\* The VM works on: the times of the nodes are those that there were, or a run has
\* taken what it was to take.
LEMMA WorkService ==
  ASSUME IInv, RecordInv, ServiceInv, NodesKept, UNCHANGED <<toVM, simVars, thread_mode>>,
         vmpc' = "run" => UNCHANGED <<vmpc, current_node, sim_instr_limit>>
  PROVE  ServiceInv'
<1> USE DEF ServiceInv
<1>1. UNCHANGED <<sim, pqueue, simpc, deterministic>> /\ RecordInv' /\ DOMAIN node' = DOMAIN node
  BY DEF simVars, NodesKept
<1>2. \A n, f : Known(n, f)' = Known(n, f)
  BY DEF NodesKept, Known
<1>3. /\ \A d, x, i : Served(d, x, i)' = Served(d, x, i)
      /\ \A d, i : Reaches(i, d)' = Reaches(i, d)
  BY <1>1, <1>2 DEF Served, Scheduled, Reaches
<1>4. ModeInv' /\ ScheduleInv'
  BY <1>1 DEF ModeInv, ScheduleInv, Scheduled
<1>5. NoticeInv'
  BY <1>1, <1>3 DEF NoticeInv, Noticed
<1>6. StrandInv'
  <2> SUFFICES ASSUME deterministic', NEW n \in DOMAIN node, NEW x \in Times(node'[n])
               PROVE  Served(n, x, 0)' \/ (vmpc' = "run" /\ current_node' = n /\ x <= sim_instr_limit')
    BY <1>1 DEF StrandInv
  <2>1. deterministic /\ ~thread_mode
    BY <1>1 DEF ModeInv
  <2>2. PICK y \in Times(node[n]) :
          x <= y /\ (vmpc = "run" /\ n = current_node => vmpc' = "run" \/ sim_instr_limit < y)
    BY <2>1 DEF NodesKept, Aged
  <2>3. x \in Nat /\ y \in Nat
    <3>1. node[n] \in NodeRecords(n) /\ node'[n] \in NodeRecords(n)
      BY <1>1 DEF RecordInv
    <3> QED BY <2>2, <3>1, TimesNat
  <2>4. n \in Ids /\ simpc # "start" /\ sim_instr_limit \in Nat
    BY DEF IInv, NodeTypes, CreateInv, WorkTypes
  <2>5. CASE Served(n, y, 0)
    <3>1. Served(n, x, 0)
      BY <2>2, <2>3, <2>4, <2>5, ServedLess
    <3> QED BY <1>3, <3>1
  <2>6. CASE vmpc = "run" /\ current_node = n /\ y <= sim_instr_limit
    <3>1. vmpc' = "run"
      BY <2>2, <2>3, <2>4, <2>6
    <3>2. x <= sim_instr_limit
      BY <2>2, <2>3, <2>4, <2>6
    <3> QED BY <2>6, <3>1, <3>2
  <2> QED BY <2>1, <2>5, <2>6 DEF StrandInv
<1> QED BY <1>4, <1>5, <1>6

LEMMA ServedTail ==
  ASSUME IInv, MessageRead, NEW d, NEW x, NEW i \in Nat, Served(d, x, i + 1)
  PROVE  Served(d, x, i)'
<1>1. UNCHANGED <<sim, pqueue>>
  BY DEF MessageRead, simVars
<1>2. CASE x <= sim[d].next /\ Scheduled(d)
  BY <1>1, <1>2 DEF Served, Scheduled
<1>3. ASSUME NEW j \in DOMAIN toVM, i + 1 < j, toVM[j].type = "RUN_NODE", toVM[j].node = d,
             x <= toVM[j].ts
      PROVE  Served(d, x, i)'
  <2>1. j \in Nat /\ j # 1 /\ i < j - 1
    BY <1>3, ReadShape
  <2>2. j - 1 \in DOMAIN toVM' /\ toVM'[j - 1] = toVM[j]
    BY <2>1, ReadShape
  <2> QED BY <1>3, <2>1, <2>2 DEF Served
<1> QED BY <1>2, <1>3 DEF Served

LEMMA ReachesFirst ==
  ASSUME DOMAIN node = Ids, toVM[1] \in Receipts, NEW d, Reaches(1, d)
  PROVE  d = Leads(toVM[1], node)
<1>1. toVM[1].node \in Ids
  BY DEF Receipts
<1>2. \A i \in 1 .. 1 - 1 : FALSE
  OBVIOUS
<1> QED BY <1>1, <1>2 DEF Reaches, Leads, Shows, Known

LEMMA ReadService ==
  ASSUME IInv, TravelInv, ServiceInv, MessageRead, NodesRead, Prepared
  PROVE  ServiceInv'
<1> USE DEF ServiceInv
<1>1. /\ toVM \in Seq(VMMessages) /\ toVM # <<>> /\ toVM' = Tail(toVM) /\ 1 \in DOMAIN toVM
      /\ \A i \in DOMAIN toVM' : /\ i \in Nat /\ i > 0 /\ i + 1 \in DOMAIN toVM
                                 /\ toVM'[i] = toVM[i + 1]
  BY ReadShape
<1>2. /\ UNCHANGED <<sim, pqueue, simpc, deterministic>> /\ vmpc # "run"
      /\ thread_mode' => thread_mode \/ toVM[1].type = "USE_THREADS"
  BY DEF MessageRead, simVars, Running
<1>3. ModeInv'
  <2> SUFFICES ASSUME deterministic PROVE ~thread_mode' /\ Absent("USE_THREADS", toVM')
    BY <1>2 DEF ModeInv
  <2>1. ~thread_mode /\ Absent("USE_THREADS", toVM)
    BY DEF ModeInv
  <2>2. Absent("USE_THREADS", toVM')
    BY <1>1, <2>1, AbsentTail
  <2> QED BY <1>1, <1>2, <2>1, <2>2 DEF Absent
<1>4. ScheduleInv'
  BY <1>2 DEF ScheduleInv, Scheduled
<1>5. NoticeInv'
  <2> SUFFICES ASSUME deterministic, NEW i \in DOMAIN toVM'
               PROVE  Noticed(i)'
    BY <1>2 DEF NoticeInv
  <2>1. PICK r : r = toVM[i + 1]
    OBVIOUS
  <2>2. i \in Nat /\ i + 1 \in DOMAIN toVM /\ toVM'[i] = r
    BY <1>1, <2>1
  <2>3. PICK b, t : b = r.node /\ t = r.ts
    OBVIOUS
  <2>4. ASSUME r.type \in {"ADD_NEIGHBOR", "REMOVE_NEIGHBOR", "TAP", "ACCEL", "SHAKE"}
        PROVE  Served(b, t, i)'
    <3>1. Served(b, t, i + 1)
      BY <2>1, <2>2, <2>3, <2>4 DEF NoticeInv, Noticed
    <3> QED BY <2>2, <3>1, ServedTail
  <2>5. ASSUME r.type = "CREATE_N_NODES", NEW n \in Ids PROVE Served(n, 0, i)'
    <3>1. Served(n, 0, i + 1)
      BY <2>1, <2>2, <2>5 DEF NoticeInv, Noticed
    <3> QED BY <2>2, <3>1, ServedTail
  <2>6. ASSUME r.type = "RECEIVE_MESSAGE"
        PROVE  \E d \in Ids \cup {NO_NEIGHBOR} : Reaches(i, d)' /\ (d \in Ids => Served(d, t, i)')
    <3>1. PICK d \in Ids \cup {NO_NEIGHBOR} : Reaches(i + 1, d) /\ (d \in Ids => Served(d, t, i + 1))
      BY <2>1, <2>2, <2>3, <2>6 DEF NoticeInv, Noticed
    <3>2. Reaches(i, d)'
      BY <2>1, <2>6, <3>1, ReachesTail
    <3>3. d \in Ids => Served(d, t, i)'
      BY <2>2, <3>1, ServedTail
    <3> QED BY <3>2, <3>3
  <2> QED BY <2>2, <2>3, <2>4, <2>5, <2>6 DEF Noticed
<1>6. StrandInv'
  <2> SUFFICES ASSUME deterministic, NEW n \in DOMAIN node', NEW x \in Times(node'[n])
               PROVE  Served(n, x, 0)' \/ (vmpc' = "run" /\ current_node' = n /\ x <= sim_instr_limit')
    BY <1>2 DEF StrandInv
  <2>0. 0 \in Nat /\ 0 + 1 = 1
    OBVIOUS
  <2>1. CASE n \in DOMAIN node /\ x \in Times(node[n])
    <3>1. Served(n, x, 0)
      BY <1>2, <2>1 DEF StrandInv
    <3>2. CASE Served(n, x, 1)
      BY <2>0, <3>2, ServedTail
    <3>3. CASE ~Served(n, x, 1)
      <4>1. PICK j \in DOMAIN toVM : 0 < j /\ toVM[j].type = "RUN_NODE" /\ toVM[j].node = n /\ x <= toVM[j].ts
        BY <3>1, <3>3 DEF Served
      <4>2. ~(1 < j)
        BY <3>3, <4>1 DEF Served
      <4>3. j = 1
        BY <1>1, <4>1, <4>2
      <4> QED BY <4>1, <4>3 DEF MessageRead
    <3> QED BY <3>2, <3>3
  <2>2. CASE Brings(toVM[1], n, x)
    <3>0. n \in Ids
      BY DEF NodesRead, IInv, NodeTypes
    <3>1. Served(n, x, 1)
      <4>1. CASE toVM[1].type \in {"ADD_NEIGHBOR", "REMOVE_NEIGHBOR", "TAP", "ACCEL", "SHAKE"}
        BY <1>1, <2>2, <4>1 DEF NoticeInv, Noticed, Brings
      <4>2. CASE toVM[1].type = "CREATE_N_NODES"
        <5>1. toVM[1] \in Notices
          BY <1>1, <4>2, MessageTypes
        <5>2. x = 0
          BY <2>2, <5>1 DEF Brings, Notices
        <5> QED BY <1>1, <3>0, <4>2, <5>2 DEF NoticeInv, Noticed
      <4>3. CASE toVM[1].type = "RECEIVE_MESSAGE"
        <5>1. toVM[1] \in Receipts /\ DOMAIN node = Ids
          BY <1>1, <4>3, MessageTypes DEF Prepared
        <5>2. n = Leads(toVM[1], node) /\ x = toVM[1].ts
          BY <2>2, <4>3 DEF Brings
        <5>3. PICK d \in Ids \cup {NO_NEIGHBOR} : Reaches(1, d) /\ (d \in Ids => Served(d, x, 1))
          BY <1>1, <4>3, <5>2 DEF NoticeInv, Noticed
        <5>4. d = n
          BY <5>1, <5>2, <5>3, ReachesFirst
        <5> QED BY <3>0, <5>3, <5>4
      <4> QED BY <2>2, <4>1, <4>2, <4>3 DEF Brings
    <3> QED BY <2>0, <3>1, ServedTail
  <2> QED BY <2>1, <2>2 DEF NodesRead
<1> QED BY <1>3, <1>4, <1>5, <1>6

(***************************************************************************)
(* ServiceInv and the steps of the simulator.                               *)
(***************************************************************************)
\* Nobody loses what has been arranged.
ServedKept ==
  \A d \in Ids, x \in Nat, i \in Nat : i <= Len(toVM) /\ Served(d, x, i) => Served(d, x, i)'

LEMMA NoticedTimes ==
  ASSUME IInv, NEW i \in DOMAIN toVM
  PROVE  /\ toVM[i].type \in {"ADD_NEIGHBOR", "REMOVE_NEIGHBOR", "TAP", "ACCEL", "SHAKE"} =>
              toVM[i].node \in Ids /\ toVM[i].ts \in Nat
         /\ toVM[i].type = "RECEIVE_MESSAGE" => toVM[i].ts \in Nat
         /\ i \in Nat /\ i <= Len(toVM) /\ Len(toVM) \in Nat
<1>1. toVM \in Seq(VMMessages)
  BY DEF IInv, ChannelTypes
<1>2. toVM[i] \in VMMessages /\ i \in Nat /\ i <= Len(toVM) /\ Len(toVM) \in Nat
  BY <1>1
<1> QED BY <1>2, MessageTypes DEF Receipts, Touches, Additions, Removals

\* What is in the queues stays served.
LEMMA StrandKept ==
  ASSUME IInv, RecordInv, StrandInv, ServedKept, UNCHANGED vmVars, UNCHANGED deterministic
  PROVE  StrandInv'
<1>1. UNCHANGED <<node, vmpc, current_node, sim_instr_limit>>
  BY NodesFrame
<1> SUFFICES ASSUME deterministic, NEW n \in DOMAIN node, NEW x \in Times(node[n])
             PROVE  Served(n, x, 0)' \/ (vmpc = "run" /\ current_node = n /\ x <= sim_instr_limit)
  BY <1>1 DEF StrandInv
<1>2. x \in Nat /\ n \in Ids /\ 0 \in Nat /\ 0 <= Len(toVM)
  BY TimesNat DEF RecordInv, IInv, NodeTypes, ChannelTypes
<1>3. Served(n, x, 0) => Served(n, x, 0)'
  BY <1>2 DEF ServedKept
<1> QED BY <1>3 DEF StrandInv

LEMMA NoticedKept ==
  ASSUME IInv, ServedKept, NEW i \in DOMAIN toVM, Noticed(i), toVM'[i] = toVM[i],
         \A d : Reaches(i, d) => Reaches(i, d)'
  PROVE  Noticed(i)'
<1>1. PICK r, b, t : r = toVM[i] /\ b = r.node /\ t = r.ts
  OBVIOUS
<1>2. i \in Nat /\ i <= Len(toVM) /\ toVM'[i] = r
  BY <1>1, NoticedTimes
<1>3. ASSUME r.type \in {"ADD_NEIGHBOR", "REMOVE_NEIGHBOR", "TAP", "ACCEL", "SHAKE"}
      PROVE  Served(b, t, i)'
  <2>1. b \in Ids /\ t \in Nat
    BY <1>1, <1>3, NoticedTimes
  <2>2. Served(b, t, i)
    BY <1>1, <1>3 DEF Noticed
  <2> QED BY <1>2, <2>1, <2>2 DEF ServedKept
<1>4. ASSUME r.type = "CREATE_N_NODES", NEW n \in Ids PROVE Served(n, 0, i)'
  <2>1. Served(n, 0, i)
    BY <1>1, <1>4 DEF Noticed
  <2> QED BY <1>2, <2>1 DEF ServedKept
<1>5. ASSUME r.type = "RECEIVE_MESSAGE"
      PROVE  \E d \in Ids \cup {NO_NEIGHBOR} : Reaches(i, d)' /\ (d \in Ids => Served(d, t, i)')
  <2>1. PICK d \in Ids \cup {NO_NEIGHBOR} : Reaches(i, d) /\ (d \in Ids => Served(d, t, i))
    BY <1>1, <1>5 DEF Noticed
  <2>2. t \in Nat
    BY <1>1, <1>5, NoticedTimes
  <2>3. d \in Ids => Served(d, t, i)'
    BY <1>2, <2>1, <2>2 DEF ServedKept
  <2> QED BY <2>1, <2>3
<1> QED BY <1>1, <1>2, <1>3, <1>4, <1>5 DEF Noticed

LEMMA AppendService ==
  ASSUME IInv, TravelInv, ServiceInv, NEW m \in VMMessages, Written(m), ServedKept, ScheduleInv',
         UNCHANGED deterministic, NEW k \in Nat, k = Len(toVM), deterministic => Noticed(k + 1)',
         m.type = "USE_THREADS" => ~deterministic
  PROVE  ServiceInv'
<1> USE DEF ServiceInv
<1>1. /\ toVM \in Seq(VMMessages) /\ toVM' = Append(toVM, m)
      /\ \A i \in DOMAIN toVM : toVM'[i] = toVM[i]
      /\ \A i \in DOMAIN toVM' : i \in DOMAIN toVM \/ i = k + 1
  BY SentShape DEF Written
<1>2. UNCHANGED vmVars /\ UNCHANGED thread_mode
  BY NodesFrame DEF Written
<1>3. ModeInv'
  BY <1>1, <1>2, AbsentAppend DEF ModeInv
<1>4. NoticeInv'
  <2> SUFFICES ASSUME deterministic, NEW i \in DOMAIN toVM' PROVE Noticed(i)'
    BY DEF NoticeInv
  <2>1. CASE i \in DOMAIN toVM
    <3>1. Noticed(i) /\ toVM'[i] = toVM[i]
      BY <1>1, <2>1 DEF NoticeInv, Noticed
    <3>2. \A d : Reaches(i, d) => Reaches(i, d)'
      BY <2>1, ReachesStill
    <3> QED BY <2>1, <3>1, <3>2, NoticedKept
  <2>2. CASE i = k + 1
    BY <2>2
  <2> QED BY <1>1, <2>1, <2>2
<1>5. StrandInv'
  BY <1>2, StrandKept DEF TravelInv
<1> QED BY <1>3, <1>4, <1>5

LEMMA MoreKept ==
  ASSUME IInv, IInv', simpc # "start", simpc' # "start", SchedulesMore,
         \A j \in DOMAIN toVM : j \in DOMAIN toVM' /\ toVM'[j] = toVM[j]
  PROVE  ServedKept /\ ScheduleInv'
<1>1. ASSUME NEW d \in Ids, NEW x \in Nat, NEW i \in Nat, Served(d, x, i) PROVE Served(d, x, i)'
  <2>1. sim[d].next \in Nat /\ sim'[d].next \in Nat
    <3>1. sim \in [Ids -> Blocks] /\ sim' \in [Ids -> Blocks]
      BY DEF IInv, SimTypes
    <3> QED BY <3>1 DEF Blocks
  <2>2. CASE x <= sim[d].next /\ Scheduled(d)
    <3>1. x <= sim'[d].next /\ Scheduled(d)'
      BY <2>1, <2>2 DEF SchedulesMore
    <3> QED BY <3>1 DEF Served
  <2>3. CASE ~(x <= sim[d].next /\ Scheduled(d))
    <3>1. PICK j \in DOMAIN toVM :
            i < j /\ toVM[j].type = "RUN_NODE" /\ toVM[j].node = d /\ x <= toVM[j].ts
      BY <1>1, <2>3 DEF Served
    <3>2. j \in DOMAIN toVM' /\ toVM'[j] = toVM[j]
      OBVIOUS
    <3> QED BY <3>1, <3>2 DEF Served
  <2> QED BY <2>2, <2>3
<1>2. ScheduleInv'
  BY DEF ScheduleInv, SchedulesMore
<1> QED BY <1>1, <1>2 DEF ServedKept

LEMMA TellService ==
  ASSUME IInv, IInv', TravelInv, ServiceInv, UNCHANGED vmVars, UNCHANGED deterministic,
         simpc # "start", simpc' # "start", NEW m \in VMMessages, Tells(m), SchedulesMore
  PROVE  ServiceInv'
<1>1. Written(m)
  BY DEF Written, Tells
<1>2. PICK k \in Nat : k = Len(toVM)
  BY DEF IInv, ChannelTypes
<1>3. /\ \A j \in DOMAIN toVM : j \in DOMAIN toVM' /\ toVM'[j] = toVM[j]
      /\ toVM'[k + 1] = m
  BY <1>1, <1>2, SentShape
<1>4. ServedKept /\ ScheduleInv'
  BY <1>3, MoreKept
<1>5. Noticed(k + 1)'
  <2>1. ASSUME m.type \in {"ADD_NEIGHBOR", "REMOVE_NEIGHBOR", "TAP", "ACCEL", "SHAKE"},
               NEW b, b = m.node, NEW t, t = m.ts
        PROVE  Served(b, t, k + 1)'
    BY <2>1 DEF Tells, Served
  <2>2. ASSUME m.type = "RECEIVE_MESSAGE", NEW t, t = m.ts
        PROVE  \E d \in Ids \cup {NO_NEIGHBOR} :
                 Reaches(k + 1, d)' /\ (d \in Ids => Served(d, t, k + 1)')
    <3>1. m \in Receipts
      BY <2>2, MessageTypes
    <3>2. PICK d : d = Leads(m, sim)
      OBVIOUS
    <3>3. d \in Ids \cup {NO_NEIGHBOR}
      <4>1. m.node \in Ids /\ m.face \in Faces \cup {INVALID_FACE}
        BY <3>1 DEF Receipts
      <4>2. sim[m.node].face \in [Faces -> Ids \cup {NO_NEIGHBOR}]
        BY <4>1 DEF IInv, SimTypes, Blocks
      <4> QED BY <3>2, <4>1, <4>2 DEF Leads
    <3>4. Reaches(k + 1, d)'
      BY <1>1, <1>2, <3>1, <3>2, ReachesNow DEF TravelInv
    <3>5. d \in Ids => Served(d, t, k + 1)'
      BY <2>2, <3>2 DEF Tells, Served
    <3> QED BY <3>3, <3>4, <3>5
  <2>3. m.type # "CREATE_N_NODES"
    BY DEF Tells
  <2>4. PICK b, t : b = m.node /\ t = m.ts
    OBVIOUS
  <2>5. toVM'[k + 1].type = m.type /\ toVM'[k + 1].node = b /\ toVM'[k + 1].ts = t
    BY <1>3, <2>4
  <2> QED BY <2>1, <2>2, <2>3, <2>4, <2>5 DEF Noticed
<1>6. m.type = "USE_THREADS" => ~deterministic
  BY DEF Tells
<1> QED BY <1>1, <1>2, <1>4, <1>5, <1>6, AppendService

LEMMA ListenService ==
  ASSUME IInv, IInv', TravelInv, ServiceInv, UNCHANGED vmVars, UNCHANGED <<toVM, deterministic>>,
         simpc # "start", simpc' # "start", SchedulesMore
  PROVE  ServiceInv'
<1> USE DEF ServiceInv
<1>1. ServedKept /\ ScheduleInv'
  BY MoreKept
<1>2. UNCHANGED thread_mode /\ \A n, f : Known(n, f)' = Known(n, f)
  BY NodesFrame
<1>3. ModeInv'
  BY <1>2 DEF ModeInv
<1>4. NoticeInv'
  <2> SUFFICES ASSUME deterministic, NEW i \in DOMAIN toVM PROVE Noticed(i)'
    BY DEF NoticeInv
  <2>1. Noticed(i)
    BY DEF NoticeInv
  <2>2. \A d : Reaches(i, d) => Reaches(i, d)'
    BY <1>2 DEF Reaches
  <2> QED BY <1>1, <2>1, <2>2, NoticedKept
<1>5. StrandInv'
  BY <1>1, StrandKept DEF TravelInv
<1> QED BY <1>1, <1>3, <1>4, <1>5

LEMMA OrderService ==
  ASSUME IInv, TravelInv, ServiceInv, UNCHANGED vmVars, NEW m \in Orders, Ordered(m)
  PROVE  ServiceInv'
<1>1. m \in VMMessages /\ m.type = "RUN_NODE" /\ m.node \in Ids /\ m.ts \in Nat
  BY DEF VMMessages, Orders
<1>2. /\ simpc = "loop" /\ UNCHANGED deterministic /\ m.ts = sim[m.node].next
      /\ \A k \in Ids : sim'[k].next = sim[k].next
      /\ \A k \in Ids \ {m.node} : sim'[k].active = sim[k].active /\ (Scheduled(k) => Scheduled(k)')
      /\ ~sim'[m.node].active
  BY DEF Ordered
<1>3. Written(m)
  BY <1>1, <1>2 DEF Ordered, Written, Changes, SameFaces
<1>4. PICK k \in Nat : k = Len(toVM)
  BY DEF IInv, ChannelTypes
<1>5. /\ \A j \in DOMAIN toVM : j \in DOMAIN toVM' /\ toVM'[j] = toVM[j]
      /\ k + 1 \in DOMAIN toVM' /\ toVM'[k + 1] = m
  BY <1>1, <1>3, <1>4, SentShape
<1>6. ServedKept
  <2> SUFFICES ASSUME NEW d \in Ids, NEW x \in Nat, NEW i \in Nat, i <= k, Served(d, x, i)
               PROVE  Served(d, x, i)'
    BY <1>4 DEF ServedKept
  <2>1. CASE d = m.node /\ x <= sim[d].next
    <3>1. i < k + 1 /\ x <= m.ts
      BY <1>2, <2>1
    <3> QED BY <1>1, <1>5, <2>1, <3>1 DEF Served
  <2>2. CASE d # m.node /\ x <= sim[d].next /\ Scheduled(d)
    BY <1>2, <2>2 DEF Served
  <2>3. CASE ~(x <= sim[d].next /\ Scheduled(d))
    <3>1. PICK j \in DOMAIN toVM :
            i < j /\ toVM[j].type = "RUN_NODE" /\ toVM[j].node = d /\ x <= toVM[j].ts
      BY <2>3 DEF Served
    <3>2. j \in DOMAIN toVM' /\ toVM'[j] = toVM[j]
      BY <1>5
    <3> QED BY <3>1, <3>2 DEF Served
  <2> QED BY <2>1, <2>2, <2>3
<1>7. ScheduleInv'
  BY <1>1, <1>2 DEF ServiceInv, ScheduleInv
<1>8. Noticed(k + 1)'
  BY <1>1, <1>5 DEF Noticed
<1> QED BY <1>1, <1>2, <1>3, <1>4, <1>6, <1>7, <1>8, AppendService

LEMMA CreateService ==
  ASSUME IInv, ServiceInv, UNCHANGED vmVars, Creating PROVE ServiceInv'
<1>1. DOMAIN node' = {} /\ UNCHANGED <<thread_mode, deterministic>> /\ simpc' = "loop"
  BY NodesFrame DEF Creating
<1>2. PICK k \in {1, 2} :
        /\ DOMAIN toVM' = 1 .. k /\ toVM'[k].type = "CREATE_N_NODES"
        /\ k = 2 => toVM'[1].type = "USE_THREADS" /\ ~deterministic
  BY DEF Creating
<1>3. \A i \in DOMAIN toVM' : i = k \/ (toVM'[i].type = "USE_THREADS" /\ ~deterministic)
  BY <1>2
<1>4. ModeInv'
  BY <1>1, <1>2, <1>3 DEF ServiceInv, ModeInv, Absent
<1>5. \A n \in Ids : Scheduled(n)' /\ sim'[n].next = 1
  BY DEF Creating
<1>6. ScheduleInv'
  BY <1>5 DEF ScheduleInv
<1>7. \A n \in Ids, i \in DOMAIN toVM' : Served(n, 0, i)'
  BY <1>5 DEF Served
<1>8. NoticeInv'
  BY <1>1, <1>2, <1>3, <1>7 DEF NoticeInv, Noticed
<1>9. StrandInv'
  BY <1>1 DEF StrandInv
<1> QED BY <1>4, <1>6, <1>8, <1>9 DEF ServiceInv

(***************************************************************************)
(* The theorems on the tuples.                                              *)
(***************************************************************************)
LEMMA MainService ==
  ASSUME IInv, IInv', TravelInv, ServiceInv, Main, UNCHANGED vmVars PROVE ServiceInv'
<1> USE DEF ServiceInv
<1>1. CASE write_create_n_nodes
  BY <1>1, CreateShape, CreateService
<1>2. CASE write_run_node
  BY <1>2, OrderShape, OrderService
<1>3. CASE Scenario
  <2>1. PICK m \in VMMessages :
          /\ Tells(m) /\ SchedulesMore
          /\ simpc \in {"loop", "turn"} /\ simpc' = simpc /\ UNCHANGED deterministic
    BY <1>3, ScenarioTells
  <2> QED BY <2>1, TellService
<1>4. CASE force_read /\ toSim[1].type = "SEND_MESSAGE"
  <2>1. PICK m \in Receipts : Tells(m) /\ SchedulesMore
    BY <1>4, SendTells
  <2>2. simpc # "start" /\ simpc' # "start" /\ UNCHANGED deterministic
    BY <1>4, FirstRead
  <2>3. m \in VMMessages
    BY DEF VMMessages
  <2> QED BY <2>1, <2>2, <2>3, TellService
<1>5. CASE force_read /\ toSim[1].type # "SEND_MESSAGE"
  <2>1. UNCHANGED toVM /\ SchedulesMore
    BY <1>5, OtherListens
  <2>2. simpc # "start" /\ simpc' # "start" /\ UNCHANGED deterministic
    BY <1>5, FirstRead
  <2> QED BY <2>1, <2>2, ListenService
<1>6. CASE write_stop
  <2>1. PICK m \in VMMessages : Tells(m) /\ SchedulesMore
    BY <1>6, StopTells
  <2>2. simpc # "start" /\ simpc' # "start" /\ UNCHANGED deterministic
    BY <1>6, StopTells
  <2> QED BY <2>1, <2>2, TellService
<1>7. CASE BeginTurn \/ EndTurn
  BY <1>7, TurnListens, ListenService
<1> QED BY <1>1, <1>2, <1>3, <1>4, <1>5, <1>6, <1>7 DEF Main

LEMMA StepService == IInv /\ IInv' /\ TravelInv /\ ServiceInv /\ [Next]_vars => ServiceInv'
<1> SUFFICES ASSUME IInv, IInv', TravelInv, ServiceInv, [Next]_vars PROVE ServiceInv'
  OBVIOUS
<1>1. CASE MessageRead /\ NodesRead /\ Prepared
  BY <1>1, ReadService
<1>2. CASE VMQuiet /\ NodesKept /\ UNCHANGED thread_mode
  <2>1. UNCHANGED <<toVM, simVars>>
    BY <1>2 DEF VMQuiet
  <2>2. vmpc' = "run" => UNCHANGED <<vmpc, current_node, sim_instr_limit>>
    BY <1>2 DEF VMQuiet, Running
  <2> QED BY <1>2, <2>1, <2>2, WorkService DEF TravelInv
<1>3. CASE handle_deterministic_computation /\ UNCHANGED simVars
  <2>1. NodesKept
    BY <1>3, ReportNodes DEF TravelInv
  <2>2. UNCHANGED <<toVM, thread_mode>> /\ vmpc' # "run"
    BY <1>3, Zenon DEF handle_deterministic_computation, flagVars
  <2> QED BY <1>3, <2>1, <2>2, WorkService DEF TravelInv
<1>4. CASE Main /\ UNCHANGED vmVars
  BY <1>4, MainService
<1>5. CASE UNCHANGED vars
  <2>1. UNCHANGED <<toVM, simVars, vmVars>>
    BY <1>5 DEF vars
  <2>2. UNCHANGED <<node, gathered, slave, vmpc, current_node, sim_instr_limit, thread_mode>>
    BY <2>1, NodesFrame
  <2>3. NodesKept
    BY <2>2, SlavesAlone, NodesAlone DEF TravelInv
  <2> QED BY <2>1, <2>2, <2>3, WorkService DEF TravelInv
<1> QED BY <1>1, <1>2, <1>3, <1>4, <1>5, StepKinds

LEMMA InitService == Init => ServiceInv
<1> SUFFICES ASSUME Init PROVE ServiceInv
  OBVIOUS
<1>1. toVM = <<>> /\ node = <<>> /\ thread_mode = FALSE /\ simpc = "start"
  BY DEF Init, VMInit, SimInit
<1>2. DOMAIN node = {} /\ DOMAIN toVM = {}
  BY <1>1
<1> QED BY <1>1, <1>2 DEF ServiceInv, ModeInv, ScheduleInv, NoticeInv, Noticed, StrandInv, Absent

\* The invariant of the protocol: the faces that the simulator and the virtual machine
\* have recorded differ by the changes under way, and whoever a message or a queued
\* tuple is for is scheduled, ordered to run or running.
THEOREM ProtocolInv == Spec => [](IInv /\ TravelInv /\ ServiceInv)
<1>1. Init => IInv /\ TravelInv /\ ServiceInv
  BY InitIInv, InitTravel, InitService
<1>2. IInv /\ TravelInv /\ ServiceInv /\ [Next]_vars => (IInv /\ TravelInv /\ ServiceInv)'
  <2>1. IInv /\ [Next]_vars => IInv'
    BY StepIInv
  <2>2. IInv /\ TravelInv /\ ServiceInv /\ [Next]_vars => TravelInv'
    BY StepTravel DEF ServiceInv
  <2>3. IInv /\ IInv' /\ TravelInv /\ ServiceInv /\ [Next]_vars => ServiceInv'
    BY StepService
  <2> QED BY <2>1, <2>2, <2>3
<1> QED BY <1>1, <1>2, PTL DEF Spec

LEMMA WaitingForNode ==
  ASSUME RecordInv, NEW n \in DOMAIN node, n \in Ids, NEW i \in DOMAIN Waiting(n),
         SentInRun(Waiting(n)[i].tuple)
  PROVE  Waiting(n)[i].tuple[4] = n
<1> DEFINE S == Items(n) \cup Timed(n)
<1>1. /\ node[n].pending \in Seq(S) /\ node[n].tuple_pqueue \in Seq(S)
      /\ node[n].rtuple_pqueue \in Seq(S) /\ gathered[n] \in Seq(S)
  <2>1. /\ node[n].pending \in Seq(Items(n)) /\ node[n].tuple_pqueue \in Seq(Timed(n))
        /\ node[n].rtuple_pqueue \in Seq(Timed(n)) /\ gathered[n] \in Seq(Items(n))
    BY DEF RecordInv, NodeRecords
  <2>2. Items(n) \subseteq S /\ Timed(n) \subseteq S
    OBVIOUS
  <2> HIDE DEF S
  <2> QED BY <2>1, <2>2
<1>2. Waiting(n)[i] \in S
  <2> HIDE DEF S
  <2>1. Waiting(n) \in Seq(S)
    BY <1>1 DEF Waiting
  <2> QED BY <2>1
<1> QED BY <1>2, ItemsForNode

\* A tuple that a run sends reaches the node that the face it leaves by leads to, which
\* is the node it is for, or its sender when no face leads there any more, for every
\* number of blocks and every scenario that moves them, several at a time: neither
\* force_read in the simulator nor handle_receive_message in the virtual machine finds
\* another block, or none, on the face that send_send_message looked up.
THEOREM TuplesArrive == Spec => []SentInRunArrives
<1>1. ASSUME IInv, TravelInv PROVE SentInRunArrives
  <2>1. ASSUME toSim # <<>>, Head(toSim).type = "SEND_MESSAGE", SentInRun(Head(toSim).tuple)
        PROVE  Leads(Head(toSim), sim) = Head(toSim).tuple[4]
    <3> DEFINE S == Sends \cup Colors \cup Reports
    <3>1. toSim \in Seq(S)
      BY <1>1 DEF IInv, ChannelTypes
    <3> HIDE DEF S
    <3>2. 1 \in DOMAIN toSim /\ Head(toSim) = toSim[1]
      BY <2>1, <3>1, TailShape
    <3> QED BY <1>1, <2>1, <3>2 DEF TravelInv, SendInv
  <2>2. ASSUME toVM # <<>>, Head(toVM).type = "RECEIVE_MESSAGE", SentInRun(Head(toVM).tuple)
        PROVE  Leads(Head(toVM), node) = Head(toVM).tuple[4]
    <3>1. 1 \in DOMAIN toVM /\ Head(toVM) = toVM[1] /\ toVM[1] \in VMMessages
      BY <1>1, <2>2, TailShape DEF IInv, ChannelTypes
    <3>2. toVM[1] \in Receipts /\ DOMAIN node = Ids
      BY <1>1, <2>2, <3>1, MessageTypes, NodesThere DEF TravelInv
    <3>3. Reaches(1, toVM[1].tuple[4])
      BY <1>1, <2>2, <3>1 DEF TravelInv, ArriveInv
    <3> QED BY <3>1, <3>2, <3>3, ReachesFirst
  <2>3. ASSUME NEW n \in Created, NEW i \in DOMAIN Waiting(n), SentInRun(Waiting(n)[i].tuple)
        PROVE  Waiting(n)[i].tuple[4] = n
    <3>1. n \in DOMAIN node /\ n \in Ids /\ RecordInv
      BY <1>1 DEF Created, IInv, NodeTypes, TravelInv
    <3> QED BY <2>3, <3>1, WaitingForNode
  <2> QED BY <2>1, <2>2, <2>3 DEF SentInRunArrives
<1> QED BY <1>1, ProtocolInv, PTL

\* When nothing is scheduled and nothing under way, no node has a tuple in its queues
\* that a run would have taken: activate_node schedules the target of every message for
\* a time that is late enough, and get_next_node takes it out of the schedule only to
\* order a run up to that time.
THEOREM NobodyStranded == Spec => []NoneStranded
<1>1. ASSUME IInv, TravelInv, ServiceInv PROVE NoneStranded
  <2> SUFFICES ASSUME Quiescent, NEW n \in DOMAIN node
               PROVE  node[n].tuple_pqueue = <<>> /\ node[n].rtuple_pqueue = <<>>
    BY DEF NoneStranded, Created
  <2>1. deterministic /\ toVM = <<>> /\ pqueue = <<>> /\ vmpc = "loop"
    BY DEF Quiescent
  <2>2. \A x : ~Served(n, x, 0)
    BY <2>1 DEF Served, Scheduled
  <2>3. Times(node[n]) = {}
    BY <1>1, <2>1, <2>2 DEF ServiceInv, StrandInv
  <2>4. node[n].tuple_pqueue \in Seq(Timed(n)) /\ node[n].rtuple_pqueue \in Seq(Timed(n))
    BY <1>1 DEF TravelInv, RecordInv, NodeRecords
  <2>5. DOMAIN node[n].tuple_pqueue = {} /\ DOMAIN node[n].rtuple_pqueue = {}
    BY <2>3 DEF Times, QueueTimes
  <2> QED BY <2>4, <2>5
<1> QED BY <1>1, ProtocolInv, PTL
==============================================================================
