--------------------------- MODULE StaticScheduler ---------------------------
(***************************************************************************)
(* The static multi-threaded scheduler of the Meld virtual machine         *)
(* (sched::static_local over sched::threaded and termination_barrier).     *)
(*                                                                         *)
(* Every thread owns a fixed set of graph nodes.  It runs the nodes that   *)
(* have pending tuples, sends tuples to nodes of other threads through     *)
(* their buffers, and goes inactive when it has nothing to do.  When no    *)
(* thread is active the iteration ends: every thread generates the         *)
(* aggregates of its nodes, and the leader decides whether there is        *)
(* another round.                                                          *)
(*                                                                         *)
(* A tuple is represented by the node it is for, since nothing else of it  *)
(* matters to the scheduler.  Steps are those another thread can observe:  *)
(* each access to the tstate, the buffer, the counter or the flag of       *)
(* somebody else is a step of its own.  A failed assert() aborts the       *)
(* process: `failed' then names it and no thread moves any more.           *)
(***************************************************************************)
EXTENDS Integers, Sequences, FiniteSets

CONSTANTS
  N,          \* state.all->NUM_THREADS
  Nodes,      \* the nodes of the program's graph
  Owner,      \* the thread each node is assigned to by remote::find_proc_owner
  MaxTuples,  \* bound: how many tuples the program derives after the initial ones
  NULL        \* no node

Threads == 0 .. N - 1
NoThread == N

\* The number of threads is positive, every node belongs to a thread, and
\* NULL is not a node.
ASSUME SchedulerAssumption ==
  /\ N \in Nat \ {0}
  /\ Owner \in [Nodes -> Threads]
  /\ MaxTuples \in Nat
  /\ NULL \notin Nodes

VARIABLES
  tstate,              \* thread -> THREAD_ACTIVE / THREAD_INACTIVE
  active_threads,      \* termination_barrier::active_threads
  done,                \* termination_barrier::done
  lock,                \* thread -> holder of its spinlock, or NoThread
  buffer,              \* thread -> push_safe_linear_queue of incoming tuples
  queue_nodes,         \* thread -> its queue of nodes that have work
  node_queue,          \* node -> number of tuples in thread_node::queue
  in_queue,            \* node -> in_queue_node::i_am_on_queue
  current_node,        \* thread -> node being run, or NULL
  total_in_agg,        \* threads that have not finished the current round
  round_state,         \* 1 or 2 alternating, 0 when the program is over
  thread_round_state,  \* thread -> the round_state it has seen last
  iteration,           \* thread -> number of iterations it has ended
  budget,              \* tuples the program may still derive
  pc,                  \* thread -> where it is
  ret,                 \* thread -> where the subroutine it runs returns to
  tgt,                 \* thread -> the thread it is activating
  inhand,              \* thread -> node of the tuple it is moving, or NULL
  failed               \* the assertion that aborted the process, or "none"

syncVars  == <<tstate, active_threads, done, lock>>
nodeVars  == <<queue_nodes, node_queue, in_queue, current_node>>
roundVars == <<total_in_agg, round_state, thread_round_state, iteration>>
workVars  == <<buffer, nodeVars, budget>>
ctlVars   == <<pc, ret, tgt, inhand>>
vars == <<syncVars, workVars, roundVars, ctlVars, failed>>

OwnNodes(t) == {n \in Nodes : Owner[n] = t}

has_work(t) == queue_nodes[t] # <<>> \/ buffer[t] # <<>>
is_active(t) == tstate[t] = "ACTIVE"
is_inactive(t) == tstate[t] = "INACTIVE"

GET_NEXT(x) == IF x = 1 THEN 2 ELSE 1

Goto(t, label) == pc' = [pc EXCEPT ![t] = label]

\* Calls the subroutine at label; it goes on at back when it is over.
Call(t, label, back) ==
  /\ Goto(t, label)
  /\ ret' = [ret EXCEPT ![t] = back]

Unlock(t, u) == lock' = [lock EXCEPT ![u] = IF @ = t THEN NoThread ELSE @]

\* Mutant: the node is queued again although it is in the queue.
AddWorkTwice(t, n) ==
  /\ node_queue' = [node_queue EXCEPT ![n] = @ + 1]
  /\ in_queue' = [in_queue EXCEPT ![n] = TRUE]
  /\ queue_nodes' = [queue_nodes EXCEPT ![t] = Append(@, n)]

\* retrieve_tuples, new_work and new_agg: the tuple enters the node's queue,
\* and the node enters the thread's queue of nodes unless it is there.
AddWork(t, n) ==
  /\ node_queue' = [node_queue EXCEPT ![n] = @ + 1]
  /\ in_queue' = [in_queue EXCEPT ![n] = TRUE]
  /\ queue_nodes' = [queue_nodes EXCEPT
                      ![t] = IF in_queue[n] THEN @ ELSE Append(@, n)]

NodesIdle(t) == \A n \in OwnNodes(t) : node_queue[n] = 0 /\ ~in_queue[n]

\* assert_end and assert_end_iteration: the same conditions.
AssertEnd(t) == ~has_work(t) /\ is_inactive(t) /\ done /\ NodesIdle(t)

\* The assertions that the code evaluates before the step at each label.
AssertHolds(t) ==
  /\ pc[t] = "finished" => is_inactive(t)
  /\ pc[t] = "woke" => is_active(t) /\ has_work(t)
  /\ pc[t] = "set_active" => is_inactive(tgt[t])
  /\ pc[t] = "set_count" => active_threads < N
  /\ pc[t] = "idle_dec" => active_threads > 0
  /\ pc[t] = "push" => is_active(t)
  /\ pc[t] = "end_iteration" => AssertEnd(t)
  /\ pc[t] = "round" => is_inactive(t)
  /\ pc[t] = "dec" => total_in_agg > 0
  /\ pc[t] = "end" => AssertEnd(t)

\* The thread is at the label, and the assertions there hold.
At(t, label) == failed = "none" /\ pc[t] = label /\ AssertHolds(t)

------------------------------------------------------------------------------
(* Start: init() queues the init tuple of every own node and meets the      *)
(* other threads at the tree barrier.                                       *)

Init ==
  /\ tstate = [t \in Threads |-> "ACTIVE"]
  /\ active_threads = N
  /\ done = FALSE
  /\ lock = [t \in Threads |-> NoThread]
  /\ buffer = [t \in Threads |-> <<>>]
  /\ queue_nodes = [t \in Threads |-> <<>>]
  /\ node_queue = [n \in Nodes |-> 0]
  /\ in_queue = [n \in Nodes |-> FALSE]
  /\ current_node = [t \in Threads |-> NULL]
  /\ total_in_agg = N
  /\ round_state = 1
  /\ thread_round_state = [t \in Threads |-> 1]
  /\ iteration = [t \in Threads |-> 0]
  /\ budget = MaxTuples
  /\ pc = [t \in Threads |-> "init"]
  /\ ret = [t \in Threads |-> "check"]
  /\ tgt = [t \in Threads |-> t]
  /\ inhand = [t \in Threads |-> NULL]
  /\ failed = "none"

\* The loop of init(), over the own nodes in any order.
InitNode(t) ==
  /\ At(t, "init")
  /\ \E n \in OwnNodes(t) : ~in_queue[n] /\ AddWork(t, n)
  /\ UNCHANGED <<syncVars, buffer, current_node, budget, roundVars, ctlVars,
                 failed>>

InitDone(t) ==
  /\ At(t, "init")
  /\ \A n \in OwnNodes(t) : in_queue[n]
  /\ Goto(t, "sync")
  /\ UNCHANGED <<syncVars, workVars, roundVars, ret, tgt, inhand, failed>>

\* threads_synchronize(): what TreeBarrier promises.
Synchronize(t) ==
  /\ At(t, "sync")
  /\ \A u \in Threads : pc[u] # "init"
  /\ Goto(t, "next")
  /\ UNCHANGED <<syncVars, workVars, roundVars, ret, tgt, inhand, failed>>

------------------------------------------------------------------------------
(* get_work: set_next_node, retrieve_tuples, check_if_current_useless.      *)

\* The current node stays while it has tuples, and is given up otherwise.
SetNextNode(t) ==
  /\ At(t, "next")
  /\ LET n == current_node[t] IN
     \/ /\ n # NULL
        /\ node_queue[n] > 0
        /\ Call(t, "wake", "run")
        /\ UNCHANGED <<nodeVars>>
     \/ /\ n # NULL
        /\ node_queue[n] = 0
        /\ in_queue' = [in_queue EXCEPT ![n] = FALSE]
        /\ current_node' = [current_node EXCEPT ![t] = NULL]
        /\ Call(t, "retrieve", "check")
        /\ UNCHANGED <<queue_nodes, node_queue>>
     \/ /\ n = NULL
        /\ Call(t, "retrieve", "check")
        /\ UNCHANGED nodeVars
  /\ UNCHANGED <<syncVars, buffer, budget, roundVars, tgt, inhand, failed>>

\* One turn of the loop of retrieve_tuples: the tuple leaves the buffer ...
RetrieveTake(t) ==
  /\ At(t, "retrieve")
  /\ \/ /\ buffer[t] = <<>>
        /\ Goto(t, ret[t])
        /\ UNCHANGED <<buffer, inhand>>
     \/ /\ buffer[t] # <<>>
        /\ inhand' = [inhand EXCEPT ![t] = Head(buffer[t])]
        /\ buffer' = [buffer EXCEPT ![t] = Tail(@)]
        /\ Goto(t, "add")
  /\ UNCHANGED <<syncVars, nodeVars, budget, roundVars, ret, tgt, failed>>

\* ... and only then enters the queues: in between it is in neither.
RetrieveAdd(t) ==
  /\ At(t, "add")
  /\ AddWork(t, inhand[t])
  /\ inhand' = [inhand EXCEPT ![t] = NULL]
  /\ Goto(t, "retrieve")
  /\ UNCHANGED <<syncVars, buffer, current_node, budget, roundVars, ret, tgt,
                 failed>>

CheckWork(t) ==
  /\ At(t, "check")
  /\ Goto(t, IF has_work(t) THEN "pop" ELSE "wait")
  /\ UNCHANGED <<syncVars, workVars, roundVars, ret, tgt, inhand, failed>>

\* queue_nodes.pop(current_node), then check_if_current_useless.
PopNode(t) ==
  /\ At(t, "pop")
  /\ \/ /\ queue_nodes[t] = <<>>
        /\ Call(t, "retrieve", "check")
        /\ UNCHANGED nodeVars
     \/ /\ queue_nodes[t] # <<>>
        /\ queue_nodes' = [queue_nodes EXCEPT ![t] = Tail(@)]
        /\ LET n == Head(queue_nodes[t]) IN
           IF node_queue[n] > 0
           THEN /\ current_node' = [current_node EXCEPT ![t] = n]
                /\ Call(t, "wake", "run")
                /\ UNCHANGED in_queue
           ELSE /\ in_queue' = [in_queue EXCEPT ![n] = FALSE]
                /\ Call(t, "retrieve", "check")
                /\ UNCHANGED current_node
        /\ UNCHANGED node_queue
  /\ UNCHANGED <<syncVars, buffer, budget, roundVars, tgt, inhand, failed>>

------------------------------------------------------------------------------
(* busy_wait: BUSY_LOOP_MAKE_INACTIVE and BUSY_LOOP_CHECK_TERMINATION.      *)

BusyWait(t) ==
  /\ At(t, "wait")
  /\ IF has_work(t) THEN Call(t, "wake", "woke") ELSE Call(t, "retrieve", "idle")
  /\ UNCHANGED <<syncVars, workVars, roundVars, tgt, inhand, failed>>

MakeInactiveTest(t) ==
  /\ At(t, "idle")
  /\ Goto(t, IF is_active(t) /\ ~has_work(t) THEN "idle_lock" ELSE "term")
  /\ UNCHANGED <<syncVars, workVars, roundVars, ret, tgt, inhand, failed>>

MakeInactiveLock(t) ==
  /\ At(t, "idle_lock")
  /\ lock[t] = NoThread
  /\ lock' = [lock EXCEPT ![t] = t]
  /\ Goto(t, "idle_in")
  /\ UNCHANGED <<tstate, active_threads, done, workVars, roundVars, ret, tgt,
                 inhand, failed>>

\* With the lock held: work has arrived (the break), or the thread becomes
\* inactive.  It is still active, for nobody else makes it inactive.
MakeInactiveEnter(t) ==
  /\ At(t, "idle_in")
  /\ \/ /\ has_work(t)
        /\ Unlock(t, t)
        /\ Call(t, "wake", "woke")
        /\ UNCHANGED tstate
     \/ /\ ~has_work(t) /\ is_active(t)
        /\ tstate' = [tstate EXCEPT ![t] = "INACTIVE"]
        /\ Goto(t, "idle_dec")
        /\ UNCHANGED <<lock, ret>>
  /\ UNCHANGED <<active_threads, done, workVars, roundVars, tgt, inhand, failed>>

\* Mutant: the test reads the counter before it is decremented.
MakeInactiveCountLate(t) ==
  /\ At(t, "idle_dec")
  /\ active_threads' = active_threads - 1
  /\ IF active_threads = 0
     THEN Goto(t, "idle_done") /\ UNCHANGED lock
     ELSE Goto(t, "term") /\ Unlock(t, t)
  /\ UNCHANGED <<tstate, done, workVars, roundVars, ret, tgt, inhand, failed>>

\* termination_barrier::is_inactive: the counter, then the flag.
MakeInactiveCount(t) ==
  /\ At(t, "idle_dec")
  /\ active_threads' = active_threads - 1
  /\ IF active_threads = 1
     THEN Goto(t, "idle_done") /\ UNCHANGED lock
     ELSE Goto(t, "term") /\ Unlock(t, t)
  /\ UNCHANGED <<tstate, done, workVars, roundVars, ret, tgt, inhand, failed>>

MakeInactiveDone(t) ==
  /\ At(t, "idle_done")
  /\ done' = TRUE
  /\ Unlock(t, t)
  /\ Goto(t, "term")
  /\ UNCHANGED <<tstate, active_threads, workVars, roundVars, ret, tgt, inhand,
                 failed>>

CheckTermination(t) ==
  /\ At(t, "term")
  /\ Goto(t, IF done THEN "finished" ELSE "wait")
  /\ UNCHANGED <<syncVars, workVars, roundVars, ret, tgt, inhand, failed>>

\* busy_wait and get_work return without a node; do_loop goes on.
WaitFinished(t) ==
  /\ At(t, "finished")
  /\ Goto(t, "end_iteration")
  /\ UNCHANGED <<syncVars, workVars, roundVars, ret, tgt, inhand, failed>>

WaitWoke(t) ==
  /\ At(t, "woke")
  /\ Goto(t, "pop")
  /\ UNCHANGED <<syncVars, workVars, roundVars, ret, tgt, inhand, failed>>

------------------------------------------------------------------------------
(* set_active_if_inactive (own thread, with the lock) and set_active.       *)

WakeTest(t) ==
  /\ At(t, "wake")
  /\ Goto(t, IF is_inactive(t) THEN "wake_lock" ELSE ret[t])
  /\ UNCHANGED <<syncVars, workVars, roundVars, ret, tgt, inhand, failed>>

WakeLock(t) ==
  /\ At(t, "wake_lock")
  /\ lock[t] = NoThread
  /\ IF is_inactive(t)
     THEN /\ lock' = [lock EXCEPT ![t] = t]
          /\ tgt' = [tgt EXCEPT ![t] = t]
          /\ Goto(t, "set_active")
     ELSE Goto(t, ret[t]) /\ UNCHANGED <<lock, tgt>>
  /\ UNCHANGED <<tstate, active_threads, done, workVars, roundVars, ret, inhand,
                 failed>>

\* assert(tstate == THREAD_INACTIVE) has been read; the store is a later step.
SetActiveAssert(t) ==
  /\ At(t, "set_active")
  /\ Goto(t, "set_tstate")
  /\ UNCHANGED <<syncVars, workVars, roundVars, ret, tgt, inhand, failed>>

SetActiveStore(t) ==
  /\ At(t, "set_tstate")
  /\ tstate' = [tstate EXCEPT ![tgt[t]] = "ACTIVE"]
  /\ Goto(t, "set_count")
  /\ UNCHANGED <<active_threads, done, lock, workVars, roundVars, ret, tgt,
                 inhand, failed>>

\* Mutant: set_active forgets the termination barrier.
SetActiveUncounted(t) ==
  /\ At(t, "set_count")
  /\ Unlock(t, tgt[t])
  /\ Goto(t, ret[t])
  /\ UNCHANGED <<tstate, active_threads, done, workVars, roundVars, ret, tgt,
                 inhand, failed>>

\* termination_barrier::is_active, and the end of the caller's critical
\* section (terminate_iteration has none).
SetActiveCount(t) ==
  /\ At(t, "set_count")
  /\ active_threads' = active_threads + 1
  /\ Unlock(t, tgt[t])
  /\ Goto(t, ret[t])
  /\ UNCHANGED <<tstate, done, workVars, roundVars, ret, tgt, inhand, failed>>

------------------------------------------------------------------------------
(* do_work: run_node takes tuples of the node and derives new ones.         *)

\* gather_next_tuples takes the tuples of the lowest stratification level:
\* at least one of them.
RunNode(t) ==
  /\ At(t, "run")
  /\ \E k \in 1 .. node_queue[current_node[t]] :
       node_queue' = [node_queue EXCEPT ![current_node[t]] = @ - k]
  /\ Goto(t, "emit")
  /\ UNCHANGED <<syncVars, buffer, queue_nodes, in_queue, current_node, budget,
                 roundVars, ret, tgt, inhand, failed>>

\* machine::route to a node of this thread: new_work.
NewWork(t) ==
  /\ At(t, "emit")
  /\ budget > 0
  /\ budget' = budget - 1
  /\ \E n \in OwnNodes(t) : AddWork(t, n)
  /\ UNCHANGED <<syncVars, buffer, current_node, roundVars, ctlVars, failed>>

\* machine::route to a node of another thread: new_work_other ...
NewWorkOther(t) ==
  /\ At(t, "emit")
  /\ budget > 0
  /\ budget' = budget - 1
  /\ \E n \in Nodes \ OwnNodes(t) :
       /\ inhand' = [inhand EXCEPT ![t] = n]
       /\ tgt' = [tgt EXCEPT ![t] = Owner[n]]
  /\ Goto(t, "push")
  /\ UNCHANGED <<syncVars, buffer, nodeVars, roundVars, ret, failed>>

\* ... owner->buffer.push ...
PushOther(t) ==
  /\ At(t, "push")
  /\ buffer' = [buffer EXCEPT ![tgt[t]] = Append(@, inhand[t])]
  /\ inhand' = [inhand EXCEPT ![t] = NULL]
  /\ Goto(t, "other_lock")
  /\ UNCHANGED <<syncVars, nodeVars, budget, roundVars, ret, tgt, failed>>

\* ... and, with the owner's lock, a look at its state and at its queues.
OtherLock(t) ==
  /\ At(t, "other_lock")
  /\ lock[tgt[t]] = NoThread
  /\ lock' = [lock EXCEPT ![tgt[t]] = t]
  /\ Goto(t, "other_queue")
  /\ UNCHANGED <<tstate, active_threads, done, workVars, roundVars, ret, tgt,
                 inhand, failed>>

OtherTestQueue(t) ==
  /\ At(t, "other_queue")
  /\ \/ /\ is_active(tgt[t])
        /\ Unlock(t, tgt[t])
        /\ Goto(t, "emit")
        /\ UNCHANGED ret
     \/ /\ is_inactive(tgt[t])
        /\ queue_nodes[tgt[t]] # <<>>
        /\ Call(t, "set_active", "emit")
        /\ UNCHANGED lock
     \/ /\ is_inactive(tgt[t])
        /\ queue_nodes[tgt[t]] = <<>>
        /\ Goto(t, "other_buffer")
        /\ UNCHANGED <<lock, ret>>
  /\ UNCHANGED <<tstate, active_threads, done, workVars, roundVars, tgt, inhand,
                 failed>>

OtherTestBuffer(t) ==
  /\ At(t, "other_buffer")
  /\ IF buffer[tgt[t]] # <<>>
     THEN Call(t, "set_active", "emit") /\ UNCHANGED lock
     ELSE Goto(t, "emit") /\ Unlock(t, tgt[t]) /\ UNCHANGED ret
  /\ UNCHANGED <<tstate, active_threads, done, workVars, roundVars, tgt, inhand,
                 failed>>

FinishWork(t) ==
  /\ At(t, "emit")
  /\ Goto(t, "next")
  /\ UNCHANGED <<syncVars, workVars, roundVars, ret, tgt, inhand, failed>>

------------------------------------------------------------------------------
(* end_iteration: terminate_iteration with START_ROUND and END_ROUND.       *)

EndIteration(t) ==
  /\ At(t, "end_iteration")
  /\ iteration' = [iteration EXCEPT ![t] = @ + 1]
  /\ Goto(t, "round")
  /\ UNCHANGED <<syncVars, workVars, total_in_agg, round_state,
                 thread_round_state, ret, tgt, inhand, failed>>

StartRound(t) ==
  /\ At(t, "round")
  /\ Goto(t, "aggs")
  /\ UNCHANGED <<syncVars, workVars, roundVars, ret, tgt, inhand, failed>>

\* generate_aggs: node::end_iteration of an own node yields an aggregate, which
\* new_agg queues.
GenerateAgg(t) ==
  /\ At(t, "aggs")
  /\ budget > 0
  /\ budget' = budget - 1
  /\ \E n \in OwnNodes(t) : AddWork(t, n)
  /\ UNCHANGED <<syncVars, buffer, current_node, roundVars, ctlVars, failed>>

\* Mutant: a thread with new aggregates or tuples stays inactive.
RoundStaysInactive(t) ==
  /\ At(t, "aggs")
  /\ Goto(t, "dec")
  /\ UNCHANGED <<syncVars, workVars, roundVars, ret, tgt, inhand, failed>>

\* if(has_work()) set_active(), without the lock.
RoundHasWork(t) ==
  /\ At(t, "aggs")
  /\ IF has_work(t)
     THEN /\ Call(t, "set_active", "dec")
          /\ tgt' = [tgt EXCEPT ![t] = t]
     ELSE Goto(t, "dec") /\ UNCHANGED <<ret, tgt>>
  /\ UNCHANGED <<syncVars, workVars, roundVars, inhand, failed>>

EndRoundDec(t) ==
  /\ At(t, "dec")
  /\ total_in_agg' = total_in_agg - 1
  /\ Goto(t, "spin")
  /\ UNCHANGED <<syncVars, workVars, round_state, thread_round_state, iteration,
                 ret, tgt, inhand, failed>>

\* Mutant: the leader does not wait for the other threads.
LeaderDoesNotWait(t) ==
  /\ At(t, "spin")
  /\ t = 0
  /\ IF active_threads > 0
     THEN Goto(t, "reset") /\ UNCHANGED round_state
     ELSE Goto(t, "end") /\ round_state' = 0
  /\ UNCHANGED <<syncVars, workVars, total_in_agg, thread_round_state, iteration,
                 ret, tgt, inhand, failed>>

LeaderDecides(t) ==
  /\ At(t, "spin")
  /\ t = 0
  /\ total_in_agg = 0
  /\ IF active_threads > 0
     THEN Goto(t, "reset") /\ UNCHANGED round_state
     ELSE Goto(t, "end") /\ round_state' = 0
  /\ UNCHANGED <<syncVars, workVars, total_in_agg, thread_round_state, iteration,
                 ret, tgt, inhand, failed>>

\* Mutants: the round counter is reset to one thread too few, or too many.
LeaderResetsShort(t) ==
  /\ At(t, "reset")
  /\ done' = FALSE
  /\ total_in_agg' = N - 1
  /\ Goto(t, "release")
  /\ UNCHANGED <<tstate, active_threads, lock, workVars, round_state,
                 thread_round_state, iteration, ret, tgt, inhand, failed>>

LeaderResets(t) ==
  /\ At(t, "reset")
  /\ done' = FALSE
  /\ total_in_agg' = N
  /\ Goto(t, "release")
  /\ UNCHANGED <<tstate, active_threads, lock, workVars, round_state,
                 thread_round_state, iteration, ret, tgt, inhand, failed>>

LeaderReleases(t) ==
  /\ At(t, "release")
  /\ round_state' = GET_NEXT(round_state)
  /\ Goto(t, "next")
  /\ UNCHANGED <<syncVars, workVars, total_in_agg, thread_round_state, iteration,
                 ret, tgt, inhand, failed>>

FollowerReleased(t) ==
  /\ At(t, "spin")
  /\ t # 0
  /\ round_state # thread_round_state[t]
  /\ IF round_state = GET_NEXT(thread_round_state[t])
     THEN /\ thread_round_state' = [thread_round_state EXCEPT ![t] = GET_NEXT(@)]
          /\ Goto(t, "next")
     ELSE Goto(t, "end") /\ UNCHANGED thread_round_state
  /\ UNCHANGED <<syncVars, workVars, total_in_agg, round_state, iteration, ret,
                 tgt, inhand, failed>>

\* loop() runs assert_end and end() after do_loop, and the thread returns.
End(t) ==
  /\ At(t, "end")
  /\ Goto(t, "exit")
  /\ UNCHANGED <<syncVars, workVars, roundVars, ret, tgt, inhand, failed>>

------------------------------------------------------------------------------
(* The thread's steps.                                                      *)

Abort(t) ==
  /\ failed = "none"
  /\ ~AssertHolds(t)
  /\ failed' = pc[t]
  /\ UNCHANGED <<syncVars, workVars, roundVars, ctlVars>>

Step(t) ==
  \/ InitNode(t) \/ InitDone(t) \/ Synchronize(t)
  \/ SetNextNode(t) \/ RetrieveTake(t) \/ RetrieveAdd(t) \/ CheckWork(t) \/ PopNode(t)
  \/ BusyWait(t) \/ MakeInactiveTest(t) \/ MakeInactiveLock(t)
  \/ MakeInactiveEnter(t) \/ MakeInactiveCount(t) \/ MakeInactiveDone(t)
  \/ CheckTermination(t) \/ WaitFinished(t) \/ WaitWoke(t)
  \/ WakeTest(t) \/ WakeLock(t)
  \/ SetActiveAssert(t) \/ SetActiveStore(t) \/ SetActiveCount(t)
  \/ RunNode(t) \/ NewWork(t) \/ NewWorkOther(t) \/ PushOther(t)
  \/ OtherLock(t) \/ OtherTestQueue(t) \/ OtherTestBuffer(t) \/ FinishWork(t)
  \/ EndIteration(t) \/ StartRound(t) \/ GenerateAgg(t) \/ RoundHasWork(t) \/ EndRoundDec(t)
  \/ LeaderDecides(t) \/ LeaderResets(t) \/ LeaderReleases(t)
  \/ FollowerReleased(t) \/ End(t)

Thread(t) == Step(t) \/ Abort(t)

\* The process is over: every thread has returned, or it has aborted.
Over == failed # "none" \/ \A t \in Threads : pc[t] = "exit"

Terminated == Over /\ UNCHANGED vars

Next == (\E t \in Threads : Thread(t)) \/ Terminated

Spec == Init /\ [][Next]_vars

\* The operating system runs every thread that can move, and every derivation
\* of a program that terminates ends.
FairSpec == Spec /\ \A t \in Threads : WF_vars(Thread(t))

------------------------------------------------------------------------------
(* Properties.                                                              *)

Labels ==
  {"init", "sync", "next", "retrieve", "add", "check", "pop", "wait", "idle",
   "idle_lock", "idle_in", "idle_dec", "idle_done", "term", "finished", "woke",
   "wake", "wake_lock", "set_active", "set_tstate", "set_count", "run", "emit",
   "push", "other_lock", "other_queue", "other_buffer", "end_iteration", "round",
   "aggs", "dec", "spin", "reset", "release", "end", "exit"}

\* The places a subroutine may return to.
Returns == {"check", "idle", "woke", "run", "emit", "dec"}

\* Type invariant.  The counters are bounded by the asserts around them.
TypeOK ==
  /\ tstate \in [Threads -> {"ACTIVE", "INACTIVE"}]
  /\ active_threads \in 0 .. N
  /\ done \in BOOLEAN
  /\ lock \in [Threads -> Threads \cup {NoThread}]
  /\ buffer \in [Threads -> Seq(Nodes)]
  /\ queue_nodes \in [Threads -> Seq(Nodes)]
  /\ node_queue \in [Nodes -> Nat]
  /\ in_queue \in [Nodes -> BOOLEAN]
  /\ current_node \in [Threads -> Nodes \cup {NULL}]
  /\ total_in_agg \in 0 .. N
  /\ round_state \in {0, 1, 2}
  /\ thread_round_state \in [Threads -> {1, 2}]
  /\ iteration \in [Threads -> Nat]
  /\ budget \in 0 .. MaxTuples
  /\ pc \in [Threads -> Labels]
  /\ ret \in [Threads -> Returns]
  /\ tgt \in [Threads -> Threads]
  /\ inhand \in [Threads -> Nodes \cup {NULL}]
  /\ failed \in Labels \cup {"none"}

\* The thread has counted the iteration it ends and has not begun another one.
InRound(t) ==
  \/ pc[t] \in {"round", "aggs", "dec", "spin", "reset", "release", "end", "exit"}
  \/ pc[t] \in {"set_active", "set_tstate", "set_count"} /\ ret[t] = "dec"

\* END_ROUND is a barrier: a thread that has ended more iterations than another
\* one is still held in its round.
RoundsInLockstep ==
  \A t, u \in Threads : iteration[t] > iteration[u] =>
    /\ iteration[t] = iteration[u] + 1
    /\ InRound(t)

\* All threads leave do_loop from the same iteration: once one of them does, no
\* other is running nodes or will be released into another iteration.
LeaveTogether ==
  \A t \in Threads : pc[t] \in {"end", "exit"} =>
    \A u \in Threads : /\ pc[u] \in {"spin", "end", "exit"}
                        /\ iteration[u] = iteration[t]

\* A node that has tuples is known to its owner: it is in its queue exactly
\* once, or it is the node being run; and i_am_on_queue says so.
NodesAccountedFor ==
  \A n \in Nodes :
    LET queued == {i \in DOMAIN queue_nodes[Owner[n]] : queue_nodes[Owner[n]][i] = n}
        places == Cardinality(queued)
                  + IF current_node[Owner[n]] = n THEN 1 ELSE 0
    IN /\ node_queue[n] > 0 => in_queue[n]
       /\ places = IF in_queue[n] THEN 1 ELSE 0

\* A tuple that has been sent or derived and not been processed.
Outstanding ==
  \/ \E n \in Nodes : node_queue[n] > 0
  \/ \E t \in Threads : \/ buffer[t] # <<>>
                         \/ inhand[t] # NULL
                         \/ pc[t] = "emit"

\* No thread returns from the scheduler while a tuple is outstanding anywhere,
\* whatever else went wrong before: no work is lost by termination.
NoWorkLost == (\E t \in Threads : pc[t] \in {"end", "exit"}) => ~Outstanding

\* The termination counter never falls short of the threads that are active,
\* except by those whose activation is being recorded.
NeverUndercounted ==
  Cardinality({t \in Threads : is_active(t)})
    <= active_threads + Cardinality({t \in Threads : pc[t] = "set_count"})

\* The code asserts, whenever do_loop ends an iteration, that the thread has no
\* work and is inactive (static_local::assert_end_iteration).
EndIterationAssertHolds == failed # "end_iteration"

\* Termination is announced although a tuple is outstanding.
Premature == Outstanding /\ \E t \in Threads : pc[t] = "idle_done"

\* If termination is never announced with a tuple outstanding, then no
\* assertion fails and every thread returns: the counter reaches zero, every
\* round is joined by all threads, and the leader sees that nothing is left.
TerminatesUnlessPremature ==
  []~Premature => /\ [](failed = "none")
                  /\ <>(\A t \in Threads : pc[t] = "exit")
==============================================================================
