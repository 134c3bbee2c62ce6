# A TLA+ model of the Meld virtual machine

This directory is a verification project for `src/predicates`, the C++ virtual
machine that runs compiled Meld programs, and for the linker `src/merge.cpp` that
puts such programs together. Meld programs are forward-chaining logic programs over
a graph of nodes, executed by several threads, or on simulated robot blocks under the
control of a simulator. The project holds TLA+ modules translated
from the source, TLC configurations that check them on small instances, and
theorems that TLAPS checks for every value of the constants.

File names below are relative to `src/predicates` unless they begin with `src/`.

## The system

A program is a set of predicates and rules in byte code. The graph's nodes hold
tuples. Running a node takes the tuples that wait for it, runs the rules they
make applicable, stores what is left in the node's database, and sends derived
tuples to other nodes. When no node has work, aggregates are generated and a new
iteration begins, until nothing is derived any more.

| component | state it keeps | operations | talks to | what is hard |
|---|---|---|---|---|
| static scheduler: `thread/static.*`, `sched/thread/threaded.hpp`, `termination_barrier.hpp`, `sched/base.*` | per thread: state, lock, buffer, queue of nodes, current node; shared: number of active threads, `done`, round counters | `get_work`, `busy_wait`, `new_work`, `new_work_other`, `new_agg`, `terminate_iteration`, `end` | other threads through their buffers and states; the rule engine runs inside `do_work` | termination detection by a counter, tuples in transit, a round barrier built from three variables |
| tree barrier: `utils/tree_barrier.hpp` | a tree of counters, one shared sense | construction, `wait` | used by the threads after `init` | reuse of the barrier, threads of different speed |
| rule engine: `vm/state.cpp`, `vm/rule_matcher.*`, parts of `vm/exec.cpp` | per node: tuple counts per predicate, sets of active and dropped rules; per thread: local, generated and persistent tuples, the rule queue | `run_node`, `register_tuple`, `deregister_tuple`, `mark_active_rules`, `do_persistent_tuples` | the scheduler (`gather_next_tuples`), the database, the interpreter | rules must neither be missed nor run on counts that have drifted; retraction; the simulator's instruction limit |
| database: `db/node.*`, `db/trie.*`, `db/database.*` | tries of reference-counted tuples per predicate | insert, delete, match | rule engine, interpreter | reference counts, deletion during iteration |
| aggregates: `db/agg_configuration.*`, `db/tuple_aggregate.*` | values per configuration, last generated value | add, remove, generate | rule engine, end of an iteration | retraction of the old value |
| interpreter: `vm/instr.*`, `vm/exec.cpp` | registers, stack, open iterations, marks of the tuples in use | one byte code instruction at a time; the linker's renumbering walks over the same code | rule engine, database, linker | three decoders of one format; returns out of nested iterations; copies of a tuple used twice |
| priority scheduler: `thread/prio.*`, `queue/*` | a list and a heap of nodes, both intrusive | as the static scheduler, and `set`/`add`/`schedule_next` of priorities | as the static scheduler | priorities that change while a node is in a queue |
| loader: `vm/program.cpp`, `predicate.cpp`, `external.cpp` | the program, the registry of external functions | read a file section by section, add a data file | linker, machine | nothing in the file says where a section begins |
| linker: `src/merge.cpp` | the loaded programs, new numbers of predicates and rules | load, number, write, renumber code | loader, printer of the interpreter | counts written before the sections they count; references that keep old numbers |
| simulator scheduler: `sched/sim.*`, `sched/nodes/sim.hpp` | per block: queues by time stamp, faces; delayed tuples; slave threads | one handler per message; runs up to an instruction limit | simulator (TCP), rule engine | messages under way while blocks move; runs cut short |
| mock simulator: `mock-simulator/simulator.cpp` | blocks, faces, time stamps, scheduled blocks | one writer per message, the loop of `main` | simulator scheduler | time stamps of blocks that overrun their limit |
| work-stealing schedulers: `thread/direct.cpp`, `dynamic.cpp`, `single.cpp` | shared or stealable queues | steal requests | each other | races for nodes |
| serial schedulers: `sched/serial*.cpp` | a list of nodes | `get_work`, `new_work` | rule engine | |
| MPI layer: `sched/mpi/*` | message buffers, token | Safra's algorithm, sends and receives | other processes | distributed termination |
| machine, router, remote: `process/*` | partition of the nodes | start-up, `route`, `route_self` | all schedulers | |
| external functions, run-time values: `external/*`, `runtime/*` | reference counts | pure functions | interpreter | |
| memory pools: `mem/*` | free lists per thread and size | allocate, deallocate | everything | |
| statistics, user interface | counters | report | | reporting only |

What makes each part correct, in one line each: the scheduler never loses a
tuple, never ends an iteration while one is outstanding, and ends once none is;
the barrier releases nobody before everybody has come; the rule engine runs
every rule that can be derived; the trie is the multiset of tuples that were
inserted and not deleted; an aggregate is the function of the values present;
whoever walks over byte code is always at an instruction, and a rule uses no copy
of a tuple twice; the priority scheduler keeps its queues sound and forgets no
node; a linked program says what its parts said; a simulated block is told the
faces it has, and what it sends arrives.

## Modules

| module | models |
|---|---|
| `StaticScheduler` | the static scheduler |
| `MCStaticScheduler` | its instances: nodes dealt out in turn |
| `StaticSchedulerProofs` | theorems about it: rounds and the counter; nodes, tuples and termination |
| `ThreadBarrier` | what a barrier promises (abstract) |
| `TreeBarrier` | `tree_barrier::inner_node::wait` step by step |
| `TreeBuild` | the constructor's layout of the tree |
| `MCTreeBarrier` | their instances |
| `TreeBarrierProofs` | theorems about `TreeBarrier` |
| `RuleEngine` | `run_node` of one node with its `rule_matcher` |
| `MCRuleEngine` | a small program for it |
| `RuleEngineProofs` | theorems about the rule queue |
| `TupleStore` | what a node's store of tuples promises (abstract) |
| `TupleTrie` | `db::trie` and `db::tuple_trie`, the store itself |
| `MCTupleTrie` | three predicates for it |
| `Aggregates` | `agg_configuration`, `tuple_aggregate` and the part of `vm::state` that feeds them |
| `AggregatesProofs` | theorems about `Aggregates` |
| `ByteCode` | instruction formats, `advance`, and the order in which each decoder reads operands |
| `Interpreter` | the printer with the linker's renumbering, and `execute` |
| `InterpreterProofs` | theorem about it: copies in use |
| `MCInterpreter` | one program for every instruction and operand, and some with calls, iterations, branches |
| `NodeQueues` | the doubly linked list and the binary heap of nodes |
| `NodeOrder` | in which order a thread with priorities runs its nodes (abstract) |
| `PriorityScheduler`, `MCPriorityScheduler` | a thread of `threads_prio`; its instance, and the heap alone |
| `PrioritySchedulerProofs` | theorems about the two queues and the order of nodes |
| `ProgramFile` | byte code files and the loader |
| `Linker`, `MCLinker` | the linker and the start of the machine; programs to link |
| `SimMessages` | the connection between virtual machine and simulator |
| `SimScheduler` | the simulator scheduler |
| `MockSimulator` | the simulator |
| `SimulatedBlocks`, `MCSimulatedBlocks` | both connected; three blocks |
| `SimulatedBlocksProofs` | theorems about the two connected |
| `CommonLemmas` | for the proofs: a least-number principle, loops as recursive functions, occurrences in sequences |

### StaticScheduler

A tuple is represented by the node it is for. The variables have the names of the
code's members: `tstate`, `active_threads` and `done` (`termination_barrier`),
`buffer`, `queue_nodes`, `node_queue` (the number of tuples in
`thread_node::queue`), `in_queue` (`i_am_on_queue`), `current_node`,
`total_in_agg`, `round_state`, `thread_round_state`, `iteration`. `pc` says where a
thread is, `ret` where the subroutine it is in returns to, `tgt` which thread it
is activating, `inhand` which tuple it has taken from one place and not put into
the next.

One action is the code between two accesses to something another thread writes.
That is why `retrieve_tuples` is two actions per tuple (`RetrieveTake`,
`RetrieveAdd`), why `new_work_other` reads the owner's queue and buffer in two
steps, and why `set_active` is three (the assertion, the store, the counter).
The buffer is atomic: `push_safe_linear_queue` is a component of its own.
Sequential consistency is assumed; the code uses `volatile` and GCC atomics on
x86. Code under `COMPILE_MPI`, `TASK_STEALING`, `INSTRUMENTATION` and the user
interface is switched off in the source and is not modelled.

`AssertHolds` collects the code's assertions by label. A thread whose assertion
does not hold takes `Abort`, and `failed` then stops every thread, as
`assert` stops the process.

`RunNode`, `NewWork`, `NewWorkOther` and `GenerateAgg` stand for the program: a run
consumes at least one tuple of the node and derives any tuples for any nodes,
`MaxTuples` of them in a behaviour.

### TreeBarrier, ThreadBarrier, TreeBuild

`TreeBarrier` has one action per line of `wait`. `ThreadBarrier` is what the
scheduler's `Synchronize` assumes; `TreeBarrier` implements it with `waiting`
mapped to the threads inside `wait`. `TreeBuild` computes the tree of the
constructor with recursive operators; `MCTreeBarrier` assumes, and TLC evaluates,
that the tree of its run is the constructor's, and that for 1 to 64 threads every
thread has a node, parents have smaller numbers, and each counter is the number of
children (`TreeBuildAssumption`). The program builds barriers of radix 2
only. (For other radixes the number of levels can be too small: five threads
and radix 3 leave one without a node. No code does that.)

### RuleEngine

One node and the thread that runs it. `queue` is what the scheduler holds for the
node, `db` the counts in the node's tries, `predicate_count`, `total_have`,
`active_rules` and `dropped_rules` the node's `rule_matcher`; the other variables
are the members of `vm::state` of the same name. `local_tuples` is split by what a
tuple may still do: `gathered` (not marked yet), `local_tuples` (can be consumed)
and `consumed` (`will_delete` was called). A run goes through the labels of `pc`:

| label | code |
|---|---|
| `idle` | between runs: `Arrive`, `Gather` |
| `mark` | `mark_rules_using_local_tuples` |
| `persistent` | `do_persistent_tuples`, then `mark_active_rules` |
| `loop` | the `while` over `rule_queue` |
| `rule`, `fire` | `execute_rule`: a match, its removals and sends, the next match |
| `consumed` | `process_consumed_local_tuples` and the splice after it |
| `finish` | what is left goes to the database, or waits; `process_others` |

A step is one tuple or one rule, so that the order of what a function does to
several tuples is the code's. The program is a parameter: `Body` says how often
each predicate occurs in a rule (the byte code file lists a predicate once per
occurrence, `vm/program.cpp`), `Heads` what a rule may derive for its own node and
`Consequences` what the persistent rules derive from a tuple. Only linear rules are
in `Rules`; the matcher ignores the others. Byte code fires a rule any number of times, also
none although tuples of all predicates are there, because arguments may not match.

Abstractions: tuples have no arguments, equal ones are counted; a tuple consumed
while it waits in the scheduler's queue leaves it at once (the code marks it and
throws it away when it is gathered); aggregates, actions and delayed sends are left
out. `Init` chooses whether a scheduler or the simulator runs the node (`sim_instr_use`); for the simulator time
stamps are left out, what is pending is gathered at the next run, and `LimitReached` is the instruction counter
reaching its limit at any moment. Its instance has a smaller program (`SimConsequences`), because persistent tuples that
derive each other in a circle may there be derived and retracted forever (see the hazards). The branch that gathers tuples in the middle of a simulated run finds
none, because the simulator keeps what is sent during a run aside (`tmp_work`).

`base`, `fresh` and `copied` are history variables: what was added from outside, the rules
that got a tuple which the node did not have since they were run, and those that got a further copy of
a stored reused tuple. The properties compare the code's counts and queue with them.

`rule_queue` is a set, because the loop takes the least rule of it. In the code it is a heap, and its
`remove_by_index` (`queue/safe_simple_pqueue.hpp:157`) lets the last element sink into the gap
but never rise, so that with six or more queued rules the order may break; that is not modelled. Its
`remove` asserts that it finds the rule. After a run that was cut short a flagged rule
is in no heap; when it then loses its tuples, the assertion fails and the model stops (`failed`). The simulator's
part of the run `rules` reaches this.

### TupleStore, TupleTrie

`TupleTrie` is the store of one predicate at one node. A `trie_node` is named by
the values on the path to it, so `child`, `parent`, `next` and `prev` become the
node's `buckets`: one sequence of values for a linked list, one for each bucket of
a `trie_hash`. `bucket` is the back pointer that deletion uses, `total` the table's
count, and `leaves` the linked list from `first_leaf` to `last_leaf`. All scalar types
are integers, because the code treats them alike; a list is spelled out as the code
does, a marker before each item and one at the end.

| action | code |
|---|---|
| `insert_tuple` | `tuple_trie::insert_tuple`, `trie::check_insert`, `convert_hash`, `expand` |
| `delete_tuple`, `commit_delete` | a retraction and, later, the `delete_info` it returned |
| `delete_by_leaf` | a rule consumes a tuple it has matched |
| `delete_by_index` | the DELETE instruction: everything below a node |
| `match_predicate` (operator) | the search with its continuation stack, as the set of nodes it visits |

A retraction is two actions because the rule engine runs the consequences of the
retraction in between. Two calls end in `failed`, because an assertion stops the program:
`delete_by_index` when the trie is empty (`db/trie.cpp:67`), and the retraction of
a 0-arity tuple that is not there (`db/trie.cpp:962`). `TupleStore` says what
the users of a store rely on: counts, whether an insertion was new, and an order of iteration.
The order in which a search returns its tuples is not modelled; rules may not depend on it.

### Aggregates

The aggregates of one predicate at one node. `queue` is
`generated_persistent_tuples`: contributions, and the aggregates and retractions
of aggregates that configurations emit. `vals` and `count` are the configuration's `tuple_trie`, seen as a
`TupleStore`; `corresponds` is the member of that name, as the set with the tuple it
points to, or the empty set for the null pointer. One action is one tuple taken from the
queue: it is cancelled against its retraction (`Cancel`), changes the database
(`ProcessFinal`), or is a contribution (`AddToAggregate`). `EndIteration` is
`node::end_iteration`. `base` is a history variable, what was derived and not
retracted. The kind of aggregate is chosen in `Init`. A program retracts only
what it derived.

### ByteCode, Interpreter

`ByteCode` has code as a sequence of bytes, each a record of what the byte is and its
number. `advance`, the `execute_` functions and the printer read the operands of an
instruction each in their own way; the tables `ExecReads` and `PrintReads` give the
order in which they do, and `DataAt` the addresses at which they then look.
`Interpreter` first lets the printer renumber the code (`phase = "print"`, the
linker's `allow_modify`) and then runs it. The calls of `execute` that are open, one for
each `ITER` and `RESET_LINEAR`, are `frames`; `ret` is what the innermost one returns.
`used` is `state::used_linear_tuples`, the free copies of a leaf, `count` its count in
the trie. What an operation computes is left open, so that an `IF` goes either
way, and which tuples of a predicate match is left open too.

What the code does and the model keeps: constant list operands are accepted by the interpreter although
`advance` throws on them (`NoAddress`); `do_match` throws on operands that
`build_match_object` accepts; `MOVE` of a pointer to a register writes register 11, the
number of the operand kind, whatever register is named; `matches` lists a leaf of
count 2 once; `saved_leafs` is not among what `PUSH_REGS` saves. A branch of a
`SELECT` that two nodes share would be renumbered twice; the compiler does not emit
one, and the instance has none. `rule_set_id` writes one byte of the four that
`rule_get_id` reads, which is enough for the first 256 rules.

### NodeQueues, NodeOrder, PriorityScheduler

`NodeQueues` has the two intrusive queues as records: the list with its links and
flags, the heap with the place and the priority in the node. `PriorityScheduler` is one
thread of `threads_prio`: where its nodes wait, which one it takes, and what the
program's `set-priority`, `add-priority` and `schedule-next` do to them while a node
runs. The protocol between the threads is the one of `StaticScheduler`; here the others
only put tuples into the buffer. `NodeOrder` is the promise: nodes with a priority
first, best first, then the others as they came.

The priority messages between threads are never sent, because the bodies that fill
the buffer are switched off (`thread/prio.cpp:535`, `549`): a change of the priority
of another thread's node has no effect. Priorities of type INT make
`set_node_priority` assert, so that priorities are FLOAT; negative ones are left out.
`schedule_next` makes the priority 100 better than the best, in the descending order only;
the ascending order would put the node last.

### ProgramFile, Linker

A file is a sequence of tokens; a token stands for bytes that are read in one go. The
loader does not check kinds, so where it meets another kind than it expects, the
model stops in `section = "garbage"`. Code is the sequence of its references
(predicates, rules, strings, functions, external functions). `Linker` is the process
`merge` (load, number, write section by section, renumber) and then a process of
the machine that loads what was written, and a data file. An id that the linker never
sets is `Unset`, and any value of `Garbage` when it is written.

What the code does and the model keeps: external functions of more than three arguments are
not registered; `checkExport` is never called, and an import of a name that no file
has keeps its old number; the import's file is ignored when its number is looked up,
the name decides; imports of imported files are not resolved; strings and external
functions of a data file are not renumbered. Left out: import files of versions before
0.7, for which the number of external functions is never set.

### SimMessages, SimScheduler, MockSimulator, SimulatedBlocks

Two processes and two streams of messages. `SimScheduler` has one action per message
of the simulator and the steps of the master and of the slave threads; `MockSimulator`
one per message it writes or reads. In deterministic mode the simulator keeps a queue
of blocks with the instruction they may run up to, and the virtual machine answers
each `RUN_NODE` with the tuples that the run sends and `NODE_RUN`. In thread mode the blocks run by
themselves. What a program does in a run is left open: it takes
any prefix of its tuples (the rest goes to `pending` if the limit was reached), may send one
tuple, at once or delayed, may set its colour, and may overrun its limit by `Overshoot`
instructions. `main` has a fixed scenario; here it is any order of its operations. In
deterministic mode it has its turns, when no block is scheduled, and writes any number of messages
in one (`BeginTurn` to `EndTurn`) before it reads or lets a block run; in thread mode, the only one in which it may report acceleration and shakes (`write_accel`, `write_shake`), it writes at any time. A tuple that is sent is
`<<"sent", to, how, led>>`: the node it is for, whether it was sent in a run or delayed, and the node that its face led to
then, its sender when there was none. `now` is the clock, which ticks only while something is delayed.

What the code does and the model keeps: the order of `rtuple_pqueue` is never set, so each
block's is ascending or descending; the tuples that are due leave a heap in its order, those of the same time as they were
put in (the code's order among them depends on the heap's shape); the queue of delayed tuples has the latest
on top, so that none is sent before the last one is due, and those with the same time are in
any order; a tuple for a node that is
on no face travels with `INVALID_FACE`, which means the sender itself; `vacant` is not asserted
again when a face becomes free; a neighbour that goes before the
block was instantiated is retracted without having been asserted (`early`, a history
variable). Left out: the interrupt handler, which ends both processes.

## Runs

| run | instance | shows |
|---|---|---|
| `static` | 2 threads, 3 nodes, 3 tuples, fairness | a node with tuples is queued exactly once or is being run (`NodesAccountedFor`); nobody leaves while a tuple is outstanding (`NoWorkLost`); the counter of active threads is never short (`NeverUndercounted`); a round is a barrier (`RoundsInLockstep`), from which all threads leave together (`LeaveTogether`); unless termination is announced too early, no assertion fails and all threads return (`TerminatesUnlessPremature`) |
| `static_end_assert` | 2 threads | violation: `assert(!has_work())` of `assert_end_iteration` can fail |
| `tree_barrier` | 6 threads, 3 waits, fairness | nobody is left behind, the root's assertion, refinement of `ThreadBarrier`, every wait ends; the trees of 1 to 64 threads (an assumption TLC evaluates) |
| `interpreter` | every instruction with every choice of operands, and 8 programs, each rule run twice | printer and interpreter are always at an instruction and find its operands (`DecodersAgree`); everything is renumbered once (`RelocatedOnce`); the assertions on the stack and on returns hold, and a rule consumes only copies it has in use (`AssertsHold`); a copy of a tuple is in use once (`HeldWithinCount`); functions return to their caller with its registers (`CallsReturn`) |
| `trie` | 3 predicates, up to 5 tuples, 4 references | the code's `basic_invariants` and the number of references, between and during deletions (`ReferencesExact`); nodes are where a search looks (`PlacedExactly`); searches find what is stored (`MatchExact`); refinement of `TupleStore` |
| `aggregates` | 2 groups of 2 tuples, 5 derivations or retractions, 2 iterations | the database ends with the aggregate of what is left (`FinalExact`), never has two of a group (`OneAggregateAtATime`), and what a configuration believes is what the database will hold (`CorrespondsExact`) |
| `linker` | primary programs with up to 2 imports from 2 files with a common name, data files | the output is read to its end (`OutputReadsBack`); code refers to the predicates and rules that it referred to, imports of a name that two files have apart (`ReferencesKept`); nothing is there twice or is not from the input (`NothingElse`); an accepted data file's facts are of the predicates it names (`DataMeansSame`) |
| `linker_imports` | the same | violation: an import means another file's predicate of the same name (`ImportsAsNamed`) |
| `priority` | 4 nodes, 3 changes of priorities, 1 late tuple, fairness | list and heap are sound and no assertion fails (`QueuesSound`); a node is in one place (`QueuedOnce`); refinement of `NodeOrder`; all work is done (`AllWorkDone`); the heap of 7 nodes with all priorities of 3 levels (an assumption TLC evaluates) |
| `blocks` | 3 blocks, 2 faces; up to 3 changes and 2 runs with an event, 3 of both together, in deterministic mode; 2 changes in thread mode | what a block is told of its faces adds up, also when one neighbour takes another's place, in one turn or in several (`FactsMatchFaces`); what a run sends arrives at the node that its face led to (`SentInRunArrives`); no queued tuple is left with nothing scheduled (`NoneStranded`); time does not go back (`RunsForward`) |
| `rules` | 3 rules, 6 predicates on 2 levels, fairness; 5 events under a scheduler, 4 under the simulator | under a scheduler the matcher counts at least what is there and its assertion holds (`CountsCover`), an applicable rule that got a tuple which the node did not have is queued and has run when the node stops (`NewTuplesRunRules`), and every run ends (`RunEnds`); under both, rules that lost their tuples are out of the queue (`QueueIsCurrent`, with the flags agreeing where runs are not cut short) and counts of persistent tuples are exact between runs, cut short or not (`SupportExact`) |
| `rules_missed` | 4 events, a scheduler | violation: a rule that needs two copies of a reused tuple is not queued when the second arrives later (`NoRuleMissed`) |

Bounds. Two threads with three nodes give a thread two nodes, hence a queue with
an order and a node that waits while another one runs; three derived tuples let a
thread be woken, send back and be woken again, and still leave one for an
aggregate. Rounds with followers of different speed need a third thread; for any
number of threads they are proved. Six threads give the barrier's tree inner nodes with two, one and no children;
three waits use each value of the sense twice.

The trie's thresholds are 2, 2 and 1 where the code has 8, 64 and 4: a list becomes a
table with its third child and a table doubles when a bucket has its second, so that
five tuples with first fields 0, 1, 2 and 4 convert, double, double again,
and shrink in every order. The thresholds are constants; nothing depends on their
values but when the shape changes. Two copies at once and four references let a tuple
have several copies and be deleted in parts. Two values and five events let a group's aggregate be replaced,
lose its last contribution and come back while retractions of it still wait.

The rule engine's program has a rule for each case: one with a persistent and one
with a reused predicate competing for the same linear tuple, and one that consumes
two copies of a tuple and one of the next level. An event is a tuple that arrives, a
tuple that a rule derives, or a run that exhausts its instructions. Five let a rule
fire, enable another and lose its tuples to it, with one more for a retraction.

The interpreter's programs have the shapes the compiler emits: a function call
with saved registers, the first rule with axioms, `SELECT` and a data file, linear rules
of two tuples of one or two predicates with a comprehension that does or does not
consume, and one with the instructions that talk to the rest of the machine. Two runs
of a rule show that nothing of the first is left. Four nodes and three changes let a
node go from the list to the heap, up, and back while another waits in each; a node
that fills a gap moves up only in a heap of six, hence the separate check with seven. The linker has two
predicates that all files share where the code has eight, and two built-in external
functions where it has 38: only offsets depend on them. Two blocks that take turns on a face
of a third let a neighbour be placed, replaced and removed, all three in one turn or with runs in between, and tuples
cross meanwhile. `MaxEvents` counts only runs that send or that end at or past their limit, the others are free;
`MCTogether` trades them for changes, so that with two of one kind there is one of the other. All properties of
the run other than `FactsMatchFaces` are proved for any number of both.

Deadlock is checked where a process goes on forever: a finished process is an explicit
stuttering step, so that a deadlock would be a thread waiting for something that never
comes. The runs of `Linker` and `SimulatedBlocks` switch it off, because there the
processes stop: the linker and the start of the machine end, and the simulator has
nothing more to say when its bounded scenario is over.

`SupportExact` is stated for persistent tuples derived from persistent ones only.
For those derived from reused linear tuples the code gives no such guarantee: a reused tuple that
is consumed and derived again by the same rule is not new, its leaf being
still there, while its consequences are retracted.

Two violations are disagreements with the documents, each beside a property that holds:

- `NoRuleMissed` is `NewTuplesRunRules` with further copies of stored reused tuples: these
  are counted as not new, and `vm/state.cpp:539` marks the predicate for new ones only.
- `ImportsAsNamed`: `get_imported_predicate_id` (`src/merge.cpp:246`) looks at the name only, so that
  with a name in two files the first file decides. `ReferencesKept` leaves these imports out.

`NoneStranded` is stated for the queues; `pending` is below.

The violation of the static scheduler is a race in the source, described in `PROJECT.json`. It
explains the form of `TerminatesUnlessPremature`: the code does not guarantee that
an iteration ends only when nothing is outstanding, so termination is stated for
the behaviours in which that goes right. `NoWorkLost` holds in all of them, because
in the others an assertion stops the process first or the leader sees the counter
above zero and starts another round.

Fairness. The threads are operating system threads that spin; each keeps being
scheduled, so every thread that can move does (`WF` per thread). That the choice
among a program's derivations ends follows from `MaxTuples`: it is the assumption
that the program itself terminates. `RuleEngine` has one process: a scheduler runs a
node that has work, and byte code ends (`WF` of `run_node`). `PriorityScheduler` has `WF`
of its thread and nothing for the others. Nothing stronger is assumed: no fairness of
locks (TLC needs none at these sizes, because a lock is held for a few steps).

### Disagreements without a run of their own

Met while modelling; the models do what the code does, and the properties say where
they stop.

- Under the simulator `NoRuleMissed` fails for two more reasons: a rule that was in the queue when the
  instructions ran out (`vm/state.cpp:622`) stays flagged, and `mark_active_rules` does not queue a flagged rule
  again; and a run that is aborted in `do_persistent_tuples` before `mark_active_rules` forgets
  which predicates got a tuple. The next run may leave these rules applicable and not run them.
- External functions get new numbers in a linked program (`src/merge.cpp:712`), but in the code only predicates and rules are
  renumbered, so that imported code calls the function that has its old number. `src/linker/README.md:16` wants the
  functions to be associated "with the appropriate identifiers". Strings, functions and common predicates in
  imported code keep their numbers as well.
- "For every fact, the first argument indicates the node where the fact is located" (`docs/manual.tex:310`). A simulated tuple
  travels as a face. When the neighbour it is for has gone and the retraction of the `neighbor` fact still waits (the run was
  ordered before, or an earlier one was cut short), the face is `INVALID_FACE` (`sched/sim.cpp:292`), which the receiver takes for the
  sender (`sched/sim.cpp:401`): the tuple comes back. `SentInRunArrives` says that whatever node the face led to, the
  sender in this case, is the one that gets the tuple. A delayed tuple leaves at any time, also while the messages of a
  turn are under way, and reaches whatever block they have put on its face (`sched/sim.cpp:404`).
- `set_active` asserts that the thread is inactive (`sched/thread/threaded.hpp:51`), but
  `terminate_iteration` changes the state without the lock (`thread/static.cpp:284`),
  so that two activations may race. In `StaticScheduler` it stops the
  system with `failed = "set_active"`.
- `agg_trie_leaf::to_delete` is always false, so `agg_trie::erase` (`db/trie.cpp:1329`)
  keeps the leaf although the comment in `db/trie.hpp:340` says that it is deleted, and
  every later iteration counts it off again. A group that loses its contributions in a
  program with no other group is enough to fail `basic_invariants`; `Aggregates` stops there.
- `predicate_count` is the number of tuples of a predicate (`vm/rule_matcher.hpp:30`), but
  `deregister_tuple` subtracts the count of the retraction, which is negative
  (`vm/state.cpp:556`), so that every retraction adds to it. Hence `CountsCover`: at least
  what is there.
- The linker writes the code of every import file's predicates in a loop bounded by the first
  file's number of predicates (`src/merge.cpp:901`); their descriptors are written for all. Hence
  the condition `SameSizes` of `OutputReadsBack`.
- The linker asserts that the primary program has as many predicates of its own as are not imported
  (`src/merge.cpp:799`): with two imports under one local name it stops, and so does the model. Hence
  the condition `LocalNamesDiffer` of `OutputReadsBack`.
- The simulator's handler of `NODE_RUN` should "go through all the nodes that have tuples
  and activate them" (`mock-simulator/simulator.cpp:219`); the loop below the
  comment is switched off, so tuples that a run cut short has put into `pending` wait for the block's next run,
  which may never come.
- In deterministic mode the simulator's `main` begins with a read that blocks until the
  virtual machine sends something, also if it has nothing to send; and
  `is_data_available` passes 1 to `select` instead of the descriptor plus one. The model
  takes a turn with or without the read.

## Proofs

`TreeBarrierProofs` proves, for every number of threads, every tree whose parents
have smaller numbers, and any number of waits: `TypeCorrect` (no unsigned counter
goes below zero), `BarrierSafe` (`NobodyLeftBehind`), `RootAssertion`
(`SenseAgreed`) and `Refinement` (`ImplementsThreadBarrier`). The invariant `IInv`
says for every thread that its phase is the parity of its crossings (`PhaseInv`),
that only the root flips and only others report (`RoleInv`), that a thread past its
children's reports has children that have all reported (`TreeInv`), and that its
counter is the number of children that have not (`CountInv`). The one argument that
is not local is `AllReported`: if the root is past its children but some thread has
not reported, the least such thread has a parent that has, which contradicts
`TreeInv`; `CommonLemmas` has the least-number principle it uses.

`StaticSchedulerProofs` proves, for every number of threads, nodes and tuples:
`TypeCorrect`, `RoundsAreBarriers` (`RoundsInLockstep`), `ThreadsLeaveTogether`
(`LeaveTogether`) and `CounterNeverShort` (`NeverUndercounted`). There are three
inductive invariants, each relative to the one before:

- `TypeInv`: types, and what a thread holds at each label (a node at `run`, a tuple
  at `add` and `push`, a subroutine's return label).
- `RoundInv`: `total_in_agg` is the number of threads that have not joined the
  leader's round, and a follower is either in the leader's round, or has been
  freed by `round_state` and not noticed it yet. This excludes that a follower
  mistakes a later round for its own although `round_state` has two values only.
- `CountInv`: the active threads are at most the counter plus the threads between
  the store and the counter, minus those that are about to decrement it.

Its second half adds `EveryNodeAccountedFor` (`NodesAccountedFor`) and
`TerminationLosesNoWork` (`NoWorkLost`), with two more invariants:

- `NodeInv`: a queue holds nodes of its own thread, each once; `in_queue` is set
  exactly for the nodes that are queued or being run, never both, and for every node
  that has tuples (`PlaceInv`); a tuple in a buffer or in a hand is on its way to the
  owner of its node (`TupleInv`); a thread holds a node or a tuple only at the
  labels that use it (`HoldInv`).
- `WorkInv`: a thread that is inactive and has come to its round's end has no work,
  but for a tuple whose sender is about to activate it (`RestInv`), and threads return only
  when all are inactive (`LeaveInv`). `RestInv` alone does not exclude that
  the work of one thread is overlooked when another leaves. `RoundInv` and `CountInv` do: when the
  leader reads the counter for the last time every thread waits in the round, so none is between the
  store and the counter.

`AggregatesProofs` proves, for every set of groups, values and other fields, every
kind of aggregate, and every order of derivations, retractions, cancellations and iterations:
`OneAggregate` (`OneAggregateAtATime`), `Corresponds` (`CorrespondsExact`) and
`FinalsAreExact` (`FinalExact`). None of them is inductive. The invariant `IInv` adds

- `ChainInv`: the assertions and retractions of a group that wait in the queue
  alternate, each retracting what the one before asserted; the first starts from what the database
  holds, the last ends with what the configuration corresponds to. A cancelled pair is a link
  of this chain and its removal leaves a chain.
- `ExactInv`: the same as an equation between numbers of copies.
- `BaseInv`: the contributions that wait make up the difference between what is counted and
  what was derived, and a retraction in the queue always finds something to retract
  when its turn comes (`Balanced`), so that no count goes below zero.
- `ConfigInv`: a configuration has the tuples that are counted, each once, and
  corresponds to their aggregate.

A sum is compared with its definition as one term (`Total`); what the fold inside it
computes is not expanded. `CommonLemmas` counts occurrences in a prefix of a
sequence by cardinality, and has their change by appending and by removing one or two places.

`RuleEngineProofs` proves, for every program, under a scheduler and under the simulator: `QueuedRulesAreActive`
(in the loop of `run_node` every queued rule is active) and `RuleQueueCurrent` (`QueueIsCurrent`: queued rules are flagged
and flagged rules active, and where runs are not cut short the flags are the queue). The restriction of the last part
is needed: the queue is cleared at an instruction limit and the flags stay. The invariants
are `CoverInv` (queue within flags, flags within active and dropped rules; in the loop within active
rules), `ModeInv` (only the simulator cuts a run short) and `FlagInv` (flags are the queue, empty when a run is finished).

`SimulatedBlocksProofs` proves, for every number of blocks, every scenario and every overrun
of a limit, `ConnectionInv` and `TimeRunsForward` (`RunsForward`), `TuplesArrive` (`SentInRunArrives`)
and `NobodyStranded` (`NoneStranded`). The assumption is that
block numbers are `0 .. n - 1` (`IdsAssumption`), as `CREATE_N_NODES` makes them. The invariant of the first two, `IInv`, says that one run is under way at a
time, as an order not read, a run of the virtual machine, or a report not read (`RunInv`); that
the order to create the nodes precedes any order to run one (`CreateInv`); and that the simulator's record of
a node's time is not behind the node, or the report that corrects it is under way
(`TimeInv`). Without `RunInv` an order could be given while a report is
under way, from a record that is behind, and `TimeInv` would not be inductive.

The other two rest on `TravelInv` and `ServiceInv`, which are inductive together with it (`ProtocolInv`):

- `TravelInv`. A tuple travels as a face, which three readers look up at three times. What is on
  a face of the simulator is what the virtual machine has there after the changes under way
  (`FaceInv`, `Shows`). A change under way together with an order to run precedes it, and none is under way
  while a node runs (`AheadInv`), so both have the same faces when `send_send_message` looks one up.
  A tuple that a run has sent therefore leads to the same node in the simulator (`led`; the sender when it
  travels with `INVALID_FACE`), and its `NODE_RUN` follows (`SendInv`); as the simulator has no turn before that report is read,
  it leads there still when the virtual machine reads it, after the changes in front of it (`ArriveInv`, `Reaches`). `RecordInv` says what lies in the queues of a node, `FirstInv`
  that nothing but `USE_THREADS` precedes the creation of the nodes.
- `ServiceInv`. For every message under way, the node it leads to is scheduled for a time that is late
  enough, or an order to run it so far follows the message (`NoticeInv`); the same for a queued tuple,
  or its node is running so far (`StrandInv`). `NoticeInv` needs `FaceInv`: the simulator schedules the node that it finds on the
  face, and the virtual machine queues the tuple on the node that it finds there later.

For `SentInRunArrives`, each of the places where a face is read is one conjunct of `TravelInv`. For `NoneStranded`, a state in which
nothing is scheduled, under way or running leaves no way to serve a queued tuple, so there is none.

`PrioritySchedulerProofs` proves, for every finite set of nodes, both orders of priorities, and
every sequence of runs, arrivals and changes of priority, `QueuesStaySound` (`QueuesSound`), `NodesAreQueuedOnce` (`QueuedOnce`)
and `ThreadImplementsNodeOrder` (`ImplementsNodeOrder`). The assumptions are those of the
modules: nodes are numbers, priorities are naturals (negative ones are left out of the model),
and an input priority is one of the levels. The invariant `Inv` has three parts:

- `TypesOK`: types; in particular no assertion has failed.
- `QueuesOK`: the links of the list go through the sequence `Walk` in both directions, each node
  once (`IsList`), the heap is in order and its nodes know their places
  (`IsHeap`), and a node in the heap has a positive priority, the one it was placed by.
- `PlacesOK`: the marked nodes are those in the list, those in the heap and the current one, each in
  one place; a node that waits has tuples, and a node with tuples is marked.

`QueuesSound` is not inductive without `PlacesOK`: a node that is pushed twice would
overwrite its own links, and one removed from the queue it is not in would trip the assertion of that queue;
`QueuedOnce` in turn needs `IsList`, because only then does `Walk` visit
every flagged node.

The loops of the heap are recursive functions, and no induction over them is available. `CommonLemmas` goes round this once:
a loop has a function that satisfies its equation
(`LoopExists`), and if its step keeps an invariant and decreases a natural number, the function's value is that of
a last state which satisfies the invariant (`LoopInvariant`, from the least-number principle). The invariants of the two
loops are that the heap is in order but for one node, which may have to rise (`OrderedButUp`) or
to sink (`OrderedButDown`), and that the neighbours of its place are in order across it.
`InsertHeap`, `PopHeap`, `RemoveHeap` and `MoveHeap` follow: `do_remove` fills the gap with the last node, which
may have to go either way (`FilledGap`). `WalkOfList` shows that following the links of a list gives the sequence
that it represents. For the refinement, `TopIsBest` shows from the order between parents and children that the
top of the heap is a best node of all, so that taking it is what `NodeOrder` allows.

`InterpreterProofs` proves `NoCopyUsedTwice` (`HeldWithinCount`), for every program, every trie and every
choice of matches, from `[]ConsumesWhatItHolds`. That is a condition on programs: the interpreter does not
check that the register of a `REMOVE` holds the tuple of an open `ITER`, nor that the rule returns with
`LINEAR` or `DERIVED` after it; the compiler must see to both, and the run shows, as a part of `AssertsHold`, that programs of the
shapes it emits do. The assumptions on constants are that a leaf belongs to one predicate and that 0 is no leaf.
The invariant `IInv` relates the three places where copies are counted: for a leaf that was used,
the free copies in `used` and the copies in open calls are together at most the count in the trie; a leaf
that was not used has lost no copy since it was matched (`Covered`). The second half is what makes it safe that
`using_new_linear_tuple` reads the count as late as at the first use. A `REMOVE` lowers the count and marks the
innermost open call of the leaf: that this one goes over a linear predicate, like the one that the condition
promises, is in `IsFrame`.

Model-checked only, and why:

- liveness (fairness is out of the prover's reach);
- `TreeBuild`, the interpreter's decoders, the linker and the loader: what
  recursive definitions compute takes induction over data;
- `TupleTrie` with its refinement: the trie is a tree of any depth, the same;
- `CountsCover`, `NewTuplesRunRules` and `SupportExact` of the rule engine: sums and filters by
  folds, which the provers do not expand. `CountsCover` moreover holds only while the 16-bit counts do not
  wrap around;
- `FactsMatchFaces` of the simulated blocks: a sum over the tuples on their way to a node.

## Not modelled

- Schedulers that are not built: `direct_local`, `dynamic_local`, `single`, the
  `mpi_` ones, and with them the MPI layer and its token (`COMPILE_MPI`).
- The serial schedulers: one thread with one list, `StaticScheduler`'s `get_work` without buffers.
- The lock-free queues below the buffers, which `StaticScheduler` takes as atomic.
- The older linkers `merge.cpp` and `linker.cpp` in `src/predicates`, earlier stages of `src/merge.cpp`.
- External functions and run-time values (pure functions and reference counts of
  values the models abstract from), memory pools (one per thread, no sharing of free
  lists), statistics, user interface and client (reporting, switched off).
- Of modelled parts: sums of lists and `delete_by_index` of aggregate configurations;
  actions in the rule engine.

## Plan

1. Proofs: `FactsMatchFaces` of the simulated blocks.
2. The lock-free queue `queue/safe_linear_queue.hpp` refining a FIFO, the assumption
   `StaticScheduler` makes about buffers.
3. Aggregates: `delete_by_index` of configurations, sums of lists.

Each run answers one question about one component; instances that ask the same
question are merged into one run.
