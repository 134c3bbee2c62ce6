----------------------------- MODULE Interpreter -----------------------------
(***************************************************************************)
(* The byte code of a rule is first renumbered by the linker, which walks  *)
(* over it with the printer (vm/instr.cpp with allow_modify), and then run *)
(* by the interpreter (execute in vm/exec.cpp).                            *)
(*                                                                         *)
(* The calls of execute that are open, one for every ITER and RESET_LINEAR *)
(* that is being run, are the frames; `ret' is the value the innermost one *)
(* returns.  A value is a record of a type and a number, and what an       *)
(* operation computes is left open, so that an IF may go either way.       *)
(* ITER goes over the tuples in the node's trie: the tuples of the queues  *)
(* and the effects of SEND and DELETE on the node are RuleEngine's.        *)
(***************************************************************************)
EXTENDS ByteCode, FiniteSets, SequencesExt

CONSTANTS
  Programs,     \* [code, end, entry, functions]: end is the end of what is linked
  NumRegs,      \* NUM_REGS
  Fields,       \* predicate -> the types of its fields
  Link,         \* predicate -> the number it gets from the linker
  RuleLink,     \* rule -> the number it gets from the linker
  Linear,       \* the linear predicates
  TuplesOf,     \* predicate -> its leaves in the trie
  Copies,       \* leaf -> its count
  NodeId,       \* the node that runs the rule
  StaticMaxId,  \* the last node the program's code names
  MaxRuns       \* bound: how often the rule is run

\* MOVE of a pointer to a register writes register 11, the kind's own number.
PtrReg == 11

ASSUME InterpreterAssumption ==
  /\ NumRegs \in Nat /\ NumRegs > PtrReg
  /\ DOMAIN Fields = DOMAIN Link /\ IsInjective(Link) /\ IsInjective(RuleLink)
  /\ Linear \subseteq DOMAIN TuplesOf /\ DOMAIN TuplesOf \subseteq DOMAIN Link
  /\ \A p \in DOMAIN TuplesOf : TuplesOf[p] \subseteq DOMAIN Copies
  /\ \A p, q \in DOMAIN TuplesOf : p # q => TuplesOf[p] \cap TuplesOf[q] = {}
  /\ Copies \in [DOMAIN Copies -> Nat] /\ 0 \notin DOMAIN Copies
  /\ MaxRuns \in Nat

VARIABLES
  prog,       \* the program as it was compiled
  code,       \* its bytes, which the linker changes
  phase,      \* "print", "ready", "run", "error" or "failed"
  ppc,        \* the printer's address
  pframes,    \* the printer's open loops, the innermost one last
  pc,         \* the interpreter's address
  frames,     \* its open calls, the innermost one last
  ret,        \* what the innermost call returns, or "none"
  regs,       \* state::regs
  saved_leafs,\* state::saved_leafs
  stack,      \* state::stack, its top last
  tuple,      \* state::tuple_leaf, 0 if there is none
  is_linear,  \* state::is_linear
  used,       \* state::used_linear_tuples: leaf -> copies that are free
  count,      \* leaf -> its count in the trie
  rule,       \* state::current_rule
  sent,       \* predicates of the tuples that were sent
  runs,       \* runs of the rule
  callers,    \* history: addresses of the CALLFs that have not returned
  kept        \* history: what the PUSH_REGS without their POP_REGS have saved

printVars == <<code, ppc, pframes>>
frameVars == <<frames, ret, tuple, is_linear, used>>
dataVars == <<regs, saved_leafs, stack>>
nodeVars == <<count, rule, sent>>
vars == <<prog, phase, pc, runs, callers, kept, printVars, frameVars, dataVars, nodeVars>>

Nothing == [t |-> "none", v |-> 0]
Unknown == [t |-> "any", v |-> 0]

\* The predicate that has this number now that the program is linked.
Source(id) == CHOOSE p \in DOMAIN Link : Link[p] = id

Top(s) == s[Len(s)]

Init ==
  /\ prog \in Programs
  /\ code = prog.code
  /\ phase = "print"
  /\ ppc = 1
  /\ pframes = <<[t |-> "until", end |-> prog.end, at |-> 0, i |-> 0]>>
  /\ pc = NoAddress
  /\ frames = <<>>
  /\ ret = "none"
  /\ regs = [r \in 0 .. NumRegs - 1 |-> Nothing]
  /\ saved_leafs = [r \in 0 .. NumRegs - 1 |-> 0]
  /\ stack = <<>>
  /\ tuple = 0
  /\ is_linear = FALSE
  /\ used = <<>>
  /\ count = Copies
  /\ rule = 0
  /\ sent = {}
  /\ runs = 0
  /\ callers = <<>>
  /\ kept = <<>>

------------------------------------------------------------------------------
(* The printer: instr_print with recurse, and its loops.                    *)

Printing == phase = "print" /\ pframes # <<>>

\* The loop is over when it has reached the address where it ends.
UntilReached == Top(pframes).t = "until" /\ ppc >= Top(pframes).end

OtherVars == <<prog, pc, runs, callers, kept, frameVars, dataVars, nodeVars>>

\* Mutant: DELETE keeps the number of its predicate.
RelocateNotDelete ==
  LET op == fetch(code, ppc)
  IN CASE op \in {"ALLOC", "ITER"} ->
            predicate_set(code, ppc + 1, Link[predicate_get(code, ppc + 1)])
       [] op = "NEW_AXIOMS" ->
            [a \in DOMAIN code |->
               IF a \in Axioms(code, ppc, Fields)
               THEN [code[a] EXCEPT !.n = Link[predicate_get(code, a)]]
               ELSE code[a]]
       [] op = "RULE" -> rule_set_id(code, ppc, RuleLink[rule_get_id(code, ppc)])
       [] OTHER -> code

\* allow_modify: the instruction's predicates and rule get the linker's numbers.
Relocate ==
  LET op == fetch(code, ppc)
  IN CASE op \in {"ALLOC", "ITER", "DELETE"} ->
            predicate_set(code, ppc + 1, Link[predicate_get(code, ppc + 1)])
       [] op = "NEW_AXIOMS" ->
            [a \in DOMAIN code |->
               IF a \in Axioms(code, ppc, Fields)
               THEN [code[a] EXCEPT !.n = Link[predicate_get(code, a)]]
               ELSE code[a]]
       [] op = "RULE" -> rule_set_id(code, ppc, RuleLink[rule_get_id(code, ppc)])
       [] OTHER -> code

\* An instruction without a body.  END_LINEAR and RETURN_SELECT end the loops
\* that look for them.
PrintInstr ==
  /\ Printing /\ ~UntilReached
  /\ LET op == fetch(code, ppc) IN
     /\ op \notin {"IF_INSTR", "ITER", "RESET_LINEAR", "SELECT"}
     /\ advance(code, ppc) # NoAddress
     /\ code' = Relocate
     /\ \/ /\ op = "END_LINEAR" /\ Top(pframes).t = "end_linear"
           /\ pframes' = Front(pframes)
           /\ ppc' = advance(code, ppc)
        \/ /\ op = "RETURN_SELECT" /\ Top(pframes).t = "select"
           /\ pframes' = [pframes EXCEPT ![Len(pframes)].t = "branches"]
           /\ ppc' = Top(pframes).at
        \/ /\ <<op, Top(pframes).t>> \notin
                {<<"END_LINEAR", "end_linear">>, <<"RETURN_SELECT", "select">>}
           /\ ppc' = advance(code, ppc)
           /\ UNCHANGED pframes
  /\ UNCHANGED <<phase, OtherVars>>

Enter(frame) ==
  /\ code' = Relocate
  /\ pframes' = Append(pframes, frame)
  /\ ppc' = advance(code, ppc)
  /\ UNCHANGED <<phase, OtherVars>>

\* instrs_print and instrs_print_until: the body of an IF or an ITER.
PrintBody ==
  /\ Printing /\ ~UntilReached
  /\ fetch(code, ppc) \in {"IF_INSTR", "ITER"}
  /\ Enter([t |-> "until", end |-> ppc + jump_get(code, ppc), at |-> ppc, i |-> 0])

\* instrs_print_until_end_linear.
PrintReset ==
  /\ Printing /\ ~UntilReached
  /\ fetch(code, ppc) = "RESET_LINEAR"
  /\ Enter([t |-> "end_linear", end |-> 0, at |-> ppc, i |-> 0])

PrintSelect ==
  /\ Printing /\ ~UntilReached
  /\ fetch(code, ppc) = "SELECT" /\ Top(pframes).t # "branches"
  /\ pframes' = Append(pframes, [t |-> "branches", end |-> 0, at |-> ppc, i |-> 0])
  /\ UNCHANGED <<phase, code, ppc, OtherVars>>

\* instrs_print_until_return_select, for every node that has code of its own.
PrintBranch ==
  /\ Printing /\ Top(pframes).t = "branches"
  /\ LET f == Top(pframes)
         hashed == select_hash(code, f.at, f.i)
     IN \/ /\ f.i = select_hash_size(code, f.at)
           /\ pframes' = Front(pframes)
           /\ ppc' = f.at + jump_get(code, f.at)
        \/ /\ f.i < select_hash_size(code, f.at)
           /\ pframes' = [pframes EXCEPT ![Len(pframes)] =
                [f EXCEPT !.i = @ + 1, !.t = IF hashed = 0 THEN @ ELSE "select"]]
           /\ ppc' = IF hashed = 0 THEN ppc
                     ELSE select_hash_code(code, f.at, hashed)
  /\ UNCHANGED <<phase, code, OtherVars>>

PrintUntil ==
  /\ Printing /\ UntilReached
  /\ ppc' = Top(pframes).end
  /\ pframes' = Front(pframes)
  /\ phase' = IF Len(pframes) = 1 THEN "ready" ELSE "print"
  /\ UNCHANGED <<code, OtherVars>>

\* advance() throws: the interpreter accepts an operand that advance() does not.
PrintThrows ==
  /\ Printing /\ ~UntilReached
  /\ Top(pframes).t # "branches"
  /\ advance(code, ppc) = NoAddress
  /\ phase' = "error"
  /\ UNCHANGED <<printVars, OtherVars>>

------------------------------------------------------------------------------
(* execute: the loop over the instructions.                                 *)

Running == phase = "run" /\ ret = "none"
Between == frames # <<>> /\ Top(frames).t = "iter" /\ Top(frames).cur = 0
At(op) == Running /\ ~Between /\ fetch(code, pc) = op

Step == pc' = advance(code, pc)
Control == <<prog, phase, runs, callers, printVars, frameVars, nodeVars>>
Continue == UNCHANGED <<Control, kept>>

\* do_execute: a run of the rule starts on an empty stack.
DoExecute ==
  /\ phase = "ready"
  /\ runs < MaxRuns
  /\ runs' = runs + 1
  /\ phase' = IF stack = <<>> THEN "run" ELSE "failed"
  /\ pc' = prog.entry
  /\ UNCHANGED <<prog, callers, kept, printVars, frameVars, dataVars, nodeVars>>

StackAt(off) == Len(stack) - off

\* The destination whose kind is at address a and whose data is at address d
\* gets the value; the contents of tuples and constants are not modelled.
Store(a, d, value) ==
  /\ regs' = IF kind_at(code, a) = "reg"
             THEN [regs EXCEPT ![code[a].n] = value] ELSE regs
  /\ stack' = IF kind_at(code, a) = "stack"
              THEN [stack EXCEPT ![StackAt(code[d].n)] = value] ELSE stack

\* The last operand of the instruction gets what it computes.
Compute(op, value) ==
  /\ At(op)
  /\ LET reads == ExecReads[op]
         n == Len(reads)
     IN Store(pc + reads[n], DataAt(code, pc, reads)[n], value)
  /\ Step
  /\ UNCHANGED saved_leafs
  /\ Continue

\* The register at this offset gets what the instruction computes.
ComputeReg(op, off, value) ==
  /\ At(op)
  /\ regs' = [regs EXCEPT ![reg_get(code, pc, off)] = value]
  /\ Step
  /\ UNCHANGED <<saved_leafs, stack>>
  /\ Continue

execute_op == Compute("OP", Unknown)
execute_not == Compute("NOT", Unknown)
execute_move_nil == Compute("MOVE_NIL", [t |-> "nil", v |-> 0])
execute_cons == Compute("CONS", Unknown)
execute_test_nil == Compute("TEST_NIL", Unknown)
execute_tail == Compute("TAIL", Unknown)
execute_head == Compute("HEAD", Unknown)
execute_float == Compute("FLOAT", Unknown)
execute_colocated == ComputeReg("COLOCATED", 3, Unknown)
execute_alloc ==
  ComputeReg("ALLOC", 2, [t |-> "tuple", v |-> predicate_get(code, pc + 1)])
execute_new_node == ComputeReg("NEW_NODE", 1, Unknown)
execute_call == ComputeReg("CALL", 3, Unknown)
execute_calle == ComputeReg("CALLE", 3, Unknown)

\* What MOVE takes from a source other than a pointer; pcounter is the address
\* after the MOVE.
Moved ==
  LET from == kind_at(code, pc + 1)
      data == DataAt(code, pc, ExecReads.MOVE)[1]
  IN CASE from = "reg" -> regs[code[pc + 1].n]
       [] from = "tuple" -> [t |-> "leaf", v |-> tuple]
       [] from = "stack" -> stack[StackAt(code[data].n)]
       [] from = "pcounter" -> [t |-> "ptr", v |-> advance(code, pc)]
       [] from \in {"float", "int", "node", "ptr"} -> [t |-> from, v |-> code[data].n]
       [] OTHER -> Unknown

execute_move ==
  /\ At("MOVE")
  /\ kind_at(code, pc + 2) # "pcounter"
  /\ kind_at(code, pc + 1) # "ptr"
  /\ Store(pc + 2, DataAt(code, pc, ExecReads.MOVE)[2], Moved)
  /\ saved_leafs' = IF kind_at(code, pc + 1) = "tuple" /\ tuple # 0
                    THEN [saved_leafs EXCEPT ![code[pc + 2].n] = tuple]
                    ELSE saved_leafs
  /\ Step
  /\ Continue

execute_move_ptr ==
  /\ At("MOVE")
  /\ kind_at(code, pc + 1) = "ptr" /\ kind_at(code, pc + 2) = "reg"
  /\ regs' = [regs EXCEPT ![PtrReg] = Moved]
  /\ Step
  /\ UNCHANGED <<saved_leafs, stack>>
  /\ Continue

\* Mutant: the function returns to the address it finds, without advancing.
MovePcounterExact ==
  /\ At("MOVE")
  /\ kind_at(code, pc + 2) = "pcounter"
  /\ pc' = Moved.v
  /\ callers' = IF callers = <<>> THEN callers ELSE Front(callers)
  /\ UNCHANGED <<prog, phase, runs, kept, printVars, frameVars, dataVars, nodeVars>>

\* A function returns, or the rule goes on in the code of a data file: the
\* loop then advances over the instruction that is found there.
execute_move_pcounter ==
  /\ At("MOVE")
  /\ kind_at(code, pc + 2) = "pcounter"
  /\ pc' = advance(code, Moved.v)
  /\ callers' = IF callers = <<>> THEN callers ELSE Front(callers)
  /\ UNCHANGED <<prog, phase, runs, kept, printVars, frameVars, dataVars, nodeVars>>

Send(preds) ==
  /\ sent' = sent \cup preds
  /\ Step
  /\ UNCHANGED <<prog, phase, runs, callers, kept, printVars, frameVars, dataVars, count,
                 rule>>

\* SEND and SEND_DELAY.
execute_send ==
  /\ At("SEND") \/ At("SEND_DELAY")
  /\ Send({regs[reg_get(code, pc, 1)].v})

execute_new_axioms ==
  /\ At("NEW_AXIOMS")
  /\ Send({predicate_get(code, a) :
            a \in Axioms(code, pc, [id \in Range(Link) |-> Fields[Source(id)]])})

\* The tuples that DELETE drops are in TupleTrie.
execute_delete ==
  /\ At("DELETE")
  /\ Step
  /\ UNCHANGED dataVars
  /\ Continue

\* The leaf that the register was loaded from loses a copy.
execute_remove ==
  /\ At("REMOVE")
  /\ LET leaf == saved_leafs[reg_get(code, pc, 1)]
         holders == {i \in DOMAIN frames : frames[i].cur = leaf /\ ~frames[i].gone}
     IN /\ count' = [count EXCEPT ![leaf] = @ - 1]
        /\ frames' = [i \in DOMAIN frames |->
             IF i \in holders /\ \A j \in holders : j <= i
             THEN [frames[i] EXCEPT !.gone = TRUE] ELSE frames[i]]
  /\ Step
  /\ UNCHANGED <<prog, phase, runs, callers, kept, printVars, ret, tuple, is_linear, used,
                 dataVars, rule, sent>>

execute_rule ==
  /\ At("RULE")
  /\ rule' = rule_get_id(code, pc)
  /\ Step
  /\ UNCHANGED <<prog, phase, runs, callers, kept, printVars, frameVars, dataVars, count,
                 sent>>

execute_rule_done ==
  /\ At("RULE_DONE")
  /\ Step
  /\ UNCHANGED dataVars
  /\ Continue

ExecutePush ==
  /\ At("PUSH")
  /\ stack' = Append(stack, Nothing)
  /\ Step
  /\ UNCHANGED <<regs, saved_leafs>>
  /\ Continue

ExecutePop ==
  /\ At("POP")
  /\ stack' = Front(stack)
  /\ Step
  /\ UNCHANGED <<regs, saved_leafs>>
  /\ Continue

ExecutePushRegs ==
  /\ At("PUSH_REGS")
  /\ stack' = stack \o [i \in 1 .. NumRegs |-> regs[i - 1]]
  /\ Step
  /\ UNCHANGED <<regs, saved_leafs>>
  /\ kept' = Append(kept, regs)
  /\ UNCHANGED Control

ExecutePopRegs ==
  /\ At("POP_REGS")
  /\ regs' = [r \in 0 .. NumRegs - 1 |-> stack[Len(stack) - NumRegs + 1 + r]]
  /\ stack' = SubSeq(stack, 1, Len(stack) - NumRegs)
  /\ Step
  /\ UNCHANGED saved_leafs
  /\ kept' = Front(kept)
  /\ UNCHANGED Control

ExecuteCallf ==
  /\ At("CALLF")
  /\ pc' = prog.functions[code[pc + 1].n + 1]
  /\ callers' = Append(callers, pc)
  /\ UNCHANGED <<prog, phase, runs, kept, printVars, frameVars, dataVars, nodeVars>>

\* IF goes over its body or into it, whatever the register holds.
ExecuteIf ==
  /\ At("IF_INSTR")
  /\ pc' \in {pc + jump_get(code, pc), advance(code, pc)}
  /\ UNCHANGED dataVars
  /\ Continue

ExecuteReturnSelect ==
  /\ At("RETURN_SELECT")
  /\ pc' = pc + jump_get(code, pc)
  /\ UNCHANGED dataVars
  /\ Continue

\* Mutant: a node without code of its own runs what follows the table.
SelectFallsThrough ==
  /\ At("SELECT")
  /\ pc' = IF NodeId > StaticMaxId
           THEN pc + jump_get(code, pc)
           ELSE select_hash_code(code, pc, select_hash(code, pc, NodeId))
  /\ UNCHANGED dataVars
  /\ Continue

execute_select ==
  /\ At("SELECT")
  /\ pc' = IF NodeId > StaticMaxId \/ select_hash(code, pc, NodeId) = 0
           THEN pc + jump_get(code, pc)
           ELSE select_hash_code(code, pc, select_hash(code, pc, NodeId))
  /\ UNCHANGED dataVars
  /\ Continue

------------------------------------------------------------------------------
(* RESET_LINEAR and ITER: execute calls itself.                             *)

Frame(type, matches, this) ==
  [t |-> type, at |-> pc, left |-> matches, cur |-> 0, this |-> this,
   lin |-> is_linear, old |-> tuple, gone |-> FALSE]

RecursionVars == <<prog, phase, runs, callers, kept, printVars, dataVars, nodeVars>>

\* Mutant: the comprehension is run as a part of the linear rule.
ResetKeepsLinear ==
  /\ At("RESET_LINEAR")
  /\ frames' = Append(frames, Frame("reset", {}, FALSE))
  /\ Step
  /\ UNCHANGED <<RecursionVars, ret, tuple, is_linear, used>>

ExecuteReset ==
  /\ At("RESET_LINEAR")
  /\ frames' = Append(frames, Frame("reset", {}, FALSE))
  /\ is_linear' = FALSE
  /\ Step
  /\ UNCHANGED <<RecursionVars, ret, tuple, used>>

\* match_predicate finds some of the tuples of the predicate.
ExecuteIter ==
  /\ At("ITER")
  /\ LET p == Source(iter_predicate(code, pc))
         stored == {leaf \in TuplesOf[p] : count[leaf] > 0}
     IN \E matches \in SUBSET stored :
          frames' = Append(frames, Frame("iter", matches, p \in Linear))
  /\ UNCHANGED <<RecursionVars, pc, ret, tuple, is_linear, used>>

linear_tuple_can_be_used(leaf) == leaf \in DOMAIN used => used[leaf] > 0

\* Mutant: a leaf that is in use is used again.
UseAgain(leaf) == used

using_new_linear_tuple(leaf) ==
  [l \in DOMAIN used \cup {leaf} |->
     IF l # leaf THEN used[l]
     ELSE IF l \in DOMAIN used THEN used[l] - 1 ELSE count[l] - 1]

\* The body is run for a match that may be used, and a match that is in use is
\* passed over.
NextMatch ==
  /\ Running /\ Between
  /\ LET f == Top(frames) IN
     \E leaf \in f.left :
       IF f.this /\ ~linear_tuple_can_be_used(leaf)
       THEN /\ frames' = [frames EXCEPT ![Len(frames)].left = @ \ {leaf}]
            /\ UNCHANGED <<pc, tuple, is_linear, used>>
       ELSE /\ frames' = [frames EXCEPT ![Len(frames)] =
                 [f EXCEPT !.cur = leaf, !.left = @ \ {leaf}, !.gone = FALSE]]
            /\ used' = IF f.this THEN using_new_linear_tuple(leaf) ELSE used
            /\ tuple' = leaf
            /\ is_linear' = (f.this \/ is_linear)
            /\ pc' = advance(code, f.at)
  /\ UNCHANGED <<RecursionVars, ret>>

\* RETURN_NO_RETURN: the loop goes on after the ITER.
NoMoreMatches ==
  /\ Running /\ Between
  /\ Top(frames).left = {}
  /\ pc' = Top(frames).at + jump_get(code, Top(frames).at)
  /\ frames' = Front(frames)
  /\ UNCHANGED <<RecursionVars, ret, tuple, is_linear, used>>

Returns ==
  [RETURN |-> "OK", NEXT |-> "NEXT", RETURN_LINEAR |-> "LINEAR",
   RETURN_DERIVED |-> "DERIVED", END_LINEAR |-> "END_LINEAR"]

ExecuteReturn ==
  \E op \in DOMAIN Returns :
    /\ At(op)
    /\ ret' = Returns[op]
    /\ UNCHANGED <<RecursionVars, pc, frames, tuple, is_linear, used>>

\* The body of an ITER has returned: POP_STATE, and the loop of execute_iter is
\* left or goes on; a tuple that was not consumed may be used again.
ReturnToIter ==
  /\ phase = "run" /\ ret # "none" /\ frames # <<>> /\ Top(frames).t = "iter"
  /\ LET f == Top(frames)
         leave == ret = "LINEAR" \/ (ret = "DERIVED" /\ f.lin)
     IN /\ tuple' = f.old
        /\ is_linear' = f.lin
        /\ frames' = IF leave THEN Front(frames)
                     ELSE [frames EXCEPT ![Len(frames)].cur = 0]
        /\ ret' = IF leave THEN ret ELSE "none"
        /\ used' = IF f.this /\ ret \notin {"LINEAR", "DERIVED"}
                   THEN [used EXCEPT ![f.cur] = @ + 1] ELSE used
  /\ UNCHANGED <<RecursionVars, pc>>

\* assert(ret == RETURN_END_LINEAR).
ReturnToReset ==
  /\ phase = "run" /\ ret # "none" /\ frames # <<>> /\ Top(frames).t = "reset"
  /\ phase' = IF ret = "END_LINEAR" THEN "run" ELSE "failed"
  /\ ret' = "none"
  /\ is_linear' = Top(frames).lin
  /\ frames' = Front(frames)
  /\ pc' = Top(frames).at + jump_get(code, Top(frames).at)
  /\ UNCHANGED <<prog, runs, callers, kept, printVars, dataVars, nodeVars, tuple,
                 used>>

\* do_execute: cleanup(), and assert(state.stack.empty()).
ReturnFromRule ==
  /\ phase = "run" /\ ret # "none" /\ frames = <<>>
  /\ phase' = IF stack = <<>> THEN "ready" ELSE "failed"
  /\ ret' = "none"
  /\ used' = <<>>
  /\ UNCHANGED <<prog, pc, runs, callers, kept, printVars, dataVars, nodeVars,
                 frames, tuple, is_linear>>

PrintStep ==
  \/ PrintInstr \/ PrintBody \/ PrintReset \/ PrintSelect \/ PrintBranch
  \/ PrintUntil \/ PrintThrows

Compute1 ==
  \/ execute_op \/ execute_not \/ execute_move_nil \/ execute_cons
  \/ execute_test_nil \/ execute_tail \/ execute_head \/ execute_float
  \/ execute_colocated \/ execute_alloc \/ execute_new_node \/ execute_call
  \/ execute_calle \/ execute_move \/ execute_move_ptr \/ execute_move_pcounter

Execute ==
  \/ DoExecute \/ Compute1
  \/ execute_send \/ execute_new_axioms \/ execute_delete \/ execute_remove
  \/ execute_rule \/ execute_rule_done \/ execute_select
  \/ ExecutePush \/ ExecutePop \/ ExecutePushRegs \/ ExecutePopRegs
  \/ ExecuteCallf \/ ExecuteIf \/ ExecuteReturnSelect
  \/ ExecuteReset \/ ExecuteIter \/ NextMatch \/ NoMoreMatches
  \/ ExecuteReturn \/ ReturnToIter \/ ReturnToReset \/ ReturnFromRule

Finished ==
  /\ phase \in {"error", "failed"} \/ (phase = "ready" /\ runs = MaxRuns)
  /\ UNCHANGED vars

Next == PrintStep \/ Execute \/ Finished

Spec == Init /\ [][Next]_vars

------------------------------------------------------------------------------
(* Properties.                                                              *)

\* The first byte of the data of an operand.
DataByte ==
  [float |-> "float_val", int |-> "int_val", field |-> "field_num",
   node |-> "node_val", string |-> "string_id", arg |-> "argument_id",
   const |-> "const_id", stack |-> "offset_num", ptr |-> "ptr_val"]

\* The operand whose kind is at address a has its data at address d.
Finds(a, d) ==
  kind_at(code, a) \in DOMAIN DataByte => code[d].k = DataByte[kind_at(code, a)]

\* A decoder that reads the operands in this order finds the data of each of
\* them, and ends at the next instruction.
Decodes(reads, a) ==
  /\ \A v \in ListedVals(code, a) : kind_at(code, v) \in Kinds /\ Finds(v, v + 1)
  /\ fetch(code, a) \in DOMAIN reads =>
       LET order == reads[fetch(code, a)]
           data == DataAt(code, a, order)
       IN /\ \A i \in DOMAIN order : Finds(a + order[i], data[i])
          /\ advance(code, a) \in {NoAddress, data[Len(order) + 1]}

\* The printer and the interpreter are always at the first byte of an
\* instruction, and find its operands where the compiler has put them: advance,
\* the execute_ functions and val_string step over the same bytes, and every
\* jump ends at an instruction.
DecodersAgree ==
  /\ phase = "print" /\ ~UntilReached =>
       fetch(code, ppc) \in Opcodes /\ Decodes(PrintReads, ppc)
  /\ Running /\ ~Between =>
       fetch(code, pc) \in Opcodes /\ Decodes(ExecReads, pc)

\* Once the linker is through, every predicate and every rule that the code
\* names has been renumbered exactly once, in whatever branch or body it is.
RelocatedOnce ==
  phase \notin {"print", "error"} =>
    \A a \in 1 .. prog.end - 1 :
      /\ prog.code[a].k = "pred" => code[a].n = Link[prog.code[a].n]
      /\ prog.code[a].k = "rule" => code[a].n = RuleLink[prog.code[a].n]
      /\ prog.code[a].k \notin {"pred", "rule"} => code[a] = prog.code[a]

\* What the rule consumes is what it holds, which the interpreter takes for
\* granted and HeldWithinCount rests on: an ITER names a predicate of the node, a
\* REMOVE takes a copy from the leaf of an open ITER that has one in use, although
\* it only finds the leaf in saved_leafs, and an ITER whose copy was taken is
\* never told to make it free again.
ConsumesWhatItHolds ==
  /\ At("ITER") => Source(iter_predicate(code, pc)) \in DOMAIN TuplesOf
  /\ At("REMOVE") =>
       \E i \in DOMAIN frames : /\ frames[i].cur = saved_leafs[reg_get(code, pc, 1)]
                               /\ frames[i].this /\ ~frames[i].gone
  /\ ret \notin {"none", "LINEAR", "DERIVED"} /\ frames # <<>> => ~Top(frames).gone

\* Nothing that the interpreter asserts or takes for granted of the compiled rule
\* is wrong.  The stack is empty when a rule is over (do_execute), a comprehension
\* is left only by its END_LINEAR (RESET_LINEAR), so that it has gone over all its
\* matches, and a rule consumes only what it holds.
AssertsHold == phase # "failed" /\ ConsumesWhatItHolds

\* A leaf is in use by no more open ITERs than it has copies in the trie, so
\* that no copy is consumed twice, whatever the rule derives and wherever its
\* comprehensions return to.
HeldWithinCount ==
  \A leaf \in DOMAIN Copies :
    Cardinality({i \in DOMAIN frames : /\ frames[i].cur = leaf /\ frames[i].this
                                       /\ ~frames[i].gone}) <= count[leaf]

\* A function returns to the instruction after the CALLF that called it, and
\* POP_REGS gives the caller the registers it had.
CallsReturn ==
  [][/\ At("MOVE") /\ kind_at(code, pc + 2) = "pcounter" /\ callers # <<>> =>
          pc' = advance(code, Top(callers))
     /\ At("POP_REGS") => regs' = Top(kept)]_vars
==============================================================================
