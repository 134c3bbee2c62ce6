------------------------------- MODULE ByteCode -------------------------------
(***************************************************************************)
(* The byte code of the Meld virtual machine (vm/instr.hpp) and its three  *)
(* decoders: advance(), which steps over an instruction, the interpreter   *)
(* (vm/exec.cpp) and the printer (vm/instr.cpp), which the linker also     *)
(* uses to renumber predicates and rules.                                  *)
(*                                                                         *)
(* Code is a sequence of bytes, addressed from 1.  A byte is a record: k   *)
(* says what it is (an opcode, the kind of an operand, data), n is its     *)
(* number.  Of data of several bytes the first one has the number and the  *)
(* others are padding.                                                     *)
(***************************************************************************)
EXTENDS Integers, Sequences, Functions

\* What the error of a decoder that throws is: no address.
NoAddress == 0

\* The data that follows an operand of each kind, in bytes.
Width ==
  [float |-> 8, int |-> 4, field |-> 2, host |-> 0, nil |-> 0, node |-> 4,
   string |-> 4, arg |-> 1, const |-> 4, stack |-> 1, pcounter |-> 0, ptr |-> 8,
   tuple |-> 0, reg |-> 0]

Kinds == DOMAIN Width

val_size == 1
index_size == 1
iter_match_size == 2
jump_size == 4
uint_size == 4

\* The part of an instruction that has the same size whatever its operands.
BASE ==
  [RETURN |-> 1, NEXT |-> 1, TEST_NIL |-> 3, CONS |-> 5, HEAD |-> 4, TAIL |-> 4,
   NOT |-> 3, SEND |-> 3, FLOAT |-> 3, SELECT |-> 9, RETURN_SELECT |-> 5,
   COLOCATED |-> 4, DELETE |-> 3, RESET_LINEAR |-> 1 + jump_size, END_LINEAR |-> 1,
   RULE |-> 1 + uint_size, RULE_DONE |-> 1, NEW_NODE |-> 2,
   NEW_AXIOMS |-> 1 + jump_size, SEND_DELAY |-> 3 + uint_size, PUSH |-> 1,
   POP |-> 1, PUSH_REGS |-> 1, POP_REGS |-> 1, CALLF |-> 2, CALLE |-> 4,
   CALL |-> 4, MOVE |-> 3, ALLOC |-> 3, IF_INSTR |-> 2 + jump_size, MOVE_NIL |-> 2,
   REMOVE |-> 2, ITER |-> 8, OP |-> 5, RETURN_LINEAR |-> 1, RETURN_DERIVED |-> 1]

\* ELSE has a code and no decoder.
Opcodes == DOMAIN BASE

\* The types of the arguments and of the result of each operation.
instr_op ==
  [NEQF |-> <<"float", "bool">>, NEQI |-> <<"int", "bool">>,
   EQF |-> <<"float", "bool">>, EQI |-> <<"int", "bool">>,
   LESSF |-> <<"float", "bool">>, LESSI |-> <<"int", "bool">>,
   LESSEQF |-> <<"float", "bool">>, LESSEQI |-> <<"int", "bool">>,
   GREATERF |-> <<"float", "bool">>, GREATERI |-> <<"int", "bool">>,
   GREATEREQF |-> <<"float", "bool">>, GREATEREQI |-> <<"int", "bool">>,
   MODF |-> <<"float", "float">>, MODI |-> <<"int", "int">>,
   PLUSF |-> <<"float", "float">>, PLUSI |-> <<"int", "int">>,
   MINUSF |-> <<"float", "float">>, MINUSI |-> <<"int", "int">>,
   TIMESF |-> <<"float", "float">>, TIMESI |-> <<"int", "int">>,
   DIVF |-> <<"float", "float">>, DIVI |-> <<"int", "int">>,
   NEQA |-> <<"node", "bool">>, EQA |-> <<"node", "bool">>,
   GREATERA |-> <<"node", "bool">>, ORB |-> <<"bool", "bool">>]

\* Where the kinds of the operands of an instruction are: op_arg1 and so on.
OperandAt ==
  [FLOAT |-> <<1, 2>>, OP |-> <<1, 2, 3>>, MOVE |-> <<1, 2>>, MOVE_NIL |-> <<1>>,
   TEST_NIL |-> <<1, 2>>, CONS |-> <<2, 3, 4>>, HEAD |-> <<2, 3>>,
   TAIL |-> <<2, 3>>, NOT |-> <<1, 2>>, COLOCATED |-> <<1, 2>>]

\* Where the jump of an instruction is, counted from its own address.
JumpAt ==
  [IF_INSTR |-> 2, ITER |-> 4, RESET_LINEAR |-> 1, NEW_AXIOMS |-> 1, RETURN_SELECT |-> 1,
   SELECT |-> 1]

fetch(code, pc) == code[pc].k
jump_get(code, pc) == code[pc + JumpAt[fetch(code, pc)]].n
reg_get(code, pc, off) == code[pc + off].n % 32
kind_at(code, a) == code[a].k

\* A predicate's number has seven bits, and one byte.
predicate_get(code, a) == code[a].n % 128
predicate_set(code, a, id) == [code EXCEPT ![a].n = id % 256]

\* A rule's number is read as four bytes; the linker writes the first one.
rule_get_id(code, pc) == code[pc + 1].n + 256 * code[pc + 2].n
rule_set_id(code, pc, id) == [code EXCEPT ![pc + 1].n = id % 256]

iter_predicate(code, pc) == predicate_get(code, pc + 1)
iter_match_end(code, m) == code[m + 1].n \div 64 = 1
iter_match_none(code, m) == code[m + 1].n \div 64 = 3

num_args(code, pc) == code[pc + 2].n

select_hash_size(code, pc) == code[pc + 5].n
select_hash_start(pc) == pc + BASE.SELECT
select_hash(code, pc, i) == code[select_hash_start(pc) + 4 * i].n
select_hash_code(code, pc, hashed) ==
  select_hash_start(pc) + 4 * select_hash_size(code, pc) + hashed - 1

------------------------------------------------------------------------------
(* advance(): the address of the next instruction.                          *)

ARGUMENT_ANYTHING == Kinds
ARGUMENT_ANYTHING_NOT_NIL == Kinds \ {"nil"}
ARGUMENT_INT == {"int", "reg", "field", "const", "stack"}
ARGUMENT_WRITABLE == {"reg", "field", "const", "stack", "pcounter"}
ARGUMENT_LIST == {"reg", "field", "nil", "stack"}
ARGUMENT_NON_LIST ==
  {"float", "int", "field", "reg", "host", "node", "string", "arg", "const",
   "stack", "pcounter", "ptr"}
ARGUMENT_BOOL == {"reg", "field", "const", "stack"}
ARGUMENT_NODE == {"reg", "field", "host", "node", "const", "stack"}

\* The category advance() requires of each operand.
ArgumentType ==
  [FLOAT |-> <<ARGUMENT_INT, ARGUMENT_WRITABLE>>,
   OP |-> <<ARGUMENT_ANYTHING, ARGUMENT_ANYTHING, ARGUMENT_WRITABLE>>,
   MOVE |-> <<ARGUMENT_ANYTHING_NOT_NIL, ARGUMENT_WRITABLE>>,
   MOVE_NIL |-> <<ARGUMENT_WRITABLE>>,
   TEST_NIL |-> <<ARGUMENT_LIST, ARGUMENT_WRITABLE>>,
   CONS |-> <<ARGUMENT_NON_LIST, ARGUMENT_LIST, ARGUMENT_WRITABLE>>,
   HEAD |-> <<ARGUMENT_LIST, ARGUMENT_WRITABLE>>,
   TAIL |-> <<ARGUMENT_LIST, ARGUMENT_WRITABLE>>,
   NOT |-> <<ARGUMENT_BOOL, ARGUMENT_WRITABLE>>,
   COLOCATED |-> <<ARGUMENT_NODE, ARGUMENT_NODE>>]

\* The sizes of the operands whose kinds are at the given offsets.
OperandWidths(code, pc, offsets) ==
  [i \in DOMAIN offsets |-> Width[kind_at(code, pc + offsets[i])]]

\* The bytes of a list of matches, up to the one that is marked as the last.
iter_matches_size(code, start) ==
  LET last[m \in 1 .. Len(code)] ==
        IF iter_match_end(code, m)
        THEN m + iter_match_size + Width[kind_at(code, m + 1)]
        ELSE last[m + iter_match_size + Width[kind_at(code, m + 1)]]
  IN IF iter_match_none(code, start) THEN iter_match_size ELSE last[start] - start

\* Where each of num arguments starts (a header that ends with the kind, and
\* then the data), and where the last one ends.
ArgStarts(code, start, num, header) ==
  LET after[i \in 0 .. num] ==
        IF i = 0 THEN start
        ELSE after[i - 1] + header + Width[kind_at(code, after[i - 1] + header - 1)]
  IN after

instr_call_args_size(code, start, num) ==
  ArgStarts(code, start, num, val_size)[num] - start
instr_delete_args_size(code, start, num) ==
  ArgStarts(code, start, num, index_size + val_size)[num] - start

advance(code, pc) ==
  LET op == fetch(code, pc)
      base == pc + BASE[op]
  IN CASE op \in DOMAIN OperandAt ->
            IF \A i \in DOMAIN OperandAt[op] :
                 kind_at(code, pc + OperandAt[op][i]) \in ArgumentType[op][i]
            THEN base + SumFunction(OperandWidths(code, pc, OperandAt[op]))
            ELSE NoAddress
       [] op = "ITER" -> base + iter_matches_size(code, base)
       [] op \in {"CALL", "CALLE"} ->
            base + instr_call_args_size(code, base, num_args(code, pc))
       [] op = "DELETE" ->
            base + instr_delete_args_size(code, base, num_args(code, pc))
       [] op = "SELECT" -> base + 4 * select_hash_size(code, pc)
       [] op = "NEW_AXIOMS" -> pc + jump_get(code, pc)
       [] OTHER -> base

------------------------------------------------------------------------------
(* The interpreter: what each kind of operand may be, and in which order    *)
(* the operands are read.                                                   *)

get_bool == {"reg", "field"}
get_float == {"float", "reg", "field", "const"}
get_int == {"int", "reg", "field", "const"}
get_node == {"host", "node", "reg", "field", "const"}
get_ptr == {"reg", "field"}
get_int_list == {"reg", "field", "nil", "const"}
get_float_list == {"reg", "field", "nil", "const"}
get_node_list == {"reg", "field", "nil"}

get_op_function ==
  [bool |-> get_bool, float |-> get_float, int |-> get_int, node |-> get_node]

get_list_function ==
  [int |-> get_int_list, float |-> get_float_list, node |-> get_node_list]

set_bool == {"reg"}
set_int == {"reg", "field", "stack"}
set_float == {"reg", "field", "stack"}
set_node == {"reg", "field"}
set_list == {"reg", "field"}

set_op_function ==
  [bool |-> set_bool, float |-> set_float, int |-> set_int, node |-> set_node]

move_to_reg ==
  {"float", "int", "field", "host", "node", "reg", "tuple", "stack", "ptr"}
move_to_field ==
  {"float", "int", "node", "string", "arg", "stack", "const", "field", "host", "reg"}
move_to_stack == {"pcounter", "int", "float", "reg", "const"}
move_to_const == {"float", "int", "reg", "node", "string"}
move_to_pcounter == {"stack", "ptr"}

\* What a destination of MOVE accepts.
MoveFrom ==
  [reg |-> move_to_reg, field |-> move_to_field, stack |-> move_to_stack,
   const |-> move_to_const, pcounter |-> move_to_pcounter]

\* The order in which the execute_ functions read the operands.
ExecReads ==
  [FLOAT |-> <<1, 2>>, OP |-> <<1, 2, 3>>, MOVE |-> <<1, 2>>, MOVE_NIL |-> <<1>>,
   TEST_NIL |-> <<1, 2>>, CONS |-> <<2, 3, 4>>, HEAD |-> <<2, 3>>,
   TAIL |-> <<2, 3>>, NOT |-> <<1, 2>>, COLOCATED |-> <<1, 2>>]

\* What the execute_ function of the instruction accepts, operand by operand.
Accepts(code, pc) ==
  LET op == fetch(code, pc)
      el == kind_at(code, pc + 1)
      ty == instr_op[kind_at(code, pc + 4)]
  IN CASE op = "FLOAT" -> <<get_int, set_float>>
       [] op = "OP" -> <<get_op_function[ty[1]], get_op_function[ty[1]],
                         set_op_function[ty[2]]>>
       [] op = "MOVE" -> <<{k \in Kinds : \E to \in DOMAIN MoveFrom :
                              to = kind_at(code, pc + 2) /\ k \in MoveFrom[to]},
                           DOMAIN MoveFrom>>
       [] op = "MOVE_NIL" -> <<{"reg", "field"}>>
       [] op = "TEST_NIL" -> <<get_ptr, set_bool>>
       [] op = "CONS" -> <<get_op_function[el], get_list_function[el], set_list>>
       [] op = "HEAD" -> <<get_list_function[el], set_op_function[el]>>
       [] op = "TAIL" -> <<get_list_function[el], set_list>>
       [] op = "NOT" -> <<{"reg", "field"}, {"reg", "field"}>>
       [] op = "COLOCATED" -> <<get_node, get_node>>

\* No execute_ function throws because of its operands.
Accepted(code, pc) ==
  fetch(code, pc) \in DOMAIN ExecReads =>
    LET reads == ExecReads[fetch(code, pc)]
    IN \A i \in DOMAIN reads : kind_at(code, pc + reads[i]) \in Accepts(code, pc)[i]

\* The kinds that get_op_function meets when it reads the matches of an ITER.
build_match_object(code, start) ==
  LET from[m \in 1 .. Len(code)] ==
        {m + 1} \cup IF iter_match_end(code, m) THEN {}
                     ELSE from[m + iter_match_size + Width[kind_at(code, m + 1)]]
  IN IF iter_match_none(code, start) THEN {} ELSE from[start]

\* The kinds it meets when it reads the arguments of CALL, CALLE and DELETE.
read_call_arg(code, start, num) ==
  {ArgStarts(code, start, num, val_size)[i] : i \in 0 .. num - 1}
read_delete_arg(code, start, num) ==
  {ArgStarts(code, start, num, index_size + val_size)[i] + index_size :
     i \in 0 .. num - 1}

\* The addresses of the kinds of a list of operands, each before its data.
ListedVals(code, pc) ==
  LET op == fetch(code, pc)
      base == pc + BASE[op]
  IN CASE op = "ITER" -> build_match_object(code, base)
       [] op \in {"CALL", "CALLE"} -> read_call_arg(code, base, num_args(code, pc))
       [] op = "DELETE" -> read_delete_arg(code, base, num_args(code, pc))
       [] OTHER -> {}

\* Where a decoder that reads the operands in this order finds their data, and
\* (last) where it ends.
DataAt(code, pc, reads) ==
  LET widths == OperandWidths(code, pc, reads)
  IN [i \in 1 .. Len(reads) + 1 |->
        pc + BASE[fetch(code, pc)] + SumFunctionOnSet(widths, 1 .. i - 1)]

------------------------------------------------------------------------------
(* The printer: val_string steps over every kind of operand.                *)

PrintReads ==
  [FLOAT |-> <<1, 2>>, OP |-> <<1, 2, 3>>, MOVE |-> <<1, 2>>, MOVE_NIL |-> <<1>>,
   TEST_NIL |-> <<1, 2>>, CONS |-> <<2, 3, 4>>, HEAD |-> <<2, 3>>,
   TAIL |-> <<2, 3>>, NOT |-> <<1, 2>>, COLOCATED |-> <<1, 2>>]

\* The axioms of NEW_AXIOMS: a predicate, then its fields by their types.  A
\* list is a sequence of elements that are each preceded by 1.
FieldEnd(code, start, type) ==
  LET width == [int |-> 4, float |-> 8, node |-> 4, int_list |-> 4,
                float_list |-> 8, node_list |-> 4]
      after[p \in 1 .. Len(code)] ==
        IF code[p].n = 1 THEN after[p + 1 + width[type]] ELSE p + 1
  IN IF type \in {"int", "float", "node"} THEN start + width[type] ELSE after[start]

AxiomEnd(code, start, types) ==
  LET after[i \in 0 .. Len(types)] ==
        IF i = 0 THEN start + 1 ELSE FieldEnd(code, after[i - 1], types[i])
  IN after[Len(types)]

\* The addresses of the axioms' predicates.
Axioms(code, pc, fields) ==
  LET end == pc + jump_get(code, pc)
      from[p \in 1 .. Len(code) + 1] ==
        IF p >= end THEN {}
        ELSE {p} \cup from[AxiomEnd(code, p, fields[predicate_get(code, p)])]
  IN from[pc + BASE.NEW_AXIOMS]
==============================================================================
