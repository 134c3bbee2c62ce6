---------------------------- MODULE MCInterpreter ----------------------------
(***************************************************************************)
(* Interpreter on programs of the shapes the compiler emits, put together  *)
(* by a small assembler, and on one program per instruction and choice of  *)
(* operands that the interpreter accepts.                                  *)
(***************************************************************************)
EXTENDS Interpreter
LOCAL INSTANCE TLC

CONSTANTS Regs, Shapes   \* bounds: NUM_REGS, and the shapes of programs

b(k, n) == [k |-> k, n |-> n]
num(k, n, w) == <<b(k, n)>> \o [i \in 1 .. w - 1 |-> b("pad", 0)]
jump(n) == num("jump", n, jump_size)

\* Operands: reg(2), o("field", 1) and so on.
reg(r) == b("reg", r)
o(k, n) == b(k, n)
kind(x) == IF x.k = "reg" THEN x ELSE b(x.k, 0)
data(x) == IF x.k \in DOMAIN DataByte THEN num(DataByte[x.k], x.n, Width[x.k]) ELSE <<>>
cat(seqs) ==
  LET to[i \in 0 .. Len(seqs)] == IF i = 0 THEN <<>> ELSE to[i - 1] \o seqs[i]
  IN to[Len(seqs)]
ops(xs) == [i \in DOMAIN xs |-> kind(xs[i])]
datas(xs) == cat([i \in DOMAIN xs |-> data(xs[i])])

\* One byte, and bytes with operands.
one(op) == <<b(op, 0)>>
bytes(op, ns) == one(op) \o [i \in DOMAIN ns |-> b("byte", ns[i])]
plain(op, xs) == one(op) \o ops(xs) \o datas(xs)
typed(op, ty, xs) == one(op) \o <<b(ty, 0)>> \o ops(xs) \o datas(xs)
arith(name, xs) == one("OP") \o ops(xs) \o <<b(name, 0)>> \o datas(xs)
colocated(xs, r) == one("COLOCATED") \o ops(xs) \o <<b("byte", r)>> \o datas(xs)
pred(p) == b("pred", p)
alloc(p, r) == <<b("ALLOC", 0), pred(p), b("byte", r)>>
rule_instr(r) == <<b("RULE", 0)>> \o num("rule", r, 4)
call(op, xs) ==
  <<b(op, 0), b("byte", 0), b("byte", Len(xs)), b("byte", 3)>>
    \o cat([i \in DOMAIN xs |-> <<kind(xs[i])>> \o data(xs[i])])
delete(p, xs) ==
  <<b("DELETE", 0), pred(p), b("byte", Len(xs))>>
    \o cat([i \in DOMAIN xs |-> <<b("byte", i), kind(xs[i])>> \o data(xs[i])])
if(r, body) == <<b("IF_INSTR", 0), b("byte", r)>> \o jump(6 + Len(body)) \o body
reset(body) ==
  LET all == body \o one("END_LINEAR")
  IN one("RESET_LINEAR") \o jump(5 + Len(all)) \o all
NoMatch == <<b("byte", 0), b("byte", 192)>>
matches(xs) ==
  cat([i \in DOMAIN xs |->
        <<b("byte", i), b(xs[i].k, IF i = Len(xs) THEN 64 ELSE 0)>> \o data(xs[i])])
iter(p, ms, body) ==
  <<b("ITER", 0), pred(p), b("byte", 2), b("byte", 0)>>
    \o jump(8 + Len(ms) + Len(body)) \o ms \o body
axioms(as) == LET all == cat(as) IN one("NEW_AXIOMS") \o jump(5 + Len(all)) \o all

\* SELECT with a table of two nodes, of which one has code of its own.
select(node, body) ==
  one("SELECT") \o jump(17 + Len(body) + 5) \o num("hash_size", 2, 4)
    \o num("hash", IF node = 0 THEN 1 ELSE 0, 4) \o num("hash", IF node = 1 THEN 1 ELSE 0, 4)
    \o body \o one("RETURN_SELECT") \o jump(5)

Program(linked, rest, entry, functions) ==
  [code |-> linked \o rest, end |-> Len(linked) + 1, entry |-> entry,
   functions |-> functions]

Return == one("RETURN")
Single(instr) == Program(instr \o Return, <<>>, 1, <<>>)

------------------------------------------------------------------------------
(* Every instruction with operands, with every choice the interpreter       *)
(* accepts; the stack's own operands are in CallProgram.                    *)

Operands == {o(k, 1) : k \in Kinds \ {"stack", "pcounter", "tuple"}}

AllForms ==
  {plain(op, <<x, y>>) : op \in {"FLOAT", "MOVE", "TEST_NIL", "NOT"},
                         x \in Operands \cup {o("tuple", 0)}, y \in Operands}
  \cup {plain("MOVE_NIL", <<x>>) : x \in Operands}
  \cup {colocated(<<x, y>>, 2) : x \in Operands, y \in Operands}
  \cup {typed(op, ty, <<x, y>>) : op \in {"HEAD", "TAIL"}, ty \in {"int", "float", "node"},
                                  x \in Operands, y \in Operands}
  \cup {typed("CONS", ty, <<x, y, z>>) : ty \in {"int", "float", "node"},
          x \in Operands, y \in Operands, z \in {reg(1), o("field", 1)}}
  \cup {arith(name, <<x, y, z>>) : name \in {"EQF", "PLUSI", "NEQA", "ORB", "TIMESF"},
          x \in Operands, y \in Operands, z \in {reg(1), o("field", 1)}}

\* MOVE of a tuple or a pointer goes to a register.
OneInstruction == {Single(i) : i \in {i \in AllForms : Accepted(i \o Return, 1)}}

------------------------------------------------------------------------------
(* The predicates: 0 is _init, 1 and 2 are linear, 3 is not.                *)

FieldsDef == 0 :> <<>> @@ 1 :> <<"int">> @@ 2 :> <<"node", "int_list">> @@ 3 :> <<"float">>
LinkDef == 0 :> 0 @@ 1 :> 2 @@ 2 :> 3 @@ 3 :> 1
RuleLinkDef == 0 :> 1 @@ 1 :> 0
LinearDef == {0, 1, 2}
TuplesOfDef == 0 :> {1} @@ 1 :> {2, 3} @@ 2 :> {4} @@ 3 :> {5, 6}
CopiesDef == <<1, 2, 1, 1, 1, 1>>

\* A function that is called, computes on the stack and returns.
CallProgram ==
  LET result == Regs
      address == Regs + 1
      function ==
        arith("GREATERI", <<reg(0), o("int", 7), reg(1)>>)
        \o if(1, arith("PLUSI", <<reg(0), o("const", 0), o("stack", result)>>))
        \o plain("NOT", <<reg(1), reg(1)>>)
        \o if(1, plain("MOVE", <<o("int", 5), o("stack", result)>>))
        \o plain("MOVE", <<o("stack", address), o("pcounter", 0)>>)
      rule0 ==
        one("PUSH") \o one("PUSH") \o one("PUSH_REGS")
        \o plain("MOVE", <<o("field", 1), reg(0)>>)
        \o plain("MOVE", <<o("pcounter", 0), o("stack", address)>>)
        \o bytes("CALLF", <<0>>) \o one("POP_REGS")
        \o plain("MOVE", <<o("stack", 0), reg(1)>>)
        \o one("POP") \o one("POP") \o Return
  IN Program(function \o rule0, <<>>, Len(function) + 1, <<1>>)

\* The first rule: the axioms of every node and of this one, and, when a data
\* file is loaded, the code of its first rule.
InitProgram(node, withData) ==
  LET start(ptr) ==
        rule_instr(0) \o iter(0, NoMatch,
          plain("MOVE", <<o("tuple", 0), reg(0)>>)
          \o axioms(<<<<pred(1)>> \o num("int_val", 7, 4), <<pred(0)>>,
                      <<pred(2)>> \o num("node_val", 1, 4) \o <<b("more", 1)>>
                        \o num("int_val", 3, 4) \o <<b("more", 0)>>>>)
          \o select(node, axioms(<<<<pred(3)>> \o num("float_val", 1, 8)>>))
          \o alloc(1, 1) \o plain("MOVE", <<o("int", 4), o("field", 0)>>)
          \o bytes("SEND", <<1, 1>>) \o one("RULE_DONE") \o bytes("REMOVE", <<0>>)
          \o plain("MOVE", <<o("ptr", ptr), IF withData THEN o("pcounter", 0) ELSE reg(5)>>)
          \o one("RETURN_DERIVED") \o one("NEXT")) \o Return
      linked(a) == <<b("byte", LinkDef[a])>>
      data_rule == num("RULE", 0, 5) \o one("NEW_AXIOMS") \o jump(10) \o linked(1)
                   \o num("int_val", 9, 4) \o one("RETURN_DERIVED")
  IN Program(start(Len(start(0)) + 1), data_rule, 1, <<>>)

\* A linear rule of two tuples with a comprehension, as in a graph traversal.
\* The comprehension is over p, and consumes what it matches if p is linear.
LinearProgram(first, second, p, consume, exit) ==
  Program(
    rule_instr(1) \o iter(first, NoMatch,
      plain("MOVE", <<o("tuple", 0), reg(0)>>)
      \o iter(second, matches(<<o("reg", 0), o("int", 3)>>),
        plain("MOVE", <<o("tuple", 0), reg(1)>>) \o one("RULE_DONE")
        \o reset(iter(p, NoMatch,
             plain("MOVE", <<o("tuple", 0), reg(2)>>) \o alloc(3, 3)
             \o bytes("SEND", <<3, 0>>) \o (IF consume THEN bytes("REMOVE", <<2>>) ELSE <<>>)
             \o one("RETURN_DERIVED") \o one("NEXT")))
        \o bytes("REMOVE", <<1>>) \o bytes("REMOVE", <<0>>)
        \o one(exit) \o one("NEXT"))
      \o one("NEXT")) \o Return, <<>>, 1, <<>>)

\* The instructions that talk to the rest of the virtual machine.
OtherProgram ==
  Program(
    rule_instr(1) \o iter(3, matches(<<o("float", 2)>>),
      bytes("NEW_NODE", <<4>>) \o alloc(1, 5)
      \o one("SEND_DELAY") \o <<b("byte", 5), b("byte", 4)>> \o num("uint", 10, 4)
      \o call("CALL", <<o("int", 3), o("reg", 4), o("field", 1)>>)
      \o call("CALLE", <<o("float", 3)>>) \o delete(1, <<o("int", 1)>>)
      \o if(3, one("RETURN_DERIVED")) \o one("NEXT")) \o Return, <<>>, 1, <<>>)

RuleShapes ==
  {CallProgram, OtherProgram,
   InitProgram(0, FALSE), InitProgram(1, FALSE), InitProgram(0, TRUE)}
  \cup {LinearProgram(1, 2, 3, FALSE, "RETURN_DERIVED"),
        LinearProgram(1, 1, 1, TRUE, "RETURN_LINEAR"),
        LinearProgram(2, 1, 1, TRUE, "RETURN_DERIVED")}

ProgramsDef == IF Shapes = "all" THEN OneInstruction \cup RuleShapes ELSE RuleShapes
==============================================================================
