---------------------------- MODULE ProgramFile ----------------------------
(***************************************************************************)
(* Byte code files and the loader that reads them: the constructor of      *)
(* vm::program (vm/program.cpp), the predicate descriptors                 *)
(* (vm/predicate.cpp), the registry of external functions                  *)
(* (vm/external.cpp) and data files (program::add_data_file).              *)
(*                                                                         *)
(* A file is a sequence of tokens.  A token stands for bytes that the      *)
(* loader reads in one go; its kind k stands for their layout.  The loader *)
(* does not know kinds: where it expects another kind than the one it      *)
(* meets, it goes on with bytes that mean something else, and the model    *)
(* stops with section = "garbage".  Code is the sequence of the references *)
(* its instructions make, [k |-> kind, id |-> number]; all numbers count   *)
(* from 0, as in the code.                                                 *)
(***************************************************************************)
EXTENDS Naturals, Sequences, FiniteSets
LOCAL INSTANCE SequencesExt

CONSTANTS COMMON_PREDICATES, \* predicates every file starts with (8 in the code)
          REGISTER_OFFSET    \* external functions every process registers (38)

ASSUME ConstantsAssumption == COMMON_PREDICATES \in Nat \ {0} /\ REGISTER_OFFSET \in Nat

VARIABLES in,       \* the part of the file that is not read yet
          section,  \* the section of the file that is read or written next
          prog,     \* the program that is being loaded
          programs, \* the programs this process has loaded
          hash_external \* the registry: the functions in the order of their ids

loadVars == <<in, section, prog, programs, hash_external>>

token(kind, value) == [k |-> kind, v |-> value]
tokens(kind, seq) == [i \in DOMAIN seq |-> token(kind, seq[i])]
counted(kind, seq) == <<token("uint", Len(seq))>> \o tokens(kind, seq)

ref(kind, n) == [k |-> kind, id |-> n]

(* What the compiler writes: the sections of a file, in their order.       *)
HeaderTokens(p) ==
  <<token("head", p.version), token("byte", Len(p.preds)),
    token("uint", p.nodes)>> \o tokens("node", [i \in 1..p.nodes |-> i - 1])
ImportTokens(p) ==
  (IF p.version >= 9 THEN counted("import", p.imports) \o counted("name", p.exports) ELSE <<>>)
    \o <<token("byte", p.num_args)>>
RuleTokens(p) == counted("string", [i \in DOMAIN p.rules |-> p.rules[i].str])
ConstTokens(p) ==
  counted("string", p.strings) \o counted("byte", p.const_types) \o <<token("code", p.const_code)>>
FunctionTokens(p) == IF p.version >= 6 THEN counted("function", p.functions) ELSE <<>>
ExternTokens(p) == IF p.version >= 7 THEN counted("extern", p.externs) ELSE <<>>
Descriptor(pred) == [name |-> pred.name, types |-> pred.types, agg |-> pred.agg, size |-> Len(pred.code)]
DescriptorTokens(p) == tokens("descriptor", [i \in DOMAIN p.preds |-> Descriptor(p.preds[i])])
CodeTokens(p) == tokens("code", [i \in DOMAIN p.preds |-> p.preds[i].code])
RuleBody(r) == [code |-> r.code, persistent |-> r.persistent, preds |-> r.preds]
RuleCodeTokens(p) == counted("rule", [i \in DOMAIN p.rules |-> RuleBody(p.rules[i])])
Compiled(p) ==
  HeaderTokens(p) \o ImportTokens(p) \o RuleTokens(p) \o ConstTokens(p) \o FunctionTokens(p)
    \o ExternTokens(p) \o DescriptorTokens(p) \o <<token("priority", p.priority)>>
    \o CodeTokens(p) \o RuleCodeTokens(p)

(* How the loader reads: n tokens of a kind, or a count and its tokens,    *)
(* behind the first o tokens of the input.                                 *)
Holds(o, n, kind) == o + n <= Len(in) /\ \A i \in 1..n : in[o + i].k = kind
HoldsList(o, kind) == Holds(o, 1, "uint") /\ Holds(o + 1, in[o + 1].v, kind)
Values(o, n) == [i \in 1..n |-> in[o + i].v]
ListValues(o) == Values(o + 1, in[o + 1].v)
ListEnd(o) == o + 1 + in[o + 1].v

EmptyProgram ==
  [version |-> 0, nodes |-> 0, imports |-> <<>>, exports |-> <<>>, num_args |-> 0, rules |-> <<>>,
   strings |-> <<>>, const_types |-> <<>>, const_code |-> <<>>, functions |-> <<>>,
   externs |-> <<>>, preds |-> <<>>, priority |-> 0, data_rule |-> <<>>]

(* A section of the file: when its n tokens have the layout that the       *)
(* loader expects, they become the program's new fields.                   *)
Section(this, next, aligned, n, new) ==
  /\ section = this
  /\ IF aligned
     THEN section' = next /\ prog' = new /\ in' = SubSeq(in, n + 1, Len(in))
     ELSE section' = "garbage" /\ UNCHANGED <<prog, in>>
  /\ UNCHANGED programs

VERSION_AT_LEAST(min) == prog.version >= min

(* Another magic number or version throws load_file_error.                 *)
LoadHeader ==
  /\ Section("header",
             IF in[1].v < 5 \/ in[1].v >= 10 THEN "rejected" ELSE "imports",
             Holds(0, 1, "head") /\ Holds(1, 1, "byte") /\ Holds(2, 1, "uint") /\ Holds(3, in[3].v, "node"),
             3 + in[3].v,
             [EmptyProgram EXCEPT !.version = in[1].v, !.nodes = in[3].v,
                                  !.preds = [i \in 1..in[2].v |-> <<>>]])
  /\ UNCHANGED hash_external

LoadImports ==
  LET listed == VERSION_AT_LEAST(9)
      args == IF listed THEN ListEnd(ListEnd(0)) ELSE 0
  IN /\ Section("imports", "rules",
                (listed => HoldsList(0, "import") /\ HoldsList(ListEnd(0), "name")) /\ Holds(args, 1, "byte"),
                args + 1,
                [prog EXCEPT !.imports = IF listed THEN ListValues(0) ELSE <<>>,
                             !.exports = IF listed THEN ListValues(ListEnd(0)) ELSE <<>>,
                             !.num_args = in[args + 1].v])
     /\ UNCHANGED hash_external

LoadRules ==
  /\ Section("rules", "consts", HoldsList(0, "string"), ListEnd(0),
             [prog EXCEPT !.rules = [i \in DOMAIN ListValues(0) |-> [str |-> ListValues(0)[i]]]])
  /\ UNCHANGED hash_external

LoadConsts ==
  LET types == ListEnd(0)
      code == ListEnd(types)
  IN /\ Section("consts",
                IF VERSION_AT_LEAST(6) THEN "functions" ELSE "descriptors",
                HoldsList(0, "string") /\ HoldsList(types, "byte") /\ Holds(code, 1, "code"),
                code + 1,
                [prog EXCEPT !.strings = ListValues(0), !.const_types = ListValues(types),
                             !.const_code = in[code + 1].v])
     /\ UNCHANGED hash_external

(* The functions built into the machine, registered once in a process.     *)
BuiltIns == [i \in 1..REGISTER_OFFSET |-> [name |-> "built in", lib |-> ""]]
init_external_functions == IF hash_external = <<>> THEN BuiltIns ELSE hash_external

LoadFunctions ==
  /\ Section("functions",
             IF VERSION_AT_LEAST(7) THEN "externs" ELSE "descriptors",
             HoldsList(0, "function"), ListEnd(0), [prog EXCEPT !.functions = ListValues(0)])
  /\ hash_external' = init_external_functions

(* The id that the file gives an external function is not used: functions  *)
(* are numbered in the order of their registration, and those with more    *)
(* than three arguments are not registered.                                *)
get_function_pointer(ex) == [name |-> ex.name, lib |-> ex.lib]
register_external_function(registry, function) == Append(registry, function)
add_external_function(registry, ex) ==
  IF ex.args <= 3 THEN register_external_function(registry, get_function_pointer(ex)) ELSE registry

(* execute_calle adds REGISTER_OFFSET to the number in the code.           *)
lookup_external_function(id) == hash_external[REGISTER_OFFSET + id + 1]

LoadExterns ==
  /\ Section("externs", "descriptors", HoldsList(0, "extern"), ListEnd(0),
             [prog EXCEPT !.externs = ListValues(0)])
  /\ hash_external' = IF HoldsList(0, "extern")
                      THEN FoldLeft(add_external_function, hash_external, ListValues(0))
                      ELSE hash_external

(* make_predicate_from_buf: the size of the code is in the descriptor.     *)
make_predicate_from_buf(desc) ==
  [name |-> desc.name, types |-> desc.types, agg |-> desc.agg, code_size |-> desc.size, code |-> <<>>]

LoadDescriptors ==
  LET n == Len(prog.preds)
  IN /\ Section("descriptors", "priority", Holds(0, n, "descriptor"), n,
                [prog EXCEPT !.preds = [i \in 1..n |-> make_predicate_from_buf(in[i].v)]])
     /\ UNCHANGED hash_external

(* 0x03 marks a data file.                                                 *)
LoadPriority ==
  /\ Section("priority", "code", Holds(0, 1, "priority"), 1, [prog EXCEPT !.priority = in[1].v])
  /\ UNCHANGED hash_external

(* The code of a predicate has no header: the loader takes as many bytes   *)
(* as the descriptor says.                                                 *)
LoadCode ==
  LET n == Len(prog.preds)
  IN /\ Section("code", "rule code",
                Holds(0, n, "code") /\ \A i \in 1..n : Len(in[i].v) = prog.preds[i].code_size, n,
                [prog EXCEPT !.preds = [i \in 1..n |-> [prog.preds[i] EXCEPT !.code = in[i].v]]])
     /\ UNCHANGED hash_external

(* assert(num_rules_code == number_rules), and the predicates a rule names *)
(* are looked up in the predicates of this program.                        *)
LoadRuleCode ==
  LET n == Len(prog.rules)
      bodies == ListValues(0)
  IN /\ Section("rule code", "loaded",
                /\ HoldsList(0, "rule") /\ Len(bodies) = n
                /\ \A i \in 1..n : \A j \in DOMAIN bodies[i].preds : bodies[i].preds[j] < Len(prog.preds),
                ListEnd(0),
                [prog EXCEPT !.rules = [i \in 1..n |-> [str |-> prog.rules[i].str, code |-> bodies[i].code,
                                                        persistent |-> bodies[i].persistent,
                                                        preds |-> bodies[i].preds]]])
     /\ UNCHANGED hash_external

Load == \/ LoadHeader \/ LoadImports \/ LoadRules \/ LoadConsts \/ LoadFunctions \/ LoadExterns
        \/ LoadDescriptors \/ LoadPriority \/ LoadCode \/ LoadRuleCode

(* The constructor opens another file.                                     *)
Open(file) == in' = file /\ section' = "header" /\ prog' = EmptyProgram

is_data(p) == p.priority = 3

(* predicate::operator== does not look at aggregates and levels.           *)
SamePredicate(mine, oth) == mine.name = oth.name /\ mine.types = oth.types

MatchesCount(p, other) == Len(p.preds) >= Len(other.preds)
MatchesData(p, other) ==
  /\ Len(p.preds) >= Len(other.preds)
  /\ \A i \in DOMAIN other.preds : SamePredicate(p.preds[i], other.preds[i])

(* The code of the init rule ends with a move that loads a pointer; the    *)
(* pointer becomes the address of the data file's first rule.              *)
add_data_file(p, other) ==
  LET init == p.rules[1].code
  IN [p EXCEPT !.data_rule = <<other.rules[1]>>,
               !.rules[1].code = [init EXCEPT ![Len(init)] = ref("data", 0)]]
=============================================================================
