------------------------------- MODULE Linker -------------------------------
(***************************************************************************)
(* The linker (src/merge.cpp) and the start of the program it writes.      *)
(*                                                                         *)
(* The process merge loads the primary program and the programs it imports *)
(* from (the secondaries), writes one file section by section, and ends.   *)
(* A process of the machine then loads that file, and a data file if there *)
(* is one (process/machine.cpp).  The predicates and rules of all programs *)
(* get new numbers; modify_code puts them into the code.                   *)
(***************************************************************************)
EXTENDS ProgramFile
LOCAL INSTANCE SequencesExt

CONSTANTS Inputs,   \* sets of files: functions from names to compiled programs
          Main,     \* the name of the primary program's file
          Data,     \* the name of the data file
          md_file,  \* the lines of the .md file: a name, arguments and a library
          DummyPath, \* the library of functions the table does not name
          Garbage,  \* what the memory of a number that was never set may hold
          Unset     \* a number that was never set

ASSUME InputsAssumption == \A files \in Inputs : Main \in DOMAIN files

VARIABLES files,     \* the files of the user, which no step changes
          meld_file, \* the import files that are not loaded yet
          out,       \* the .ml file
          pred_ids, rule_ids, \* get_linker_id, for every program
          running    \* FALSE in the process merge, TRUE in the machine

vars == <<loadVars, files, meld_file, out, pred_ids, rule_ids, running>>
linkVars == <<in, prog, programs, hash_external, files, meld_file, running>>

Init ==
  /\ files \in Inputs
  /\ in = Compiled(files[Main]) /\ section = "header" /\ prog = EmptyProgram
  /\ programs = <<>> /\ hash_external = <<>>
  /\ meld_file = <<>> /\ out = <<>> /\ pred_ids = <<>> /\ rule_ids = <<>> /\ running = FALSE

primary == programs[1]
Secondaries == 2..Len(programs)
FileName(s) == IF s = 1 THEN Main ELSE meld_file[s - 1]
InOrder(parts) == FlattenSeq([i \in 1..(Len(programs) - 1) |-> parts[i + 1]])

-----------------------------------------------------------------------------
EveryImport(p) == [i \in DOMAIN p.imports |-> p.imports[i].file]
(* main: the primary program, then each import file once, in the order in  *)
(* which the primary names them.                                           *)
ImportFiles(p) ==
  FoldLeft(LAMBDA seen, i : IF Contains(seen, i.file) THEN seen ELSE Append(seen, i.file), <<>>, p.imports)

Loaded ==
  LET found == IF programs = <<>> THEN ImportFiles(prog) ELSE meld_file
      n == Len(programs) + 1
  IN /\ section = "loaded" /\ ~ running
     /\ programs' = Append(programs, prog)
     /\ meld_file' = found
     /\ IF n <= Len(found) THEN Open(Compiled(files[found[n]]))
        ELSE section' = "link header" /\ UNCHANGED <<in, prog>>
     /\ UNCHANGED <<hash_external, files, out, pred_ids, rule_ids, running>>

(* A section of the .ml file.                                              *)
Write(this, next, bytes) ==
  /\ section = this
  /\ section' = next
  /\ out' = out \o bytes
  /\ UNCHANGED linkVars

(* The counts are computed; the sections below must agree with them.       *)
num_imported_predicates == FoldLeft(+, 0, [i \in 1..(Len(programs) - 1) |-> Len(programs[i + 1].preds)])
CountInitRules == FoldLeft(+, 0, [i \in 1..(Len(programs) - 1) |-> Len(programs[i + 1].rules)])
num_rules_new == FoldLeft(+, 0, [i \in 1..(Len(programs) - 1) |-> Len(programs[i + 1].rules) - 1])
num_predicates_new ==
  Len(primary.preds) + num_imported_predicates - COMMON_PREDICATES * (Len(programs) - 1) - Len(primary.imports)

(* The node table is that of the program with the most nodes.              *)
num_nodes_new ==
  CHOOSE n \in {programs[s].nodes : s \in DOMAIN programs} : \A s \in DOMAIN programs : programs[s].nodes <= n

WriteHeader ==
  /\ Write("link header", "link imports",
           <<token("head", primary.version), token("byte", num_predicates_new), token("uint", num_nodes_new)>>
             \o tokens("node", [i \in 1..num_nodes_new |-> i - 1]))
  /\ UNCHANGED <<pred_ids, rule_ids>>

(* The imports of the primary program stay in the file.                    *)
WriteImports ==
  /\ Write("link imports", "link rules", ImportTokens(primary))
  /\ UNCHANGED <<pred_ids, rule_ids>>

(* All rules of the primary program, and those of the secondaries but      *)
(* their first, the init rule.                                             *)
RulesBefore(s) == FoldLeft(+, 0, [i \in 1..(s - 1) |-> Len(programs[i].rules) - (IF i = 1 THEN 0 ELSE 1)])
WriteRules ==
  /\ Write("link rules", "link consts",
           <<token("uint", Len(primary.rules) + num_rules_new)>> \o Tail(RuleTokens(primary))
             \o InOrder([s \in Secondaries |-> Tail(Tail(RuleTokens(programs[s])))]))
  /\ rule_ids' = [s \in DOMAIN programs |->
                   [i \in DOMAIN programs[s].rules |->
                     IF s = 1 THEN i - 1 ELSE IF i = 1 THEN Unset ELSE RulesBefore(s) + i - 2]]
  /\ UNCHANGED pred_ids

(* Constants come from the primary program only.                           *)
WriteConsts ==
  /\ Write("link consts", IF primary.version >= 6 THEN "link functions" ELSE "link descriptors",
           ConstTokens(primary))
  /\ UNCHANGED <<pred_ids, rule_ids>>

WriteFunctions ==
  /\ Write("link functions", IF primary.version >= 7 THEN "link externs" ELSE "link descriptors",
           counted("function", primary.functions \o InOrder([s \in Secondaries |-> programs[s].functions])))
  /\ UNCHANGED <<pred_ids, rule_ids>>

(* The arguments on a line of the .md file are ignored.                    *)
table == [n \in DOMAIN md_file |-> [name |-> md_file[n][1], lib |-> md_file[n][3]]]

(* A function gets the library that the table names; the functions of the  *)
(* secondaries get the ids behind those of the primary program.            *)
get_filename(name) ==
  LET found == {i \in DOMAIN table : table[i].name = name}
  IN IF found = {} THEN DummyPath ELSE table[CHOOSE i \in found : \A j \in found : i <= j].lib

WriteExterns ==
  LET theirs == InOrder([s \in Secondaries |-> programs[s].externs])
      renumbered == [i \in DOMAIN theirs |-> [theirs[i] EXCEPT !.id = Len(primary.externs) + i - 1]]
      all == primary.externs \o renumbered
  IN /\ Write("link externs", "link descriptors",
              counted("extern", [i \in DOMAIN all |-> [all[i] EXCEPT !.lib = get_filename(all[i].name)]]))
     /\ UNCHANGED <<pred_ids, rule_ids>>

is_imported(i) == \E k \in DOMAIN primary.imports : primary.imports[k].as = primary.preds[i].name

OwnPredicates == {i \in DOMAIN primary.preds : ~ is_imported(i)}
Own(seq) == [n \in 1..Cardinality(OwnPredicates) |->
               seq[CHOOSE i \in OwnPredicates : Cardinality({j \in OwnPredicates : j < i}) = n - 1]]
PredicatesBefore(s) ==
  Cardinality(OwnPredicates) + FoldLeft(+, 0, [k \in 1..(s - 2) |-> Len(programs[k + 1].preds) - COMMON_PREDICATES])

SecondaryIds(s) ==
  [i \in DOMAIN programs[s].preds |->
    IF i <= COMMON_PREDICATES THEN Unset ELSE PredicatesBefore(s) + i - COMMON_PREDICATES - 1]

ImportKeepsId(i) == i - 1
(* The last import with this name counts, and the first secondary that has *)
(* a predicate with the imported name, whatever file the import names.     *)
get_imported_predicate_id(i) ==
  LET as == {k \in DOMAIN primary.imports : primary.imports[k].as = primary.preds[i].name}
      name == primary.imports[CHOOSE k \in as : \A l \in as : k >= l].imp
      has == {s \in Secondaries : \E j \in DOMAIN programs[s].preds : programs[s].preds[j].name = name}
      first == CHOOSE s \in has : \A t \in has : s <= t
  IN IF has = {} THEN i - 1
     ELSE SecondaryIds(first)[CHOOSE j \in DOMAIN programs[first].preds :
                                /\ programs[first].preds[j].name = name
                                /\ \A k \in 1..(j - 1) : programs[first].preds[k].name # name]

PrimaryIds ==
  [i \in DOMAIN primary.preds |->
    IF is_imported(i) THEN get_imported_predicate_id(i) ELSE Cardinality({j \in OwnPredicates : j < i})]

(* predicate::rename appends the file's name to the descriptor's.          *)
Renamed(s, i) == [Descriptor(programs[s].preds[i]) EXCEPT !.name = Append(@, FileName(s))]

(* The predicates of the primary program that are not imported, and those  *)
(* of the secondaries but the common ones.  In between it is asserted that *)
(* every import is a predicate of the primary program.                     *)
WriteDescriptors ==
  /\ section = "link descriptors"
  /\ IF Cardinality(OwnPredicates) # Len(primary.preds) - Len(primary.imports)
     THEN section' = "assert" /\ UNCHANGED <<linkVars, out, pred_ids>>
     ELSE /\ Write("link descriptors", "modify",
                   Own(DescriptorTokens(primary))
                     \o tokens("descriptor", InOrder([s \in Secondaries |->
                          [i \in 1..(Len(programs[s].preds) - COMMON_PREDICATES) |-> Renamed(s, i + COMMON_PREDICATES)]])))
          /\ pred_ids' = [s \in DOMAIN programs |-> IF s = 1 THEN PrimaryIds ELSE SecondaryIds(s)]
  /\ UNCHANGED rule_ids

(* modify_code: the code of all rules and predicates gets the new numbers  *)
(* of predicates and rules; other references stay as they are.             *)
NewId(s, r, garbage) ==
  LET id == IF r.k = "pred" THEN pred_ids[s][r.id + 1] ELSE rule_ids[s][r.id + 1]
  IN IF id = Unset THEN garbage ELSE id
Modified(s, code, garbage) ==
  [i \in DOMAIN code |-> IF code[i].k \in {"pred", "rule"}
                         THEN [code[i] EXCEPT !.id = NewId(s, code[i], garbage)] ELSE code[i]]
modify_code(s, garbage) ==
  [programs[s] EXCEPT !.rules = [i \in DOMAIN @ |-> [@[i] EXCEPT !.code = Modified(s, @, garbage)]],
                      !.preds = [i \in DOMAIN @ |-> [@[i] EXCEPT !.code = Modified(s, @, garbage)]]]

ModifyCode ==
  /\ section = "modify"
  /\ \E garbage \in Garbage : programs' = [s \in DOMAIN programs |-> modify_code(s, garbage)]
  /\ section' = "link priority"
  /\ UNCHANGED <<in, prog, hash_external, files, meld_file, running, out, pred_ids, rule_ids>>

WritePriority ==
  /\ Write("link priority", "link code", <<token("priority", primary.priority)>>)
  /\ UNCHANGED <<pred_ids, rule_ids>>

(* The number of predicates of every secondary is taken to be that of the  *)
(* first one; a smaller one fails the assertion of get_predicate_bytecode. *)
CodesOf(s) == [i \in 1..(Len(programs[2].preds) - COMMON_PREDICATES) |->
                programs[s].preds[i + COMMON_PREDICATES].code]
WriteCode ==
  /\ IF \E s \in Secondaries : Len(programs[s].preds) < Len(programs[2].preds)
     THEN /\ section = "link code" /\ section' = "assert"
          /\ UNCHANGED <<linkVars, out>>
     ELSE Write("link code", "link rule code",
                Own(CodeTokens(primary))
                  \o tokens("code", InOrder([s \in Secondaries |-> CodesOf(s)])))
  /\ UNCHANGED <<pred_ids, rule_ids>>

(* The predicates that a rule names are numbered anew as they are written. *)
RuleBodies(s) ==
  [i \in DOMAIN programs[s].rules |->
    LET r == programs[s].rules[i]
    IN [RuleBody(r) EXCEPT !.preds = [j \in DOMAIN @ |-> pred_ids[s][@[j] + 1]]]]
WriteRuleCode ==
  /\ \E garbage \in Garbage :
       LET written(s) == [i \in DOMAIN RuleBodies(s) |->
                           [RuleBodies(s)[i] EXCEPT !.preds = [j \in DOMAIN @ |-> IF @[j] = Unset THEN garbage ELSE @[j]]]]
       IN Write("link rule code", "written",
                <<token("uint", Len(primary.rules) + num_rules_new)>> \o tokens("rule", written(1))
                  \o tokens("rule", InOrder([s \in Secondaries |-> Tail(written(s))])))
  /\ UNCHANGED <<pred_ids, rule_ids>>

-----------------------------------------------------------------------------
(* machine::machine, in a process of its own: the program, then its data.  *)
Start ==
  /\ section = "written"
  /\ running' = TRUE
  /\ Open(out)
  /\ programs' = <<>> /\ hash_external' = <<>>
  /\ UNCHANGED <<files, meld_file, out, pred_ids, rule_ids>>

ProgramLoaded ==
  /\ section = "loaded" /\ running /\ programs = <<>>
  /\ programs' = <<prog>>
  /\ IF Data \in DOMAIN files /\ ~ is_data(prog) THEN Open(Compiled(files[Data]))
     ELSE section' = (IF is_data(prog) THEN "rejected" ELSE "started") /\ UNCHANGED <<in, prog>>
  /\ UNCHANGED <<hash_external, files, meld_file, out, pred_ids, rule_ids, running>>

DataLoaded ==
  /\ section = "loaded" /\ running /\ programs # <<>>
  /\ IF MatchesData(primary, prog)
     THEN section' = "started" /\ programs' = <<add_data_file(primary, prog)>>
     ELSE section' = "rejected" /\ UNCHANGED programs
  /\ UNCHANGED <<in, prog, hash_external, files, meld_file, out, pred_ids, rule_ids, running>>

LoadSection == Load /\ UNCHANGED <<files, meld_file, out, pred_ids, rule_ids, running>>

Next ==
  \/ LoadSection \/ Loaded
  \/ WriteHeader \/ WriteImports \/ WriteRules \/ WriteConsts \/ WriteFunctions \/ WriteExterns
  \/ WriteDescriptors \/ ModifyCode \/ WritePriority \/ WriteCode \/ WriteRuleCode
  \/ Start \/ ProgramLoaded \/ DataLoaded

Spec == Init /\ [][Next]_vars

-----------------------------------------------------------------------------
(* The name that the predicate with index i of file f has in the linked    *)
(* program: common predicates are shared, an import of the primary program *)
(* is the predicate it names.                                              *)
LinkedName(f, i) ==
  LET name == files[f].preds[i].name
      imports == {k \in DOMAIN files[f].imports : files[f].imports[k].as = name}
      import == files[f].imports[CHOOSE k \in imports : TRUE]
  IN IF i <= COMMON_PREDICATES THEN name
     ELSE IF f # Main THEN Append(name, f)
     ELSE IF imports = {} THEN name ELSE Append(import.imp, import.file)

(* The reference r of the source file f and the reference l of the linked  *)
(* program are to the same thing.                                          *)
SameMeaning(f, r, l) ==
  /\ l.k = r.k \/ r.k = "ptr"
  /\ CASE r.k = "pred" -> l.id < Len(primary.preds) /\ primary.preds[l.id + 1].name = LinkedName(f, r.id + 1)
       [] r.k = "rule" -> l.id < Len(primary.rules) /\ primary.rules[l.id + 1].str = files[f].rules[r.id + 1].str
       [] r.k = "string" -> l.id < Len(primary.strings) /\ primary.strings[l.id + 1] = files[f].strings[r.id + 1]
       [] r.k = "function" -> /\ l.id < Len(primary.functions)
                              /\ primary.functions[l.id + 1] = files[f].functions[r.id + 1]
       [] r.k = "extern" -> /\ REGISTER_OFFSET + l.id < Len(hash_external)
                            /\ lookup_external_function(l.id).name = files[f].externs[r.id + 1].name
       [] OTHER -> TRUE

(* An imported predicate has a namesake in a file that is linked earlier   *)
(* than the one the import names.                                          *)
HasNamesake(f, i) ==
  \E k \in DOMAIN files[f].imports :
    LET import == files[f].imports[k]
    IN /\ import.as = files[f].preds[i].name
       /\ \E s \in DOMAIN meld_file :
            /\ \A t \in 1..s : meld_file[t] # import.file
            /\ \E j \in DOMAIN files[meld_file[s]].preds : files[meld_file[s]].preds[j].name = import.imp

(* The references that get new numbers which are right: in the primary     *)
(* program all but those to imports with a namesake, and in a secondary    *)
(* those to predicates and rules of its own.                               *)
Renumbered(f, r) ==
  \/ f = Main /\ ~ (r.k = "pred" /\ HasNamesake(f, r.id + 1))
  \/ f # Main /\ r.k = "pred" /\ r.id >= COMMON_PREDICATES
  \/ f # Main /\ r.k = "rule" /\ r.id > 0

LinkedFiles == {Main} \cup {meld_file[i] : i \in DOMAIN meld_file}
LinkedRules == UNION {{<<f, i>> : i \in {j \in DOMAIN files[f].rules : f = Main \/ j > 1}} : f \in LinkedFiles}
LinkedPredicates ==
  UNION {{<<f, i>> : i \in {j \in DOMAIN files[f].preds :
                              IF f = Main THEN LinkedName(f, j) = files[f].preds[j].name
                              ELSE j > COMMON_PREDICATES}} : f \in LinkedFiles}
ProgramRuns == running /\ programs # <<>>

KeptCode(f, code, linked) ==
  /\ Len(linked) = Len(code)
  /\ \A i \in DOMAIN code : Renumbered(f, code[i]) => SameMeaning(f, code[i], linked[i])
KeptRule(f, r, linked) ==
  /\ linked.str = r.str
  /\ KeptCode(f, r.code, linked.code)
  /\ KeptCode(f, [i \in DOMAIN r.preds |-> ref("pred", r.preds[i])],
              [i \in DOMAIN linked.preds |-> ref("pred", linked.preds[i])])
KeptPredicate(f, i, linked) ==
  /\ linked.name = LinkedName(f, i)
  /\ KeptCode(f, files[f].preds[i].code, linked.code)

(* Every rule and every predicate of the linked files is in the linked     *)
(* program, and its code refers to the same predicates and rules as before *)
(* linking, and in the primary program also to the same strings, functions *)
(* and external functions; imports with a namesake are left out, they are  *)
(* what ImportsAsNamed is about (merge.cpp: modify_code,                   *)
(* get_imported_predicate_id, the numbering of predicates and rules).      *)
ReferencesKept ==
  ProgramRuns =>
    /\ \A x \in LinkedRules : \E j \in DOMAIN primary.rules :
         KeptRule(x[1], files[x[1]].rules[x[2]], primary.rules[j])
    /\ \A x \in LinkedPredicates : \E j \in DOMAIN primary.preds :
         KeptPredicate(x[1], x[2], primary.preds[j])

(* "import Predicate1 as Predicate2 from filename" (linker/README.md:58):  *)
(* the code of the primary program refers to the predicate that the file   *)
(* named in the import has, not to one of another file (merge.cpp:246).    *)
ImportsAsNamed ==
  ProgramRuns =>
    \A i \in DOMAIN files[Main].rules :
      LET code == files[Main].rules[i].code
      IN \A k \in DOMAIN code : code[k].k = "pred" => SameMeaning(Main, code[k], primary.rules[i].code[k])

(* The linked program has nothing twice and nothing else, and its first    *)
(* predicates and its first rule are those the machine knows by number     *)
(* (program.hpp: INIT_PREDICATE_ID and so on; the init rule is rule 0).    *)
NothingElse ==
  ProgramRuns =>
    /\ Len(primary.rules) = Cardinality(LinkedRules)
    /\ Len(primary.preds) = Cardinality(LinkedPredicates)
    /\ \A i \in 1..COMMON_PREDICATES : primary.preds[i].name = files[Main].preds[i].name
    /\ primary.rules[1].str = files[Main].rules[1].str

(* A data file that add_data_file accepts derives facts of the predicates  *)
(* that it was compiled with (program.cpp:734).                            *)
DataMeansSame ==
  section = "started" =>
    \A r \in {primary.data_rule[i] : i \in DOMAIN primary.data_rule} :
      \A i \in DOMAIN r.code :
        r.code[i].k = "pred" => primary.preds[r.code[i].id + 1].name = files[Data].preds[r.code[i].id + 1].name

(* The linked file is read to its end as what was written: the counts in   *)
(* the header, the descriptors and the rules agree with the sections, when *)
(* all import files have the same number of predicates (merge.cpp:901) and *)
(* no two imports have one local name (the assertion of merge.cpp:799).    *)
SameSizes == \A s, t \in DOMAIN meld_file : Len(files[meld_file[s]].preds) = Len(files[meld_file[t]].preds)
LocalNamesDiffer ==
  LET imports == files[Main].imports
  IN \A k, l \in DOMAIN imports : imports[k].as = imports[l].as => k = l
OutputReadsBack ==
  SameSizes /\ LocalNamesDiffer =>
    section \notin {"garbage", "assert"} /\ (section = "started" => in = <<>>)
=============================================================================
