------------------------------ MODULE MCLinker ------------------------------
(***************************************************************************)
(* Small programs for Linker: a primary program "m" with two predicates of *)
(* its own, the import files "f1" and "f2", and the data file "d".  Every  *)
(* piece of code refers to everything its program has.                     *)
(***************************************************************************)
EXTENDS Linker
LOCAL INSTANCE SequencesExt

MCDefinitions == <<<<"e", "int", "lib e">>, <<"g", "int", "lib g">>, <<"e", "int", "other">>>>

Common == <<<<"_init">>, <<"setcolor">>>>

Import(imp, as, file) == [imp |-> <<imp>>, as |-> <<as>>, file |-> file]
(* The local names, each once.                                             *)
As(imports) == SetToSeq({imports[i].as : i \in DOMAIN imports})

(* References to n predicates, to a rule, a string, a function and to all  *)
(* external functions.                                                     *)
Refs(n, rule, externs) ==
  [i \in 1..n |-> ref("pred", i - 1)]
    \o <<ref("rule", rule), ref("string", 0), ref("function", 0)>>
    \o [i \in DOMAIN externs |-> ref("extern", i - 1)]

Program(file, names, imports, nodes, rules, externs, agg) ==
  [EmptyProgram EXCEPT
    !.version = 9, !.nodes = nodes, !.imports = imports,
    !.preds = [i \in DOMAIN names |->
                [name |-> names[i], types |-> <<i % 2>>, code |-> Refs(Len(names), i % rules, externs),
                 agg |-> IF agg /\ i = Len(names) THEN <<ref("pred", i - 2)>> ELSE <<>>]],
    !.rules = [i \in 1..rules |->
                [str |-> <<file, i - 1>>, persistent |-> i = 2, preds |-> IF i = 1 THEN <<0>> ELSE <<Len(names) - 1, i - 1>>,
                 code |-> Refs(Len(names), i - 1, externs) \o <<ref("ptr", 0)>>]],
    !.strings = <<file>>, !.functions = <<<<file>>>>, !.const_types = <<0>>,
    !.externs = [i \in DOMAIN externs |-> [id |-> i - 1, name |-> externs[i], lib |-> "", args |-> i]]]

Imports ==
  {<<>>,
   <<Import("a", "x", "f1")>>,
   <<Import("b", "x", "f1"), Import("a", "y", "f1")>>,
   <<Import("c", "x", "f2"), Import("a", "y", "f1")>>,
   <<Import("b", "x", "f1"), Import("a", "y", "f2")>>,
   <<Import("a", "x", "f2"), Import("b", "y", "f1")>>,
   <<Import("a", "x", "f1"), Import("b", "x", "f1")>>}

OwnNames == <<<<"p">>, <<"q">>>>

Primaries ==
  {Program("m", names[2], names[1], 2, 3, <<"e", "h">>, agg) :
     names \in UNION {{<<i, Common \o OwnNames \o As(i)>>, <<i, Common \o As(i) \o OwnNames>>} : i \in Imports},
     agg \in BOOLEAN}

First == Program("f1", Common \o <<<<"a">>, <<"b">>>>, <<>>, 3, 3, <<"g">>, FALSE)
Seconds ==
  {Program("f2", Common \o names, <<>>, 1, 2, <<>>, FALSE) :
     names \in {<<<<"c">>, <<"d">>>>, <<<<"c">>>>, <<<<"c">>, <<"d">>, <<"e">>>>, <<<<"c">>, <<"a">>>>}}
  \cup {[First EXCEPT !.version = 4]}

(* The predicates that m imports from f2 are there.                        *)
Fits(m, f2) ==
  \A k \in DOMAIN m.imports :
    m.imports[k].file = "f2" => \E j \in DOMAIN f2.preds : f2.preds[j].name = m.imports[k].imp
Pairs == {x \in Primaries \X Seconds : Fits(x[1], x[2])}

DataFiles ==
  {[Program("d", names, <<>>, 1, 1, <<>>, FALSE) EXCEPT !.priority = 3] :
     names \in {Common \o <<<<"p">>>>, Common \o <<<<"x">>>>, Common \o OwnNames \o <<<<"z">>, <<"z">>, <<"z">>, <<"z">>>>}}

(* Older versions of the format, without functions or external functions.  *)
Old == [EmptyProgram EXCEPT
         !.nodes = 1, !.strings = <<"m">>,
         !.preds = [i \in 1..2 |-> [name |-> Common[i], types |-> <<>>, agg |-> <<>>, code |-> <<ref("string", 0)>>]],
         !.rules = <<[str |-> <<"m", 0>>, persistent |-> FALSE, preds |-> <<0>>, code |-> <<ref("pred", 1)>>]>>]

MCInputs ==
  [{"m"} -> {[Old EXCEPT !.version = v] : v \in {5, 6}} \cup DataFiles]
    \cup {[f \in {"m", "f1", "f2"} |-> CASE f = "m" -> x[1] [] f = "f1" -> First [] OTHER -> x[2]] :
            x \in Pairs}
    \cup {[f \in {"m", "f1", "f2", "d"} |->
             CASE f = "m" -> x[1] [] f = "f1" -> First [] f = "f2" -> x[2] [] OTHER -> d] :
            x \in Pairs, d \in DataFiles}
=============================================================================
