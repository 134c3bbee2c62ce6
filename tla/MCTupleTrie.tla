----------------------------- MODULE MCTupleTrie -----------------------------
(* TupleTrie for a predicate without fields, one with two integers and one   *)
(* with an integer and a list.                                              *)
EXTENDS TupleTrie

MCFields == [nullary |-> <<>>, pairs |-> <<"int", "int">>, lists |-> <<"int", "list">>]

MCTuples ==
  [nullary |-> {<<>>},
   pairs |-> {<<0, 0>>, <<1, 0>>, <<2, 0>>, <<4, 0>>, <<4, 1>>},
   lists |-> {<<1, <<>>>>, <<1, <<1>>>>, <<1, <<0>>>>, <<0, <<1, 0>>>>}]
==============================================================================
