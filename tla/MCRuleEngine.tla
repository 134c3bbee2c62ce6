----------------------------- MODULE MCRuleEngine -----------------------------
(* A small program for RuleEngine: linear predicates a and b (b on the next  *)
(* level), a reused predicate u, persistent predicates p and q that derive   *)
(* each other, and r, which u derives.                                       *)
EXTENDS RuleEngine

MCPreds == {"a", "b", "u", "p", "q", "r"}

MCKind == [x \in MCPreds |->
  CASE x \in {"a", "b"} -> "linear" [] x = "u" -> "reused" [] OTHER -> "persistent"]

MCLevel == [x \in MCPreds |-> IF x = "b" THEN 1 ELSE 0]

\* One tuple of each predicate, in copies.
MCPred == [x \in MCPreds |-> x]

Occurrences(s) == [x \in MCPreds |-> Cardinality({i \in DOMAIN s : s[i] = x})]

MCBody == <<Occurrences(<<"a", "p">>), Occurrences(<<"a", "u">>),
            Occurrences(<<"u", "u", "b">>)>>

MCHeads == <<{"u", "b"}, {"a", "q"}, {"p"}>>

MCConsequences == [x \in MCPreds |->
  CASE x = "p" -> {"q"} [] x = "q" -> {"p"} [] x = "u" -> {"r"} [] OTHER -> {}]
\* The same without the circle.
MCChain == [MCConsequences EXCEPT !["q"] = {}]
===============================================================================
