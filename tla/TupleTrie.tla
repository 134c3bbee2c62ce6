------------------------------ MODULE TupleTrie ------------------------------
(***************************************************************************)
(* The store of the tuples of one predicate at one node: db::trie and      *)
(* db::tuple_trie.  The values along a path from the root spell a tuple.   *)
(* The children of a trie_node are a linked list that becomes a hash table *)
(* once it is long; the leaves are linked in the order of their insertion. *)
(*                                                                         *)
(* A trie_node is named by its path.  Its children are sequences of values *)
(* in the order of their next pointers: one sequence for a list, one for   *)
(* each bucket of a hash table.  Integers stand for all scalar types,      *)
(* which differ only in how they are compared.                             *)
(***************************************************************************)
EXTENDS Integers, FiniteSets, SequencesExt, FiniteSetsExt, Functions, TLC

CONSTANTS
  Preds,                           \* the predicates
  Fields,                          \* predicate -> the types of its fields, "int" or "list"
  Tuples,                          \* predicate -> its tuples
  TRIE_HASH_LIST_THRESHOLD,        \* a longer list becomes a hash table
  TRIE_HASH_BASE_BUCKETS,          \* buckets of a new hash table
  TRIE_HASH_MAX_NODES_PER_BUCKET,  \* a longer bucket doubles the hash table
  Many,                            \* the counts with which the store is called
  MaxReferences                    \* bound on number_of_references

ASSUME TrieAssumption ==
  /\ Fields \in [Preds -> Seq({"int", "list"})]
  /\ \A p \in Preds : \A t \in Tuples[p] : Len(t) = Len(Fields[p])
  /\ TRIE_HASH_LIST_THRESHOLD \in Nat \ {0}
  /\ TRIE_HASH_BASE_BUCKETS \in Nat \ {0}
  /\ TRIE_HASH_MAX_NODES_PER_BUCKET \in Nat \ {0}
  /\ Many \subseteq Nat \ {0}
  /\ MaxReferences \in Nat

VARIABLES
  pred,                  \* tuple_trie::pred
  nodes,                 \* path -> trie_node
  leaves,                \* the paths of the leaves, from first_leaf to last_leaf
  number_of_references,
  deleter,               \* the delete_info that is not committed, in a set
  is_new,                \* what the last insert_tuple returned
  failed                 \* an assertion stopped the program

vars == <<pred, nodes, leaves, number_of_references, deleter, is_new, failed>>

------------------------------------------------------------------------------
(* Paths.  A list is spelled 1, head, 1, head, ..., 0.                      *)

ListPath(l) ==
  [i \in 1 .. 2 * Len(l) + 1 |->
     IF i = 2 * Len(l) + 1 THEN 0 ELSE IF i % 2 = 1 THEN 1 ELSE l[i \div 2]]

FieldPath(type, v) == IF type = "int" THEN <<v>> ELSE ListPath(v)

\* The values that match and insert take off the stacks for a tuple.
Path == [p \in Preds |-> [t \in Tuples[p] |->
           FlattenSeq([i \in 1 .. Len(t) |-> FieldPath(Fields[p][i], t[i])])]]

Root == <<>>
Prefix(path, k) == SubSeq(path, 1, k)
Parent(path) == Front(path)
Below(path) == {q \in DOMAIN nodes : IsPrefix(path, q)}
TupleAt(path) == CHOOSE t \in Tuples[pred] : Path[pred][t] = path

------------------------------------------------------------------------------
(* trie_node and trie_hash                                                  *)

\* bucket is a position in the parent's table, 0 for a child in a list; count
\* is the simple_tuple's if the node is a leaf.
NewNode(bucket) ==
  [hashed |-> FALSE, buckets |-> <<<<>>>>, total |-> 0, bucket |-> bucket,
   leaf |-> FALSE, count |-> 0]

HasChild(node) == node.leaf \/ node.hashed \/ node.buckets # <<<<>>>>

\* hash_item, for a table of n buckets.
hash_item(v, n) == (v % n) + 1

BucketOf(node, v) == IF node.hashed THEN hash_item(v, Len(node.buckets)) ELSE 1

\* The nodes that match, get_by_int and get_int compare with v.
Chain(node, v) == node.buckets[BucketOf(node, v)]

\* The children in the order in which convert_hash and expand move them.
Children(node) == FlattenSeq(node.buckets)

\* A table of n buckets, filled by insert_int: each child goes first in its bucket.
Fill(children, n) ==
  [b \in 1 .. n |-> Reverse(SelectSeq(children, LAMBDA v : hash_item(v, n) = b))]

convert_hash(node) ==
  [node EXCEPT !.hashed = TRUE, !.total = Len(Children(node)),
               !.buckets = Fill(Children(node), TRIE_HASH_BASE_BUCKETS)]

\* Mutant: the table doubles but the nodes stay where they are.
ExpandInPlace(node) ==
  [node EXCEPT !.buckets = @ \o [b \in 1 .. Len(@) |-> <<>>]]

expand(node) ==
  [node EXCEPT !.buckets = Fill(Children(node), 2 * Len(node.buckets))]

\* check_insert, for a child to be added after count children were compared.
Grown(node, count) ==
  IF ~node.hashed /\ count > TRIE_HASH_LIST_THRESHOLD THEN convert_hash(node)
  ELSE IF node.hashed /\ count > TRIE_HASH_MAX_NODES_PER_BUCKET THEN expand(node)
  ELSE node

\* trie_node::insert: first in the list or in the bucket.
WithChild(node, v) ==
  [node EXCEPT !.buckets[BucketOf(node, v)] = <<v>> \o @,
               !.total = IF node.hashed THEN @ + 1 ELSE @]

\* trie_node::bucket of the child v.
BucketPointer(node, v) == IF node.hashed THEN BucketOf(node, v) ELSE 0

------------------------------------------------------------------------------
(* trie                                                                     *)

\* How much of a path check_insert finds: the loop around trie_node::match.
Matched(path) ==
  LET found(k) == \A j \in 1 .. k : Contains(Chain(nodes[Prefix(path, j - 1)], path[j]), path[j])
  IN CHOOSE k \in 0 .. Len(path) : found(k) /\ (k < Len(path) => ~found(k + 1))

\* The 0-arity tuple's node is the root.
Found(path) == Matched(path) = Len(path) /\ nodes[path].leaf

\* check_insert for a tuple that is not there: the new nodes and the leaf.
Inserted(path, many) ==
  LET k == Matched(path)
      leafNode(node) == [node EXCEPT !.leaf = TRUE, !.count = many]
      q == Prefix(path, k)
      v == path[k + 1]
      parent == WithChild(Grown(nodes[q], Len(Chain(nodes[q], v)) + 1), v)
      node(j) ==
        LET new == NewNode(IF j = k + 1 THEN BucketPointer(parent, v) ELSE 0)
        IN IF j = Len(path) THEN leafNode(new) ELSE WithChild(new, path[j + 1])
      moved(p) == p # Root /\ Parent(p) = q
  IN IF path = Root THEN [nodes EXCEPT ![Root] = leafNode(@)]
     ELSE [p \in DOMAIN nodes \cup {Prefix(path, j) : j \in k + 1 .. Len(path)} |->
             IF p = q THEN parent
             ELSE IF p \notin DOMAIN nodes THEN node(Len(p))
             ELSE IF moved(p) THEN [nodes[p] EXCEPT !.bucket = BucketPointer(parent, Last(p))]
             ELSE nodes[p]]

\* Mutant: an empty bucket is taken for an empty table.
LastOfBucket(path) == Len(Chain(nodes[Parent(path)], Last(path))) = 1

\* Whether delete_path, having unlinked a node, goes on with its parent.
LastChild(path) ==
  LET chain == Chain(nodes[Parent(path)], Last(path))
  IN /\ Head(chain) = Last(path)
     /\ IF nodes[path].bucket # 0 THEN nodes[Parent(path)].total = 1
                                  ELSE Len(chain) = 1

\* Mutant: hash->total-- is missing.
UnlinkedUncounted(path) ==
  LET parent == nodes[Parent(path)]
  IN [parent EXCEPT !.buckets[BucketOf(parent, Last(path))] = Remove(@, Last(path))]

\* A node's parent after delete_path has unlinked the node, through prev or,
\* for the first of a bucket, through the bucket pointer.
Unlinked(path) ==
  LET parent == nodes[Parent(path)]
      v == Last(path)
      chain == Chain(parent, v)
      at == IF Head(chain) = v /\ nodes[path].bucket # 0 THEN nodes[path].bucket
            ELSE BucketOf(parent, v)
  IN [parent EXCEPT !.buckets[at] = Remove(chain, v),
                    !.total = IF nodes[path].bucket # 0 THEN @ - 1 ELSE @]

\* delete_path for a node below which nothing is left: the node goes, and every
\* ancestor that leads to it alone.
PathDeleted(path) ==
  LET top == CHOOSE k \in 1 .. Len(path) :
               /\ \A j \in k + 1 .. Len(path) : LastChild(Prefix(path, j))
               /\ k = 1 \/ ~LastChild(Prefix(path, k))
      gone == Below(Prefix(path, top))
      empty == path = Root \/ (top = 1 /\ LastChild(Prefix(path, 1)))
  IN IF empty THEN Root :> NewNode(0)
     ELSE [p \in DOMAIN nodes \ gone |->
             IF p = Prefix(path, top - 1) THEN Unlinked(Prefix(path, top)) ELSE nodes[p]]

\* inner_delete_by_leaf for a leaf whose count is zero.
RemoveLeaf(path) ==
  /\ leaves' = Remove(leaves, path)
  /\ nodes' = PathDeleted(path)

------------------------------------------------------------------------------

Init ==
  /\ pred \in Preds
  /\ nodes = Root :> NewNode(0)
  /\ leaves = <<>>
  /\ number_of_references = 0
  /\ deleter = {}
  /\ is_new = FALSE
  /\ failed = FALSE

\* The callers commit a deletion before they change the store again.
Ready == ~failed /\ deleter = {}

AddCount(path, many) == [nodes EXCEPT ![path].count = @ + many]

insert_tuple(t, many) ==
  LET path == Path[pred][t] IN
  /\ Ready
  /\ number_of_references + many <= MaxReferences
  /\ number_of_references' = number_of_references + many
  /\ is_new' = ~Found(path)
  /\ IF Found(path)
     THEN nodes' = AddCount(path, many) /\ leaves' = leaves
     ELSE nodes' = Inserted(path, many) /\ leaves' = Append(leaves, path)
  /\ UNCHANGED <<pred, deleter, failed>>

\* Nobody retracts more copies than were added.  For a missing tuple the walk
\* ends in a warning, except that a 0-arity one is created and assert(found) fails.
delete_tuple(t, many) ==
  LET path == Path[pred][t] IN
  /\ Ready
  /\ IF Found(path)
     THEN LET left == nodes[path].count - many IN
          /\ left >= 0
          /\ nodes' = AddCount(path, -many)
          /\ IF left = 0
             THEN /\ deleter' = {[tr_node |-> path, many |-> many]}
                  /\ UNCHANGED number_of_references
             ELSE /\ number_of_references' = number_of_references - many
                  /\ UNCHANGED deleter
          /\ UNCHANGED failed
     ELSE /\ failed' = (path = Root)
          /\ UNCHANGED <<nodes, number_of_references, deleter>>
  /\ UNCHANGED <<pred, leaves, is_new>>

\* delete_info::operator()
commit_delete ==
  /\ ~failed
  /\ \E d \in deleter :
       /\ number_of_references' = number_of_references - d.many
       /\ RemoveLeaf(d.tr_node)
  /\ deleter' = {}
  /\ UNCHANGED <<pred, is_new, failed>>

\* A rule consumes a tuple that it has matched.
delete_by_leaf(path) ==
  /\ Ready
  /\ number_of_references' = number_of_references - 1
  /\ IF nodes[path].count = 1
     THEN RemoveLeaf(path)
     ELSE nodes' = AddCount(path, -1) /\ UNCHANGED leaves
  /\ UNCHANGED <<pred, deleter, is_new, failed>>

\* Mutant: leaves are counted, not their copies.
DeleteBranchLeaves(path) ==
  LET branch == {l \in ToSet(leaves) : IsPrefix(path, l)}
  IN /\ Ready
     /\ branch # {}
     /\ number_of_references' = number_of_references - Cardinality(branch)
     /\ leaves' = SelectSeq(leaves, LAMBDA l : l \notin branch)
     /\ nodes' = PathDeleted(path)
     /\ UNCHANGED <<pred, deleter, is_new, failed>>

\* delete_branch and delete_path for the node that the leading fields lead to;
\* get_by_int asserts that the root has children.
delete_by_index(path) ==
  LET there == Matched(path) = Len(path)
      branch == {l \in ToSet(leaves) : IsPrefix(path, l)}
  IN /\ Ready
     /\ failed' = ~HasChild(nodes[Root])
     /\ IF there
        THEN /\ number_of_references' =
                  number_of_references - MapThenSumSet(LAMBDA l : nodes[l].count, branch)
             /\ leaves' = SelectSeq(leaves, LAMBDA l : l \notin branch)
             /\ nodes' = PathDeleted(path)
        ELSE UNCHANGED <<number_of_references, leaves, nodes>>
     /\ UNCHANGED <<pred, deleter, is_new>>

\* The leading fields of a DELETE instruction: at least one, scalars only.
Indexes(p) ==
  UNION {{Prefix(t, k) : t \in Tuples[p]} :
         k \in {i \in 1 .. Len(Fields[p]) : \A j \in 1 .. i : Fields[p][j] = "int"}}

Stopped == failed /\ UNCHANGED vars

Next ==
  \/ \E t \in Tuples[pred], many \in Many : insert_tuple(t, many) \/ delete_tuple(t, many)
  \/ commit_delete
  \/ \E i \in 1 .. Len(leaves) : delete_by_leaf(leaves[i])
  \/ \E path \in Indexes(pred) : delete_by_index(path)
  \/ Stopped

Spec == Init /\ [][Next]_vars

------------------------------------------------------------------------------
(* match_predicate                                                          *)

\* vm::match_field, with the value to be found if it is exact.
Field(exact, type, val) == [exact |-> exact, type |-> type, val |-> val]
Inexact(type) == Field(FALSE, type, 0)

\* vm::match: one match_field for each field; only scalars can be exact.
Matches(p, values) ==
  {m \in [1 .. Len(Fields[p]) -> {Inexact("int"), Inexact("list")}
                                 \cup {Field(TRUE, "int", v) : v \in values}] :
     \A i \in DOMAIN m : m[i].type = Fields[p][i]}

has_any_exact(m) == \E i \in DOMAIN m : m[i].exact

\* The children of a node that the search goes on to.
Candidates(node, field) ==
  IF field.exact THEN {field.val} \cap ToSet(Chain(node, field.val))
  ELSE ToSet(Children(node))

\* The type stack after a child: a list that goes on stays below its next item.
Popped(typs, v) ==
  IF Head(typs).type = "list" /\ v = 1 THEN <<Inexact("int")>> \o typs ELSE Tail(typs)

\* The nodes that the search for m visits, level by level, each with the types
\* that are left on the stack.
Visited(m) ==
  LET depth == Max({Len(path) : path \in DOMAIN nodes})
      level[d \in 0 .. depth] ==
        IF d = 0 THEN {[node |-> Root, typs |-> m]}
        ELSE UNION {{[node |-> Append(s.node, v), typs |-> Popped(s.typs, v)] :
                       v \in Candidates(nodes[s.node], Head(s.typs))} :
                    s \in {s \in level[d - 1] : ~nodes[s.node].leaf}}
  IN UNION {level[d] : d \in 0 .. depth}

match_predicate(m) ==
  IF ~has_any_exact(m) THEN {TupleAt(l) : l \in ToSet(leaves)}
  ELSE IF number_of_references = 0 THEN {}
  ELSE {TupleAt(s.node) : s \in {s \in Visited(m) : nodes[s.node].leaf}}

------------------------------------------------------------------------------
(* Properties                                                               *)

TypeOK ==
  /\ pred \in Preds
  /\ Root \in DOMAIN nodes
  /\ \A path \in DOMAIN nodes :
       LET node == nodes[path] IN
       /\ node.hashed \in BOOLEAN /\ node.leaf \in BOOLEAN
       /\ node.buckets \in Seq(Seq(Int))
       /\ node.total \in Nat /\ node.bucket \in Nat
       /\ node.count \in 0 .. MaxReferences
  /\ leaves \in Seq(DOMAIN nodes)
  /\ number_of_references \in Nat
  /\ deleter \subseteq [tr_node : DOMAIN nodes, many : Many]
  /\ is_new \in BOOLEAN /\ failed \in BOOLEAN

\* trie::basic_invariants: the trie is empty exactly when nothing is counted in
\* it and no leaf is linked.
basic_invariants ==
  /\ (number_of_references = 0) = ~HasChild(nodes[Root])
  /\ (leaves = <<>>) = ~HasChild(nodes[Root])

\* The check that sanity_check has commented out: number_of_references is what
\* count_refs adds up, plus the copies of a deletion that is not committed; and
\* basic_invariants, which the code asserts.
ReferencesExact ==
  /\ basic_invariants
  /\ number_of_references =
    MapThenSumSet(LAMBDA l : nodes[l].count, {l \in DOMAIN nodes : nodes[l].leaf})
    + MapThenSumSet(LAMBDA d : d.many, deleter)

\* The nodes are where a search looks for them: every node but the root is once in
\* its parent's list or bucket for its value, with the pointer to that bucket, the
\* tables count their children, and only leaves and the empty root have no child.
PlacedExactly ==
  \A path \in DOMAIN nodes :
    LET node == nodes[path] IN
    /\ ToSet(Children(node)) = {Last(q) : q \in {q \in DOMAIN nodes \ {Root} : Parent(q) = path}}
    /\ IsInjective(Children(node))
    /\ \A b \in DOMAIN node.buckets : \A i \in DOMAIN node.buckets[b] :
         LET v == node.buckets[b][i] IN
         b = BucketOf(node, v) /\ nodes[Append(path, v)].bucket = BucketPointer(node, v)
    /\ node.hashed => node.total = Len(Children(node))
    /\ path # Root => HasChild(node) /\ (node.hashed => node.total > 0)

\* match_predicate finds the stored tuples that agree with the match, and no
\* others, whatever the shape of the trie.
MatchExact ==
  \A m \in Matches(pred, UNION {ToSet(Path[pred][t]) : t \in Tuples[pred]}) :
    match_predicate(m) =
      {t \in {TupleAt(l) : l \in ToSet(leaves)} :
         \A i \in DOMAIN m : m[i].exact => m[i].val = t[i]}

\* The multiset of tuples that a walk from the root finds.
Store == INSTANCE TupleStore WITH
  tuples <- Tuples[pred],
  count <- [t \in Tuples[pred] |-> LET path == Path[pred][t] IN
              IF Found(path) THEN nodes[path].count ELSE 0],
  order <- [i \in DOMAIN leaves |-> TupleAt(leaves[i])],
  deleting <- {TupleAt(d.tr_node) : d \in deleter}

\* A tuple_trie is a multiset iterated in the order of insertion: converting lists
\* to hash tables, doubling these and pruning paths change nothing its users see.
ImplementsTupleStore == Store!Spec
==============================================================================
