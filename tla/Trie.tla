-------------------------------- MODULE Trie --------------------------------
(***************************************************************************)
(* The hexary Patricia trie of crates/helios-bsc-execution: how            *)
(* ordered_trie.rs builds one and how mpt.rs walks a proof through one.    *)
(*                                                                         *)
(* Abstractions.  Keys are of one length (keccak256 of an address or a     *)
(* slot), so the value slot of a branch is never used.  A hash is the node *)
(* it stands for: no two nodes collide.  A node shorter than 32 bytes is a *)
(* leaf under another node whose value is not "big".                       *)
(*                                                                         *)
(* Each operator named X_Something is a plausible mistake in X: no         *)
(* definition uses it, and X replaced by it must break a property.         *)
(***************************************************************************)
EXTENDS Integers, Sequences, FiniteSets, SequencesExt

CONSTANTS
  Nibbles,   \* what a key is made of
  KeyLen     \* how many of them

ASSUME KeyLenAssumption == KeyLen \in Nat \ {0}

Keys == [1 .. KeyLen -> Nibbles]

Stems == UNION {[1 .. n -> Nibbles] : n \in 0 .. KeyLen}

\* The reference an absent child, and the root of an empty trie, are made of.
EMPTY_TRIE_ROOT == [ref |-> "empty"]

\* keccak256 of a node.
Hashed(node) == [ref |-> "hash", node |-> node]

Leaf(path, val) == [kind |-> "leaf", path |-> path, val |-> val]

-----------------------------------------------------------------------------
(* Building: the root of the map m from keys to values. *)

Short(node) == node.kind = "leaf" /\ Len(node.path) < KeyLen /\ ~node.val.big

child_ref(node) == IF Short(node) THEN [ref |-> "inline", node |-> node] ELSE Hashed(node)

KeysUnder(m, p) == {k \in DOMAIN m : IsPrefix(p, k)}

\* The node of the keys under p, where node holds the nodes further down.
NodeAt(m, node, p) ==
  LET keys   == KeysUnder(m, p)
      shared == LongestCommonPrefix(keys)
  IN CASE Cardinality(keys) = 1 ->
            LET k == CHOOSE x \in keys : TRUE
            IN Leaf(SubSeq(k, Len(p) + 1, KeyLen), m[k])
       [] Cardinality(keys) > 1 /\ Len(shared) > Len(p) ->
            [kind |-> "ext", path |-> SubSeq(shared, Len(p) + 1, Len(shared)),
             child |-> child_ref(node[shared])]
       [] OTHER ->
            [kind |-> "branch",
             kids |-> [x \in Nibbles |->
                         IF \E k \in keys : k[Len(p) + 1] = x
                         THEN child_ref(node[Append(p, x)]) ELSE EMPTY_TRIE_ROOT]]

encode_node(m) ==
  LET node[p \in Stems] == NodeAt(m, node, p)
  IN node[<<>>]

TrieRoot(m) == IF DOMAIN m = {} THEN EMPTY_TRIE_ROOT ELSE Hashed(encode_node(m))

-----------------------------------------------------------------------------
(* Walking.  w is how far a walk has got: the reference it follows, the    *)
(* nibbles left, the proof nodes left, and how it ended ("" while it goes  *)
(* on).                                                                    *)

Ended(w, how, vals) == [w EXCEPT !.end = how, !.vals = vals]

\* A proof must end with the node that shows the key absent.
Excluded(w) == Ended(w, IF w.rest = <<>> THEN "absent" ELSE "bad", <<>>)

walk_items(w, node) ==
  CASE node.kind = "branch" ->
         [w EXCEPT !.item = node.kids[Head(w.nibbles)], !.nibbles = Tail(@)]
    [] node.kind # "branch" /\ ~IsPrefix(node.path, w.nibbles) -> Excluded(w)
    [] node.kind = "leaf" /\ IsPrefix(node.path, w.nibbles) ->
         IF Len(node.path) = Len(w.nibbles) /\ w.rest = <<>>
         THEN Ended(w, "found", <<node.val>>) ELSE Ended(w, "bad", <<>>)
    [] node.kind = "ext" /\ IsPrefix(node.path, w.nibbles) ->
         [w EXCEPT !.item = node.child,
                   !.nibbles = SubSeq(@, Len(node.path) + 1, Len(@))]

\* The proof that stops short taken for one that shows the key absent.
consume_hashed_Short(w) ==
  CASE w.rest = <<>> -> Ended(w, "absent", <<>>)
    [] w.rest # <<>> /\ Head(w.rest) # w.item.node -> Ended(w, "bad", <<>>)
    [] OTHER -> walk_items([w EXCEPT !.rest = Tail(@)], Head(w.rest))

consume_hashed(w) ==
  CASE w.rest = <<>> -> Ended(w, "bad", <<>>)
    [] w.rest # <<>> /\ Head(w.rest) # w.item.node -> Ended(w, "bad", <<>>)
    [] OTHER -> walk_items([w EXCEPT !.rest = Tail(@)], Head(w.rest))

follow_child(w) ==
  CASE w.end # "" -> w
    [] w.end = "" /\ w.item.ref = "empty" -> Excluded(w)
    [] w.end = "" /\ w.item.ref = "inline" -> walk_items(w, w.item.node)
    [] w.end = "" /\ w.item.ref = "hash" -> consume_hashed(w)

\* The end of the walk of proof from root along key; a nibble at least goes
\* with every node on the way, so that KeyLen + 1 nodes are enough.
\* No proof at all shows nothing, not even of an empty trie.
verify_trie_proof(root, key, proof) ==
  LET walk[n \in 0 .. KeyLen + 1] ==
        IF n = 0 THEN [item |-> root, nibbles |-> key, rest |-> proof,
                       end |-> IF proof = <<>> THEN "bad" ELSE "", vals |-> <<>>]
        ELSE follow_child(walk[n - 1])
  IN walk[KeyLen + 1]

-----------------------------------------------------------------------------
(* The provider's side: the proof of key under root, and the nodes of a trie. *)

\* One node further: c is the reference it has come to, the nibbles left, the nodes on the way.
Climb(c) ==
  LET node == c.item.node
      on   == IF c.item.ref = "hash" THEN Append(c.nodes, node) ELSE c.nodes
  IN CASE c.item.ref = "empty" -> c
       [] c.item.ref # "empty" /\ node.kind = "branch" ->
            [item |-> node.kids[Head(c.left)], left |-> Tail(c.left), nodes |-> on]
       [] c.item.ref # "empty" /\ node.kind = "leaf" ->
            [item |-> EMPTY_TRIE_ROOT, left |-> c.left, nodes |-> on]
       [] c.item.ref # "empty" /\ node.kind = "ext" ->
            [item |-> IF IsPrefix(node.path, c.left) THEN node.child ELSE EMPTY_TRIE_ROOT,
             left |-> SubSeq(c.left, Len(node.path) + 1, Len(c.left)), nodes |-> on]

ProofOf(root, key) ==
  LET climb[n \in 0 .. KeyLen + 1] ==
        IF n = 0 THEN [item |-> root, left |-> key, nodes |-> <<>>] ELSE Climb(climb[n - 1])
  IN climb[KeyLen + 1].nodes

NodesOf(root) == UNION {ToSet(ProofOf(root, k)) : k \in Keys}
=============================================================================
