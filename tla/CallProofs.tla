----------------------------- MODULE CallProofs -----------------------------
(***************************************************************************)
(* What holds of proofs and verified calls for every state, every call,    *)
(* every length of key and every limit, whatever a provider replies.       *)
(***************************************************************************)
EXTENDS Call, SequenceTheorems, FiniteSetTheorems, NaturalsInduction, WellFoundedInduction, TLAPS

-----------------------------------------------------------------------------
(* Keys and stems. *)

\* A set of natural numbers that has a member has a least one.
LEMMA LeastExists ==
  ASSUME NEW S \in SUBSET Nat, S # {}
  PROVE  \E x \in S : \A y \in S : x <= y
<1> DEFINE R == {ss \in Nat \X Nat : ss[1] < ss[2]}
<1>1. IsWellFoundedOn(R, Nat)
  BY NatLessThanWellFounded DEF OpToRel
<1>2. \E x \in S : \A y \in S : <<y, x>> \notin R
  <2> HIDE DEF R
  <2> QED BY <1>1, WFMin
<1>3. PICK x \in S : \A y \in S : <<y, x>> \notin R
  BY <1>2
<1>4. \A y \in S : x <= y
  <2> TAKE y \in S
  <2>1. <<y, x>> \in Nat \X Nat
    OBVIOUS
  <2>2. ~(y < x)
    BY <1>3, <2>1
  <2> QED BY <2>2
<1> QED BY <1>4

\* Prefixes read nibble by nibble.
LEMMA PrefixIs ==
  ASSUME NEW S, NEW s \in Seq(S), NEW t \in Seq(S)
  PROVE  IsPrefix(s, t) <=> Len(s) <= Len(t) /\ \A i \in 1 .. Len(s) : s[i] = t[i]
<1> DEFINE n == Len(s)
           u == SubSeq(s, 1, n)
           v == SubSeq(t, 1, n)
<1>1. n \in Nat /\ Len(t) \in Nat /\ (\A i \in 1 .. n : s[i] \in S) /\ \A i \in 1 .. Len(t) : t[i] \in S
  BY LenProperties
<1>2. u \in Seq(S) /\ Len(u) = n /\ \A i \in 1 .. n : u[i] = s[i]
  <2>1. /\ u \in Seq(S) /\ Len(u) = IF 1 <= n THEN n - 1 + 1 ELSE 0
        /\ \A i \in 1 .. n - 1 + 1 : u[i] = s[1 + i - 1]
    <3> HIDE DEF n
    <3> QED BY <1>1, SubSeqProperties
  <2> HIDE DEF n, u
  <2> QED BY <1>1, <2>1
<1>3. CASE n <= Len(t)
  <2>1. /\ v \in Seq(S) /\ Len(v) = IF 1 <= n THEN n - 1 + 1 ELSE 0
        /\ \A i \in 1 .. n - 1 + 1 : v[i] = t[1 + i - 1]
    <3>1. \A i \in 1 .. n : t[i] \in S
      BY <1>1, <1>3
    <3> HIDE DEF n
    <3> QED BY <1>1, <3>1, SubSeqProperties
  <2>2. v \in Seq(S) /\ Len(v) = n /\ \A i \in 1 .. n : v[i] = t[i]
    <3> HIDE DEF n, v
    <3> QED BY <1>1, <2>1
  <2>3. u = v <=> \A i \in 1 .. n : u[i] = v[i]
    <3> HIDE DEF n, u, v
    <3> QED BY <1>2, <2>2, SeqEqual
  <2>4. IsPrefix(s, t) <=> u = v
    BY <1>3 DEF IsPrefix
  <2> HIDE DEF n, u, v
  <2>5. (\A i \in 1 .. n : u[i] = v[i]) <=> \A i \in 1 .. n : s[i] = t[i]
    BY <1>2, <2>2
  <2> QED BY <1>3, <2>3, <2>4, <2>5 DEF n
<1>4. CASE ~(n <= Len(t))
  BY <1>4 DEF IsPrefix
<1> QED BY <1>3, <1>4

LEMMA StemFacts ==
  ASSUME NEW p
  PROVE  p \in Stems <=> p \in Seq(Nibbles) /\ Len(p) \in 0 .. KeyLen
<1>1. ASSUME p \in Stems
      PROVE  p \in Seq(Nibbles) /\ Len(p) \in 0 .. KeyLen
  <2>1. PICK n \in 0 .. KeyLen : p \in [1 .. n -> Nibbles]
    BY <1>1 DEF Stems
  <2>2. n \in Nat
    BY KeyLenAssumption
  <2>3. p \in Seq(Nibbles) /\ Len(p) = n
    BY <2>1, <2>2
  <2> QED BY <2>3
<1>2. ASSUME p \in Seq(Nibbles), Len(p) \in 0 .. KeyLen
      PROVE  p \in Stems
  <2>1. p \in [1 .. Len(p) -> Nibbles]
    BY <1>2, LenProperties
  <2> QED BY <1>2, <2>1 DEF Stems
<1> QED BY <1>1, <1>2

LEMMA KeyFacts ==
  ASSUME NEW k
  PROVE  k \in Keys <=> k \in Seq(Nibbles) /\ Len(k) = KeyLen
<1>1. KeyLen \in Nat
  BY KeyLenAssumption
<1>2. ASSUME k \in Keys
      PROVE  k \in Seq(Nibbles) /\ Len(k) = KeyLen
  BY <1>1, <1>2 DEF Keys
<1>3. ASSUME k \in Seq(Nibbles), Len(k) = KeyLen
      PROVE  k \in Keys
  <2>1. k \in [1 .. Len(k) -> Nibbles]
    BY <1>3, LenProperties
  <2> QED BY <1>3, <2>1 DEF Keys
<1> QED BY <1>2, <1>3

\* A key and a stem of it.
LEMMA Under ==
  ASSUME NEW p \in Stems, NEW k \in Keys
  PROVE  IsPrefix(p, k) <=> \A i \in 1 .. Len(p) : p[i] = k[i]
BY StemFacts, KeyFacts, PrefixIs

\* A stem as long as a key is the key.
LEMMA WholeKey ==
  ASSUME NEW p \in Stems, NEW k \in Keys, IsPrefix(p, k), Len(p) = KeyLen
  PROVE  p = k
<1>1. p \in Seq(Nibbles) /\ k \in Seq(Nibbles) /\ Len(k) = Len(p)
  BY StemFacts, KeyFacts
<1>2. \A i \in 1 .. Len(p) : p[i] = k[i]
  BY Under
<1> QED BY <1>1, <1>2, SeqEqual


\* One nibble further down.
LEMMA Grown ==
  ASSUME NEW p \in Stems, Len(p) < KeyLen, NEW x \in Nibbles
  PROVE  /\ Append(p, x) \in Stems /\ Len(Append(p, x)) = Len(p) + 1
         /\ \A k \in Keys : IsPrefix(Append(p, x), k) <=> IsPrefix(p, k) /\ k[Len(p) + 1] = x
<1> DEFINE q == Append(p, x)
<1>1. p \in Seq(Nibbles) /\ Len(p) \in Nat /\ KeyLen \in Nat
  BY StemFacts, KeyLenAssumption
<1>2. /\ q \in Seq(Nibbles) /\ Len(q) = Len(p) + 1 /\ q[Len(p) + 1] = x
      /\ \A i \in 1 .. Len(p) : q[i] = p[i]
  BY <1>1
<1> HIDE DEF q
<1>3. q \in Stems
  BY <1>1, <1>2, StemFacts
<1>4. ASSUME NEW k \in Keys
      PROVE  IsPrefix(q, k) <=> IsPrefix(p, k) /\ k[Len(p) + 1] = x
  <2>1. IsPrefix(q, k) <=> \A i \in 1 .. Len(p) + 1 : q[i] = k[i]
    BY <1>2, <1>3, Under
  <2>2. IsPrefix(p, k) <=> \A i \in 1 .. Len(p) : p[i] = k[i]
    BY Under
  <2> QED BY <1>1, <1>2, <2>1, <2>2
<1> QED BY <1>2, <1>3, <1>4 DEF q

\* A map from keys to values.
GoodMap(m) == DOMAIN m \subseteq Keys /\ IsFiniteSet(DOMAIN m)

\* What keys share is a stem of them all, no shorter than any stem they share.
LEMMA SharedStem ==
  ASSUME NEW K, K \subseteq Keys, K # {}, NEW p \in Stems, \A k \in K : IsPrefix(p, k)
  PROVE  /\ LongestCommonPrefix(K) \in Stems /\ Len(p) <= Len(LongestCommonPrefix(K))
         /\ \A k \in K : IsPrefix(LongestCommonPrefix(K), k)
<1> DEFINE C == CommonPrefixes(K)
<1>1. \A c \in C : c \in Stems /\ \A k \in K : IsPrefix(c, k)
  <2> SUFFICES ASSUME NEW c \in C
               PROVE  c \in Stems /\ \A k \in K : IsPrefix(c, k)
    OBVIOUS
  <2>1. (\E k \in K : c \in Prefixes(k)) /\ \A k \in K : IsPrefix(c, k)
    BY DEF CommonPrefixes
  <2>7. PICK k \in K : c \in Prefixes(k)
    BY <2>1
  <2>2. PICK l \in 0 .. Len(k) : c = SubSeq(k, 1, l)
    BY <2>7 DEF Prefixes
  <2>3. k \in Seq(Nibbles) /\ Len(k) = KeyLen /\ KeyLen \in Nat /\ \A i \in 1 .. KeyLen : k[i] \in Nibbles
    BY KeyFacts, KeyLenAssumption, LenProperties
  <2>4. l \in Int /\ \A i \in 1 .. l : k[i] \in Nibbles
    BY <2>3
  <2>5. c \in Seq(Nibbles) /\ Len(c) = IF 1 <= l THEN l - 1 + 1 ELSE 0
    BY <2>2, <2>4, SubSeqProperties
  <2>6. Len(c) \in 0 .. KeyLen
    BY <2>3, <2>5
  <2> QED BY <2>1, <2>5, <2>6, StemFacts
<1>2. p \in C
  <2>1. PICK k \in K : TRUE
    OBVIOUS
  <2>2. p \in Seq(Nibbles) /\ k \in Seq(Nibbles) /\ Len(p) \in 0 .. Len(k) /\ Len(k) \in Nat
    BY StemFacts, KeyFacts, KeyLenAssumption
  <2>3. p = SubSeq(p, 1, Len(p)) /\ SubSeq(p, 1, Len(p)) = SubSeq(k, 1, Len(p))
    BY <2>2, SubSeqFull DEF IsPrefix
  <2>4. p \in Prefixes(k)
    BY <2>2, <2>3 DEF Prefixes
  <2> QED BY <2>4 DEF CommonPrefixes
<1> HIDE DEF C
<1> DEFINE L == {KeyLen - Len(c) : c \in C}
<1>3. \A c \in C : Len(c) \in Nat /\ KeyLen - Len(c) \in Nat
  BY <1>1, StemFacts, KeyLenAssumption
<1>4. PICK x \in L : \A y \in L : x <= y
  <2>1. L \in SUBSET Nat /\ L # {}
    BY <1>2, <1>3
  <2> HIDE DEF L
  <2> QED BY <2>1, LeastExists
<1>5. PICK c \in C : x = KeyLen - Len(c)
  BY <1>4
<1>6. \A d \in C : Len(d) <= Len(c)
  <2> SUFFICES ASSUME NEW d \in C
               PROVE  Len(d) <= Len(c)
    OBVIOUS
  <2>1. KeyLen - Len(d) \in L /\ KeyLen - Len(c) <= KeyLen - Len(d)
    BY <1>4, <1>5
  <2> QED BY <1>3, <2>1, KeyLenAssumption
<1> DEFINE s == LongestCommonPrefix(K)
<1>7. s \in C /\ \A d \in C : Len(d) <= Len(s)
  BY <1>5, <1>6 DEF LongestCommonPrefix, C
<1> QED BY <1>1, <1>2, <1>7

\* The three shapes of the node of the keys under p.
Shaped(m, f, p, node) ==
  LET keys   == KeysUnder(m, p)
      shared == LongestCommonPrefix(keys)
  IN \/ \E k \in Keys : keys = {k} /\ node = Leaf(SubSeq(k, Len(p) + 1, KeyLen), m[k])
     \/ /\ shared \in Stems /\ Len(shared) > Len(p) /\ \A k \in keys : IsPrefix(shared, k)
        /\ node = [kind |-> "ext", path |-> SubSeq(shared, Len(p) + 1, Len(shared)), child |-> child_ref(f[shared])]
     \/ /\ keys = {} \/ Len(p) < KeyLen
        /\ node = [kind |-> "branch",
                   kids |-> [x \in Nibbles |-> IF \E k \in keys : k[Len(p) + 1] = x
                                               THEN child_ref(f[Append(p, x)]) ELSE EMPTY_TRIE_ROOT]]

LEMMA NodeShape ==
  ASSUME NEW m, GoodMap(m), NEW f, NEW p \in Stems
  PROVE  Shaped(m, f, p, NodeAt(m, f, p))
<1> DEFINE keys == KeysUnder(m, p)
           shared == LongestCommonPrefix(keys)
           node == NodeAt(m, f, p)
           kids == [x \in Nibbles |-> IF \E k \in keys : k[Len(p) + 1] = x
                                      THEN child_ref(f[Append(p, x)]) ELSE EMPTY_TRIE_ROOT]
           c == Cardinality(keys)
<1>1. keys \subseteq Keys /\ IsFiniteSet(keys) /\ \A k \in keys : IsPrefix(p, k)
  BY FS_Subset DEF GoodMap, KeysUnder
<1>2. c \in Nat /\ Len(p) \in 0 .. KeyLen /\ KeyLen \in Nat
  BY <1>1, FS_CardinalityType, StemFacts, KeyLenAssumption
<1>3. node = CASE c = 1 -> (LET k == CHOOSE x \in keys : TRUE IN Leaf(SubSeq(k, Len(p) + 1, KeyLen), m[k]))
               [] c > 1 /\ Len(shared) > Len(p) ->
                    [kind |-> "ext", path |-> SubSeq(shared, Len(p) + 1, Len(shared)), child |-> child_ref(f[shared])]
               [] OTHER -> [kind |-> "branch", kids |-> kids]
  BY DEF NodeAt
<1>4. CASE c = 1
  <2>1. PICK k : keys = {k}
    BY <1>1, <1>4, FS_Singleton
  <2>2. (CHOOSE x \in keys : TRUE) = k /\ k \in Keys
    BY <1>1, <2>1
  <2> HIDE DEF keys, node, c, kids, shared
  <2>3. node = LET j == CHOOSE x \in keys : TRUE IN Leaf(SubSeq(j, Len(p) + 1, KeyLen), m[j])
    BY <1>3, <1>4
  <2>4. node = Leaf(SubSeq(k, Len(p) + 1, KeyLen), m[k])
    BY <2>2, <2>3
  <2> QED BY <2>1, <2>2, <2>4 DEF Shaped, keys, node
<1>5. CASE c > 1 /\ Len(shared) > Len(p)
  <2>1. keys # {}
    BY <1>5, FS_EmptySet
  <2>2. shared \in Stems /\ \A k \in keys : IsPrefix(shared, k)
    <3> HIDE DEF keys
    <3> QED BY <1>1, <2>1, SharedStem
  <2> HIDE DEF keys, node, c, kids, shared
  <2>3. node = [kind |-> "ext", path |-> SubSeq(shared, Len(p) + 1, Len(shared)), child |-> child_ref(f[shared])]
    BY <1>2, <1>3, <1>5
  <2> QED BY <1>5, <2>2, <2>3 DEF Shaped, keys, node, shared
<1>6. CASE c # 1 /\ ~(c > 1 /\ Len(shared) > Len(p))
  <2>1. ASSUME keys # {}, ~(Len(p) < KeyLen)
        PROVE  FALSE
    <3>1. PICK k \in keys : TRUE
      BY <2>1
    <3>2. Len(p) = KeyLen
      BY <1>2, <2>1
    <3>3. \A j \in keys : p = j
      BY <1>1, <3>2, WholeKey
    <3>4. keys = {p}
      BY <3>1, <3>3
    <3> QED BY <1>6, <3>4, FS_Singleton
  <2> HIDE DEF keys, node, c, kids, shared
  <2>2. node = [kind |-> "branch", kids |-> kids]
    BY <1>2, <1>3, <1>6
  <2> QED BY <2>1, <2>2 DEF Shaped, keys, node, kids
<1> QED BY <1>4, <1>5, <1>6


\* A node depends on the nodes further down only.
LEMMA NodeLocal ==
  ASSUME NEW m, GoodMap(m), NEW p \in Stems, NEW g, NEW h,
         \A q \in Stems : Len(q) > Len(p) => g[q] = h[q]
  PROVE  NodeAt(m, g, p) = NodeAt(m, h, p)
<1> DEFINE keys == KeysUnder(m, p)
           shared == LongestCommonPrefix(keys)
           kids(f) == [x \in Nibbles |-> IF \E k \in keys : k[Len(p) + 1] = x
                                         THEN child_ref(f[Append(p, x)]) ELSE EMPTY_TRIE_ROOT]
           c == Cardinality(keys)
           leaf == LET k == CHOOSE x \in keys : TRUE IN Leaf(SubSeq(k, Len(p) + 1, KeyLen), m[k])
           ext(f) == [kind |-> "ext", path |-> SubSeq(shared, Len(p) + 1, Len(shared)), child |-> child_ref(f[shared])]
<1>1. keys \subseteq Keys /\ IsFiniteSet(keys) /\ \A k \in keys : IsPrefix(p, k)
  BY FS_Subset DEF GoodMap, KeysUnder
<1>2. c \in Nat /\ Len(p) \in 0 .. KeyLen /\ KeyLen \in Nat
  BY <1>1, FS_CardinalityType, StemFacts, KeyLenAssumption
<1>3. \A f : NodeAt(m, f, p) = CASE c = 1 -> leaf
                                 [] c > 1 /\ Len(shared) > Len(p) -> ext(f)
                                 [] OTHER -> [kind |-> "branch", kids |-> kids(f)]
  BY DEF NodeAt
<1>4. CASE c = 1
  <2> HIDE DEF keys, c, kids, shared, leaf, ext
  <2> QED BY <1>3, <1>4
<1>5. CASE c > 1 /\ Len(shared) > Len(p)
  <2>1. keys # {}
    BY <1>5, FS_EmptySet
  <2>2. shared \in Stems
    <3> HIDE DEF keys
    <3> QED BY <1>1, <2>1, SharedStem
  <2>3. g[shared] = h[shared]
    BY <1>5, <2>2
  <2>4. ext(g) = ext(h)
    BY <2>3
  <2> HIDE DEF keys, c, kids, shared, leaf, ext
  <2> QED BY <1>2, <1>3, <1>5, <2>4
<1>6. CASE c # 1 /\ ~(c > 1 /\ Len(shared) > Len(p))
  <2>1. ASSUME NEW x \in Nibbles, NEW k \in keys, k[Len(p) + 1] = x
        PROVE  g[Append(p, x)] = h[Append(p, x)]
    <3>1. CASE Len(p) < KeyLen
      <4> DEFINE q == Append(p, x)
      <4>1. q \in Stems /\ Len(q) = Len(p) + 1
        BY <3>1, Grown
      <4> HIDE DEF q
      <4>2. g[q] = h[q]
        BY <1>2, <4>1
      <4> QED BY <4>2 DEF q
    <3>2. CASE Len(p) = KeyLen
      <4>1. \A j \in keys : p = j
        BY <1>1, <3>2, WholeKey
      <4>2. keys = {p}
        BY <2>1, <4>1
      <4>3. Cardinality(keys) = 1
        BY <4>2, FS_Singleton
      <4> QED BY <1>6, <4>3
    <3> QED BY <1>2, <3>1, <3>2
  <2>2. kids(g) = kids(h)
    <3> HIDE DEF keys
    <3> QED BY <2>1
  <2> HIDE DEF keys, c, kids, shared, leaf, ext
  <2>3. NodeAt(m, g, p) = [kind |-> "branch", kids |-> kids(g)]
    BY <1>2, <1>3, <1>6
  <2>4. NodeAt(m, h, p) = [kind |-> "branch", kids |-> kids(h)]
    BY <1>2, <1>3, <1>6
  <2> QED BY <2>2, <2>3, <2>4
<1> QED BY <1>4, <1>5, <1>6

\* f holds the node of every stem.
IsNodes(m, f) == f = [p \in Stems |-> NodeAt(m, f, p)]

Deep(d) == {q \in Stems : Len(q) >= d}

\* g holds the nodes of the stems of d nibbles and more.
Partial(m, d, g) == g = [p \in Deep(d) |-> NodeAt(m, g, p)]

LEMMA OneLevelUp ==
  ASSUME NEW m, GoodMap(m), NEW d \in Nat, NEW g, Partial(m, d + 1, g)
  PROVE  \E h : Partial(m, d, h)
<1> DEFINE h == [p \in Deep(d) |-> IF Len(p) = d THEN NodeAt(m, g, p) ELSE g[p]]
<1>1. \A p \in Stems : Len(p) \in Nat
  BY StemFacts, KeyLenAssumption
<1>2. \A p \in Deep(d + 1) : p \in Deep(d) /\ p \in Stems /\ g[p] = h[p]
  BY <1>1 DEF Deep
<1>3. \A p \in Deep(d + 1) : g[p] = NodeAt(m, g, p)
  <2> SUFFICES ASSUME NEW p \in Deep(d + 1)
               PROVE  g[p] = NodeAt(m, g, p)
    OBVIOUS
  <2> DEFINE N(q) == NodeAt(m, g, q)
  <2>1. g = [q \in Deep(d + 1) |-> N(q)]
    BY DEF Partial
  <2> HIDE DEF N
  <2>2. g[p] = N(p)
    BY <2>1
  <2> QED BY <2>2 DEF N
<1>4. ASSUME NEW p \in Deep(d)
      PROVE  h[p] = NodeAt(m, h, p)
  <2>1. p \in Stems /\ Len(p) \in Nat /\ Len(p) >= d
    BY <1>1 DEF Deep
  <2>2. \A q \in Stems : Len(q) > Len(p) => g[q] = h[q]
    <3> SUFFICES ASSUME NEW q \in Stems, Len(q) > Len(p)
                 PROVE  g[q] = h[q]
      OBVIOUS
    <3>1. q \in Deep(d + 1)
      BY <1>1, <2>1 DEF Deep
    <3> QED BY <1>2, <3>1
  <2> HIDE DEF h
  <2>3. NodeAt(m, g, p) = NodeAt(m, h, p)
    BY <2>1, <2>2, NodeLocal
  <2>4. CASE Len(p) = d
    BY <2>3, <2>4 DEF h
  <2>5. CASE Len(p) # d
    <3>1. p \in Deep(d + 1)
      BY <2>1, <2>5 DEF Deep
    <3> QED BY <1>2, <1>3, <2>3, <3>1
  <2> QED BY <2>4, <2>5
<1>5. h = [p \in Deep(d) |-> NodeAt(m, h, p)]
  <2> DEFINE N(q) == NodeAt(m, h, q)
  <2>1. DOMAIN h = Deep(d) /\ h = [p \in DOMAIN h |-> h[p]]
    OBVIOUS
  <2>2. \A p \in Deep(d) : h[p] = N(p)
    BY <1>4
  <2> HIDE DEF N, h
  <2>3. h = [p \in Deep(d) |-> N(p)]
    BY <2>1, <2>2
  <2> QED BY <2>3 DEF N
<1> QED BY <1>5 DEF Partial

LEMMA NodesExist ==
  ASSUME NEW m, GoodMap(m)
  PROVE  \E f : IsNodes(m, f)
<1> DEFINE Reached == {d \in 0 .. KeyLen + 1 : \E g : Partial(m, d, g)}
<1>1. KeyLen \in Nat
  BY KeyLenAssumption
<1>2. Deep(KeyLen + 1) = {} /\ Deep(0) = Stems
  BY <1>1, StemFacts DEF Deep
<1>3. KeyLen + 1 \in Reached
  <2> DEFINE g == [p \in Deep(KeyLen + 1) |-> 0]
             N(q) == NodeAt(m, g, q)
  <2>1. g = [p \in Deep(KeyLen + 1) |-> N(p)]
    <3> HIDE DEF N
    <3> QED BY <1>2
  <2>2. Partial(m, KeyLen + 1, g)
    BY <2>1 DEF Partial
  <2> HIDE DEF g
  <2> QED BY <1>1, <2>2
<1>4. Reached \in SUBSET Nat /\ Reached # {}
  BY <1>3
<1>5. \A d \in Nat : d + 1 \in Reached => d \in Reached
  <2> SUFFICES ASSUME NEW d \in Nat, d + 1 \in Reached
               PROVE  d \in Reached
    OBVIOUS
  <2>1. PICK g : Partial(m, d + 1, g)
    OBVIOUS
  <2>2. \E h : Partial(m, d, h)
    BY <2>1, OneLevelUp
  <2> QED BY <1>1, <2>2
<1> HIDE DEF Reached
<1>6. PICK x \in Reached : \A y \in Reached : x <= y
  BY <1>4, LeastExists
<1>7. x = 0
  <2> SUFFICES ASSUME x # 0
               PROVE  FALSE
    OBVIOUS
  <2>1. x - 1 \in Nat /\ (x - 1) + 1 = x
    BY <1>4
  <2>2. x - 1 \in Reached
    BY <1>5, <2>1
  <2> QED BY <1>4, <1>6, <2>2
<1>8. PICK f : Partial(m, 0, f)
  BY <1>6, <1>7 DEF Reached
<1> QED BY <1>2, <1>8 DEF Partial, IsNodes

\* The root node of a trie is the node of the empty stem.
LEMMA RootNode ==
  ASSUME NEW m, GoodMap(m)
  PROVE  \E f : IsNodes(m, f) /\ encode_node(m) = f[<<>>]
<1> DEFINE f == CHOOSE g : g = [p \in Stems |-> NodeAt(m, g, p)]
<1>1. \E g : g = [p \in Stems |-> NodeAt(m, g, p)]
  BY NodesExist DEF IsNodes
<1>2. f = [p \in Stems |-> NodeAt(m, f, p)]
  BY <1>1
<1>3. encode_node(m) = f[<<>>]
  BY DEF encode_node
<1> HIDE DEF f
<1> QED BY <1>2, <1>3 DEF IsNodes


-----------------------------------------------------------------------------
(* Walking a proof. *)

\* A part of a sequence, element by element.
LEMMA Part ==
  ASSUME NEW S, NEW s, NEW a \in Nat, NEW b \in Nat, a <= b, \A i \in 1 .. b : s[i] \in S,
         NEW t, t = SubSeq(s, a + 1, b)
  PROVE  t \in Seq(S) /\ Len(t) = b - a /\ \A i \in 1 .. b - a : t[i] = s[a + i]
<1> DEFINE u == SubSeq(s, a + 1, b)
<1>1. /\ u \in Seq(S) /\ Len(u) = IF a + 1 <= b THEN b - (a + 1) + 1 ELSE 0
      /\ \A i \in 1 .. b - (a + 1) + 1 : u[i] = s[a + 1 + i - 1]
  <2>1. a + 1 \in Int /\ b \in Int /\ \A i \in a + 1 .. b : s[i] \in S
    OBVIOUS
  <2> QED BY ONLY <2>1, SubSeqProperties
<1> HIDE DEF u
<1>2. Len(u) = b - a /\ \A i \in 1 .. b - a : u[i] = s[a + i]
  <2>1. b - (a + 1) + 1 = b - a /\ \A i \in 1 .. b - a : a + 1 + i - 1 = a + i
    OBVIOUS
  <2>2. Len(u) = b - a
    BY ONLY <1>1, a \in Nat, b \in Nat, a <= b
  <2> QED BY ONLY <1>1, <2>1, <2>2
<1> QED BY <1>1, <1>2 DEF u

\* What is left of a key after its stem p, and of a stem s after p.
Left(key, p) == SubSeq(key, Len(p) + 1, KeyLen)

Between(p, s) == SubSeq(s, Len(p) + 1, Len(s))

LEMMA OnFrom ==
  ASSUME NEW key \in Keys, NEW p \in Stems, IsPrefix(p, key), NEW s \in Stems, Len(p) <= Len(s),
         \A i \in 1 .. Len(p) : s[i] = p[i]
  PROVE  /\ IsPrefix(Between(p, s), Left(key, p)) <=> IsPrefix(s, key)
         /\ SubSeq(Left(key, p), Len(Between(p, s)) + 1, Len(Left(key, p))) = Left(key, s)
<1> DEFINE path == Between(p, s)
           rest == Left(key, p)
<1> DEFINE a == Len(p)
           b == Len(s)
<1>1. a \in Nat /\ b \in Nat /\ KeyLen \in Nat /\ a <= b /\ b <= KeyLen
  BY StemFacts, KeyLenAssumption
<1>2. (\A i \in 1 .. b : s[i] \in Nibbles) /\ \A i \in 1 .. KeyLen : key[i] \in Nibbles
  BY StemFacts, KeyFacts, LenProperties
<1> HIDE DEF a, b
<1>3. path = SubSeq(s, a + 1, b) /\ rest = SubSeq(key, a + 1, KeyLen)
  BY DEF a, b, Between, Left
<1> HIDE DEF path, rest
<1>5. path \in Seq(Nibbles) /\ Len(path) = b - a /\ \A i \in 1 .. b - a : path[i] = s[a + i]
  BY ONLY <1>1, <1>2, <1>3, Part
<1>6. rest \in Seq(Nibbles) /\ Len(rest) = KeyLen - a /\ \A i \in 1 .. KeyLen - a : rest[i] = key[a + i]
  <2>1. a <= KeyLen
    BY ONLY <1>1
  <2> QED BY ONLY <1>1, <1>2, <1>3, <2>1, Part
<1>7. IsPrefix(path, rest) <=> \A i \in 1 .. b - a : path[i] = rest[i]
  <2>1. b - a <= KeyLen - a
    BY ONLY <1>1
  <2>2. IsPrefix(path, rest) <=> Len(path) <= Len(rest) /\ \A i \in 1 .. Len(path) : path[i] = rest[i]
    BY ONLY <1>5, <1>6, PrefixIs
  <2> QED BY ONLY <1>5, <1>6, <2>1, <2>2
<1>8. IsPrefix(path, rest) <=> \A i \in 1 .. b - a : s[a + i] = key[a + i]
  <2>1. \A i \in 1 .. b - a : i \in 1 .. KeyLen - a
    BY <1>1
  <2> QED BY <1>5, <1>6, <1>7, <2>1
<1>9. \A i \in 1 .. a : s[i] = key[i]
  BY Under DEF a
<1>10. IsPrefix(s, key) <=> \A i \in 1 .. b : s[i] = key[i]
  BY Under DEF b
<1>11. (\A i \in 1 .. b - a : s[a + i] = key[a + i]) <=> \A i \in 1 .. b : s[i] = key[i]
  <2>1. ASSUME \A i \in 1 .. b - a : s[a + i] = key[a + i], NEW i \in 1 .. b
        PROVE  s[i] = key[i]
    <3>1. CASE i <= a
      BY <1>1, <1>9, <3>1
    <3>2. CASE i > a
      <4>1. i - a \in 1 .. b - a /\ a + (i - a) = i
        BY <1>1, <3>2
      <4> QED BY <2>1, <4>1
    <3> QED BY <1>1, <3>1, <3>2
  <2>2. \A i \in 1 .. b - a : a + i \in 1 .. b
    BY <1>1
  <2> QED BY <2>1, <2>2
<1> DEFINE u == SubSeq(rest, Len(path) + 1, Len(rest))
           v == SubSeq(key, b + 1, KeyLen)
<1>12. u \in Seq(Nibbles) /\ Len(u) = KeyLen - b /\ \A i \in 1 .. KeyLen - b : u[i] = rest[b - a + i]
  <2>1. \A i \in 1 .. KeyLen - a : rest[i] \in Nibbles
    BY ONLY <1>6, LenProperties
  <2> DEFINE c == b - a
             d == KeyLen - a
  <2>2. c \in Nat /\ d \in Nat /\ c <= d
    BY ONLY <1>1
  <2>5. d - c = KeyLen - b
    BY ONLY <1>1
  <2>3. u = SubSeq(rest, c + 1, d) /\ \A i \in 1 .. d : rest[i] \in Nibbles
    BY <1>5, <1>6, <2>1
  <2> HIDE DEF u, c, d
  <2>4. u \in Seq(Nibbles) /\ Len(u) = d - c /\ \A i \in 1 .. d - c : u[i] = rest[c + i]
    <3>1. \A t : t = SubSeq(rest, c + 1, d) => t \in Seq(Nibbles) /\ Len(t) = d - c /\ \A i \in 1 .. d - c : t[i] = rest[c + i]
      BY ONLY <2>2, <2>3, Part
    <3> QED BY ONLY <2>3, <3>1, Zenon
  <2> QED BY <2>4, <2>5 DEF c
<1>13. v \in Seq(Nibbles) /\ Len(v) = KeyLen - b /\ \A i \in 1 .. KeyLen - b : v[i] = key[b + i]
  <2>1. v = SubSeq(key, b + 1, KeyLen)
    OBVIOUS
  <2> HIDE DEF v
  <2> QED BY ONLY <1>1, <1>2, <2>1, Part
<1> HIDE DEF u, v
<1>15. \A i \in 1 .. KeyLen - b : u[i] = v[i]
  <2> SUFFICES ASSUME NEW i \in 1 .. KeyLen - b
               PROVE  u[i] = v[i]
    OBVIOUS
  <2>1. b - a + i \in 1 .. KeyLen - a /\ a + (b - a + i) = b + i
    BY ONLY <1>1, i \in 1 .. KeyLen - b
  <2>3. u[i] = rest[b - a + i] /\ v[i] = key[b + i]
    BY <1>12, <1>13
  <2>4. rest[b - a + i] = key[a + (b - a + i)]
    BY ONLY <1>6, <2>1
  <2> QED BY ONLY <2>1, <2>3, <2>4
<1>16. u = v
  <2>1. Len(u) = Len(v) /\ \A i \in 1 .. Len(u) : u[i] = v[i]
    BY ONLY <1>12, <1>13, <1>15
  <2> QED BY ONLY <1>12, <1>13, <2>1, SeqEqual
<1> QED BY <1>8, <1>10, <1>11, <1>16 DEF u, v, b, path, rest, Left

LEMMA StemTypes ==
  ASSUME NEW p \in Stems
  PROVE  p \in Seq(Nibbles) /\ Len(p) \in Nat /\ Len(p) <= KeyLen /\ KeyLen \in Nat
BY StemFacts, KeyLenAssumption

LEMMA KeyTypes ==
  ASSUME NEW k \in Keys
  PROVE  /\ k \in Stems /\ k \in Seq(Nibbles) /\ Len(k) = KeyLen /\ KeyLen \in Nat
         /\ IsPrefix(k, k) /\ \A i \in 1 .. KeyLen : k[i] \in Nibbles
<1>1. k \in Seq(Nibbles) /\ Len(k) = KeyLen /\ KeyLen \in Nat
  BY KeyFacts, KeyLenAssumption
<1>2. k \in Stems
  BY <1>1, StemFacts
<1>3. IsPrefix(k, k)
  BY <1>1, PrefixIs
<1> QED BY <1>1, <1>2, <1>3, LenProperties

\* p has n nibbles at least.
Down(p, n) == Len(p) >= n

WalkFields == {"item", "nibbles", "rest", "end", "vals"}

\* A reference to the node of p, or to nothing when no key is under p.
Refers(m, f, p, item) ==
  \/ item.ref = "empty" /\ KeysUnder(m, p) = {}
  \/ item.ref \in {"hash", "inline"} /\ item.node = f[p] /\ KeysUnder(m, p) # {}

\* After n steps a walk has gone down n nibbles of the key at least, or has ended with what the
\* map holds of the key, or with an error.
WalkSound(m, f, key, n, w) ==
  /\ DOMAIN w = WalkFields /\ w.end \in {"", "found", "absent", "bad"}
  /\ w.end = "" => \E p \in Stems : /\ Down(p, n) /\ IsPrefix(p, key)
                                    /\ w.nibbles = Left(key, p)
                                    /\ Refers(m, f, p, w.item)
  /\ w.end = "found" => key \in DOMAIN m /\ w.vals = <<m[key]>>
  /\ w.end = "absent" => key \notin DOMAIN m

LEMMA EndedSound ==
  ASSUME NEW m, NEW f, NEW key, NEW n, NEW w, DOMAIN w = WalkFields
  PROVE  /\ WalkSound(m, f, key, n, Ended(w, "bad", <<>>))
         /\ key \notin DOMAIN m => WalkSound(m, f, key, n, Excluded(w))
         /\ key \in DOMAIN m => WalkSound(m, f, key, n, Ended(w, "found", <<m[key]>>))
<1>1. ASSUME NEW how, NEW vals
      PROVE  DOMAIN Ended(w, how, vals) = WalkFields /\ Ended(w, how, vals).end = how /\ Ended(w, how, vals).vals = vals
  BY DEF Ended, WalkFields
<1> DEFINE bad == Ended(w, "bad", <<>>)
           gone == Ended(w, "absent", <<>>)
           found == Ended(w, "found", <<m[key]>>)
<1>5. DOMAIN bad = WalkFields /\ bad.end = "bad"
  BY <1>1
<1>6. DOMAIN gone = WalkFields /\ gone.end = "absent"
  BY <1>1
<1>7. DOMAIN found = WalkFields /\ found.end = "found" /\ found.vals = <<m[key]>>
  BY <1>1
<1> HIDE DEF bad, gone, found
<1>2. WalkSound(m, f, key, n, bad)
  BY <1>5 DEF WalkSound
<1>3. key \notin DOMAIN m => WalkSound(m, f, key, n, gone)
  BY <1>6 DEF WalkSound
<1>4. key \in DOMAIN m => WalkSound(m, f, key, n, found)
  BY <1>7 DEF WalkSound
<1> QED BY <1>2, <1>3, <1>4 DEF Excluded, bad, gone, found


\* A step that goes on from stem p to stem q.
LEMMA GoesOn ==
  ASSUME NEW m, NEW f, NEW key, NEW n \in Nat, NEW w, DOMAIN w = WalkFields, w.end = "",
         NEW q \in Stems, Down(q, n), IsPrefix(q, key), NEW item, Refers(m, f, q, item)
  PROVE  WalkSound(m, f, key, n, [w EXCEPT !.item = item, !.nibbles = Left(key, q)])
<1> DEFINE v == [w EXCEPT !.item = item, !.nibbles = Left(key, q)]
<1>1. DOMAIN v = WalkFields /\ v.end = "" /\ v.item = item /\ v.nibbles = Left(key, q)
  BY DEF WalkFields
<1> HIDE DEF v
<1>2. WalkSound(m, f, key, n, v)
  BY <1>1 DEF WalkSound
<1> QED BY <1>2 DEF v

\* A child reference is to the child.
LEMMA ChildRefers ==
  ASSUME NEW m, NEW f, NEW q, KeysUnder(m, q) # {}
  PROVE  Refers(m, f, q, child_ref(f[q])) /\ Refers(m, f, q, Hashed(f[q]))
BY DEF Refers, child_ref, Hashed

LEMMA NothingRefers ==
  ASSUME NEW m, NEW f, NEW q, KeysUnder(m, q) = {}
  PROVE  Refers(m, f, q, EMPTY_TRIE_ROOT)
BY DEF Refers, EMPTY_TRIE_ROOT

\* What walk_items makes of each shape of node.
LEMMA ItemsWalked ==
  ASSUME NEW w, NEW node
  PROVE  /\ node.kind = "branch" =>
              walk_items(w, node) = [w EXCEPT !.item = node.kids[Head(w.nibbles)], !.nibbles = Tail(@)]
         /\ node.kind # "branch" /\ ~IsPrefix(node.path, w.nibbles) => walk_items(w, node) = Excluded(w)
         /\ node.kind = "leaf" /\ IsPrefix(node.path, w.nibbles) =>
              walk_items(w, node) = IF Len(node.path) = Len(w.nibbles) /\ w.rest = <<>>
                                    THEN Ended(w, "found", <<node.val>>) ELSE Ended(w, "bad", <<>>)
         /\ node.kind = "ext" /\ IsPrefix(node.path, w.nibbles) =>
              walk_items(w, node) = [w EXCEPT !.item = node.child, !.nibbles = SubSeq(@, Len(node.path) + 1, Len(@))]
BY DEF walk_items

\* The walk w goes on at p.
At(w, key, p) == DOMAIN w = WalkFields /\ w.end = "" /\ w.nibbles = Left(key, p)

\* A walk that stands at the node of p: one more node, one more nibble at least.
LEMMA WalkNode ==
  ASSUME NEW m, GoodMap(m), NEW f, IsNodes(m, f), NEW key \in Keys, NEW n \in Nat,
         NEW p \in Stems, Down(p, n), IsPrefix(p, key), KeysUnder(m, p) # {},
         NEW w, At(w, key, p)
  PROVE  WalkSound(m, f, key, n + 1, walk_items(w, f[p]))
<1> DEFINE keys == KeysUnder(m, p)
           shared == LongestCommonPrefix(keys)
           node == f[p]
           rest == w.nibbles
<1>1. Shaped(m, f, p, node)
  <2> DEFINE N(q) == NodeAt(m, f, q)
  <2>1. f = [q \in Stems |-> N(q)]
    BY DEF IsNodes
  <2> HIDE DEF N
  <2>2. f[p] = N(p)
    BY <2>1
  <2> QED BY <2>2, NodeShape DEF N
<1>2. Len(p) \in Nat /\ Len(p) <= KeyLen /\ KeyLen \in Nat /\ p \in Seq(Nibbles)
      /\ key \in Seq(Nibbles) /\ Len(key) = KeyLen
  BY StemTypes, KeyTypes
<1>9. n + 1 \in Nat
  OBVIOUS
<1>10. DOMAIN w = WalkFields /\ w.end = ""
  BY DEF At
<1>3. key \in DOMAIN m <=> key \in keys
  BY DEF KeysUnder
<1>4. keys \subseteq Keys /\ keys \subseteq DOMAIN m /\ \A k \in keys : IsPrefix(p, k)
  BY DEF KeysUnder, GoodMap
<1> HIDE DEF node
<1>5. ASSUME NEW k \in Keys, keys = {k}, node = Leaf(SubSeq(k, Len(p) + 1, KeyLen), m[k])
      PROVE  WalkSound(m, f, key, n + 1, walk_items(w, node))
  <2>1. k \in Stems /\ Len(k) = KeyLen
    BY KeyTypes
  <2>2. \A i \in 1 .. Len(p) : k[i] = p[i]
    BY <1>4, <1>5, Under
  <2>3. node.kind = "leaf" /\ node.path = SubSeq(k, Len(p) + 1, KeyLen) /\ node.val = m[k]
    BY <1>5 DEF Leaf
  <2>4. IsPrefix(node.path, rest) <=> IsPrefix(k, key)
    <3>1. node.path = Between(p, k) /\ Len(p) <= Len(k)
      BY <1>2, <2>1, <2>3 DEF Between
    <3>2. rest = Left(key, p)
      BY DEF At
    <3>3. IsPrefix(Between(p, k), Left(key, p)) <=> IsPrefix(k, key)
      BY ONLY key \in Keys, p \in Stems, IsPrefix(p, key), <2>1, <2>2, <3>1, OnFrom
    <3> QED BY ONLY <3>1, <3>2, <3>3, Zenon
  <2>5. IsPrefix(k, key) <=> k = key
    <3>1. IsPrefix(k, key) => k = key
      BY <2>1, WholeKey
    <3>2. IsPrefix(key, key)
      BY KeyTypes
    <3> QED BY <3>1, <3>2
  <2>6. CASE k = key
    <3>1. key \in DOMAIN m /\ node.val = m[key]
      BY <1>3, <1>5, <2>3, <2>6
    <3>2. \/ walk_items(w, node) = Ended(w, "found", <<node.val>>)
          \/ walk_items(w, node) = Ended(w, "bad", <<>>)
      BY <2>3, <2>4, <2>5, <2>6, ItemsWalked
    <3> QED BY <1>10, <3>1, <3>2, EndedSound
  <2>7. CASE k # key
    <3>1. key \notin DOMAIN m
      BY <1>3, <1>5, <2>7
    <3>2. walk_items(w, node) = Excluded(w)
      BY <2>3, <2>4, <2>5, <2>7, ItemsWalked
    <3> QED BY <1>10, <3>1, <3>2, EndedSound
  <2> QED BY <2>6, <2>7
<1>6. ASSUME shared \in Stems, Len(shared) > Len(p), \A k \in keys : IsPrefix(shared, k),
             node = [kind |-> "ext", path |-> SubSeq(shared, Len(p) + 1, Len(shared)), child |-> child_ref(f[shared])]
      PROVE  WalkSound(m, f, key, n + 1, walk_items(w, node))
  <2> DEFINE path == node.path
  <2> HIDE DEF keys, shared
  <2>1. Len(shared) \in Nat /\ Len(p) <= Len(shared) /\ Down(shared, n + 1)
    <3>1. Len(shared) \in Nat
      BY <1>6, StemTypes
    <3> QED BY <1>2, <1>6, <3>1 DEF Down
  <2>2. \A i \in 1 .. Len(p) : shared[i] = p[i]
    <3>1. PICK k \in keys : TRUE
      BY DEF keys
    <3>2. (\A i \in 1 .. Len(shared) : shared[i] = k[i]) /\ \A i \in 1 .. Len(p) : p[i] = k[i]
      BY <1>4, <1>6, Under
    <3> QED BY <1>2, <2>1, <3>2
  <2>3. node.kind = "ext" /\ path = SubSeq(shared, Len(p) + 1, Len(shared)) /\ node.child = child_ref(f[shared])
    BY <1>6
  <2> HIDE DEF path, rest
  <2>4. /\ IsPrefix(path, rest) <=> IsPrefix(shared, key)
        /\ SubSeq(rest, Len(path) + 1, Len(rest)) = Left(key, shared)
    <3>1. rest = Left(key, p) /\ path = Between(p, shared)
      BY <2>3 DEF rest, At, Between
    <3>2. /\ IsPrefix(Between(p, shared), Left(key, p)) <=> IsPrefix(shared, key)
          /\ SubSeq(Left(key, p), Len(Between(p, shared)) + 1, Len(Left(key, p))) = Left(key, shared)
      BY ONLY key \in Keys, p \in Stems, IsPrefix(p, key), <1>6, <2>1, <2>2, OnFrom
    <3> QED BY ONLY <3>1, <3>2, Zenon
  <2>5. CASE IsPrefix(shared, key)
    <3>1. walk_items(w, node)
          = [w EXCEPT !.item = node.child, !.nibbles = Left(key, shared)]
      <4>1. walk_items(w, node) = [w EXCEPT !.item = node.child, !.nibbles = SubSeq(@, Len(node.path) + 1, Len(@))]
        BY <2>3, <2>4, <2>5, ItemsWalked DEF path, rest
      <4>2. SubSeq(w.nibbles, Len(node.path) + 1, Len(w.nibbles)) = Left(key, shared)
        BY <2>4 DEF path, rest
      <4> QED BY ONLY <4>1, <4>2, Zenon
    <3>2. KeysUnder(m, shared) # {}
      <4>1. PICK k \in keys : TRUE
        BY DEF keys
      <4>2. k \in DOMAIN m /\ IsPrefix(shared, k)
        BY <1>4, <1>6
      <4> QED BY <4>2 DEF KeysUnder
    <3>3. Refers(m, f, shared, node.child)
      BY <2>3, <3>2, ChildRefers
    <3>4. WalkSound(m, f, key, n + 1, [w EXCEPT !.item = node.child, !.nibbles = Left(key, shared)])
      BY ONLY <1>9, <1>10, <1>6, <2>1, <2>5, <3>3, GoesOn
    <3> QED BY ONLY <3>1, <3>4, Zenon
  <2>6. CASE ~IsPrefix(shared, key)
    <3>1. key \notin DOMAIN m
      BY <1>3, <1>6, <2>6
    <3>2. walk_items(w, node) = Excluded(w)
      BY <2>3, <2>4, <2>6, ItemsWalked DEF path, rest
    <3> QED BY <1>10, <3>1, <3>2, EndedSound
  <2> QED BY <2>5, <2>6
<1>7. ASSUME Len(p) < KeyLen,
             node = [kind |-> "branch",
                     kids |-> [x \in Nibbles |-> IF \E k \in keys : k[Len(p) + 1] = x
                                                 THEN child_ref(f[Append(p, x)]) ELSE EMPTY_TRIE_ROOT]]
      PROVE  WalkSound(m, f, key, n + 1, walk_items(w, node))
  <2> DEFINE x == key[Len(p) + 1]
             q == Append(p, x)
  <2>1. x \in Nibbles
    BY <1>2, <1>7, KeyTypes
  <2>2. Head(rest) = x /\ Tail(rest) = SubSeq(key, Len(p) + 1 + 1, KeyLen)
    <3> DEFINE i == Len(p) + 1
    <3>1. i \in 1 .. Len(key) /\ KeyLen \in i .. Len(key)
      BY <1>2, <1>7
    <3>2. rest = SubSeq(key, i, KeyLen)
      BY DEF Left, At
    <3> HIDE DEF i, rest
    <3>3. Head(rest) = key[i] /\ Tail(rest) = SubSeq(key, i + 1, KeyLen)
      BY ONLY <1>2, <3>1, <3>2, HeadTailOfSubSeq
    <3> QED BY <3>3 DEF i
  <2>3. /\ q \in Stems /\ Len(q) = Len(p) + 1
        /\ \A k \in Keys : IsPrefix(q, k) <=> IsPrefix(p, k) /\ k[Len(p) + 1] = x
    <3> HIDE DEF x
    <3> QED BY <1>7, <2>1, Grown
  <2>4. node.kind = "branch"
        /\ node.kids[x] = IF \E k \in keys : k[Len(p) + 1] = x THEN child_ref(f[q]) ELSE EMPTY_TRIE_ROOT
    <3> HIDE DEF x, keys
    <3> QED BY <1>7, <2>1
  <2> HIDE DEF x, q
  <2>5. IsPrefix(q, key) /\ Down(q, n + 1)
    BY <1>2, <2>3 DEF x, Down
  <2>6. Refers(m, f, q, node.kids[x])
    <3>1. KeysUnder(m, q) = {k \in keys : k[Len(p) + 1] = x}
      BY <2>3 DEF KeysUnder, GoodMap
    <3>2. CASE \E k \in keys : k[Len(p) + 1] = x
      <4>1. KeysUnder(m, q) # {}
        BY <3>1, <3>2
      <4>2. node.kids[x] = child_ref(f[q])
        BY <2>4, <3>2
      <4> QED BY <4>1, <4>2, ChildRefers
    <3>3. CASE ~\E k \in keys : k[Len(p) + 1] = x
      <4>1. KeysUnder(m, q) = {}
        BY <3>1, <3>3
      <4>2. node.kids[x] = EMPTY_TRIE_ROOT
        BY <2>4, <3>3
      <4> QED BY <4>1, <4>2, NothingRefers
    <3> QED BY <3>2, <3>3
  <2>7. walk_items(w, node) = [w EXCEPT !.item = node.kids[x], !.nibbles = Left(key, q)]
    <3>1. walk_items(w, node) = [w EXCEPT !.item = node.kids[Head(w.nibbles)], !.nibbles = Tail(@)]
      BY <2>4, ItemsWalked
    <3>2. Head(w.nibbles) = x /\ Tail(w.nibbles) = Left(key, q)
      BY <2>2, <2>3 DEF Left
    <3> QED BY ONLY <3>1, <3>2, Zenon
  <2>8. WalkSound(m, f, key, n + 1, [w EXCEPT !.item = node.kids[x], !.nibbles = Left(key, q)])
    BY ONLY <1>9, <1>10, <2>3, <2>5, <2>6, GoesOn
  <2> QED BY ONLY <2>7, <2>8, Zenon
<1>8. WalkSound(m, f, key, n + 1, walk_items(w, node))
  BY <1>1, <1>5, <1>6, <1>7 DEF Shaped
<1> QED BY <1>8 DEF node


\* g holds the first N steps of a walk from w0.
IsWalk(g, N, w0) == g = [n \in 0 .. N |-> IF n = 0 THEN w0 ELSE follow_child(g[n - 1])]

LEMMA WalkExists ==
  ASSUME NEW w0, NEW N \in Nat
  PROVE  \E g : IsWalk(g, N, w0)
<1> DEFINE Short0 == {n \in Nat : ~\E g : IsWalk(g, n, w0)}
           F(v, n) == follow_child(v)
<1> SUFFICES ASSUME N \in Short0
             PROVE  FALSE
  OBVIOUS
<1>1. \A g, n : IsWalk(g, n, w0) <=> g = [i \in 0 .. n |-> IF i = 0 THEN w0 ELSE F(g[i - 1], i)]
  BY DEF IsWalk
<1> HIDE DEF F
<1>2. PICK x \in Short0 : \A y \in Short0 : x <= y
  <2>1. Short0 \in SUBSET Nat /\ Short0 # {}
    OBVIOUS
  <2> HIDE DEF Short0
  <2> QED BY <2>1, LeastExists
<1>3. x \in Nat /\ ~\E g : IsWalk(g, x, w0)
  BY <1>2
<1>4. x # 0
  <2> DEFINE g == [i \in 0 .. 0 |-> w0]
  <2>1. g = [i \in 0 .. 0 |-> IF i = 0 THEN w0 ELSE F(g[i - 1], i)]
    OBVIOUS
  <2> HIDE DEF g
  <2>2. IsWalk(g, 0, w0)
    BY <1>1, <2>1
  <2> QED BY <1>3, <2>2
<1>5. x - 1 \in Nat /\ x - 1 \notin Short0
  <2>1. x - 1 \in Nat /\ ~(x <= x - 1)
    BY <1>3, <1>4
  <2> HIDE DEF Short0
  <2> QED BY <1>2, <2>1
<1>6. PICK g : IsWalk(g, x - 1, w0)
  BY <1>5
<1>7. g = [i \in 0 .. x - 1 |-> IF i = 0 THEN w0 ELSE F(g[i - 1], i)]
  BY <1>1, <1>6
<1>8. \A i \in 0 .. x - 1 : g[i] = IF i = 0 THEN w0 ELSE F(g[i - 1], i)
  BY <1>7
<1> DEFINE h == [i \in 0 .. x |-> IF i = x THEN F(g[x - 1], x) ELSE g[i]]
<1>9. \A i \in 0 .. x : h[i] = IF i = 0 THEN w0 ELSE F(h[i - 1], i)
  <2> SUFFICES ASSUME NEW i \in 0 .. x
               PROVE  h[i] = IF i = 0 THEN w0 ELSE F(h[i - 1], i)
    OBVIOUS
  <2>1. CASE i = x
    <3>1. x - 1 \in 0 .. x /\ x - 1 # x
      BY <1>3, <1>4
    <3> QED BY <1>4, <2>1, <3>1
  <2>2. CASE i # x
    <3>1. i \in 0 .. x - 1 /\ (i # 0 => i - 1 \in 0 .. x /\ i - 1 # x)
      BY <1>3, <2>2
    <3> QED BY <1>8, <2>2, <3>1
  <2> QED BY <2>1, <2>2
<1>10. h = [i \in 0 .. x |-> IF i = 0 THEN w0 ELSE F(h[i - 1], i)]
  <2>1. DOMAIN h = 0 .. x /\ h = [i \in DOMAIN h |-> h[i]]
    OBVIOUS
  <2> HIDE DEF h
  <2> QED BY <1>9, <2>1
<1> HIDE DEF h
<1>11. IsWalk(h, x, w0)
  BY <1>1, <1>10
<1> QED BY <1>3, <1>11

LEMMA FollowSound ==
  ASSUME NEW m, GoodMap(m), NEW f, IsNodes(m, f), NEW key \in Keys, NEW n \in Nat,
         NEW w, WalkSound(m, f, key, n, w)
  PROVE  WalkSound(m, f, key, n + 1, follow_child(w))
<1>1. DOMAIN w = WalkFields
  BY DEF WalkSound
<1>2. CASE w.end # ""
  <2>1. follow_child(w) = w
    BY <1>2 DEF follow_child
  <2>2. WalkSound(m, f, key, n + 1, w)
    BY <1>2 DEF WalkSound
  <2> QED BY <2>1, <2>2
<1>3. CASE w.end = ""
  <2>1. PICK p \in Stems : Down(p, n) /\ IsPrefix(p, key) /\ w.nibbles = Left(key, p) /\ Refers(m, f, p, w.item)
    BY <1>3 DEF WalkSound
  <2>2. At(w, key, p)
    BY <1>1, <1>3, <2>1 DEF At
  <2>3. CASE w.item.ref = "empty"
    <3>1. follow_child(w) = Excluded(w)
      BY <1>3, <2>3 DEF follow_child
    <3>2. KeysUnder(m, p) = {}
      BY <2>1, <2>3 DEF Refers
    <3>3. key \notin DOMAIN m
      BY <2>1, <3>2 DEF KeysUnder
    <3> QED BY <1>1, <3>1, <3>3, EndedSound
  <2>4. CASE w.item.ref = "inline"
    <3>1. follow_child(w) = walk_items(w, w.item.node)
      BY <1>3, <2>4 DEF follow_child
    <3>2. KeysUnder(m, p) # {} /\ w.item.node = f[p]
      BY <2>1, <2>4 DEF Refers
    <3>3. WalkSound(m, f, key, n + 1, walk_items(w, f[p]))
      BY <2>1, <2>2, <3>2, WalkNode
    <3> QED BY ONLY <3>1, <3>2, <3>3, Zenon
  <2>5. CASE w.item.ref = "hash"
    <3>1. follow_child(w) = consume_hashed(w)
      BY <1>3, <2>5 DEF follow_child
    <3>2. KeysUnder(m, p) # {} /\ w.item.node = f[p]
      BY <2>1, <2>5 DEF Refers
    <3> DEFINE v == [w EXCEPT !.rest = Tail(@)]
    <3>3. DOMAIN v = WalkFields /\ v.end = w.end /\ v.nibbles = w.nibbles
      BY <1>1 DEF WalkFields
    <3>4. \/ consume_hashed(w) = Ended(w, "bad", <<>>)
          \/ Head(w.rest) = w.item.node /\ consume_hashed(w) = walk_items(v, Head(w.rest))
      BY DEF consume_hashed
    <3> HIDE DEF v
    <3>5. At(v, key, p)
      BY <1>3, <2>1, <3>3 DEF At
    <3>6. WalkSound(m, f, key, n + 1, walk_items(v, f[p]))
      BY <2>1, <3>2, <3>5, WalkNode
    <3>7. CASE consume_hashed(w) = Ended(w, "bad", <<>>)
      BY <1>1, <3>1, <3>7, EndedSound
    <3>8. CASE Head(w.rest) = w.item.node /\ consume_hashed(w) = walk_items(v, Head(w.rest))
      BY ONLY <3>1, <3>2, <3>6, <3>8, Zenon
    <3> QED BY <3>4, <3>7, <3>8
  <2>6. w.item.ref \in {"empty", "inline", "hash"}
    BY <2>1 DEF Refers
  <2> QED BY <2>3, <2>4, <2>5, <2>6
<1> QED BY <1>2, <1>3

LEMMA EmptyStem == <<>> \in Stems /\ Len(<<>>) = 0
<1> DEFINE e == <<>>
<1>1. e \in Seq(Nibbles) /\ Len(e) = 0
  OBVIOUS
<1> HIDE DEF e
<1>2. 0 \in 0 .. KeyLen
  BY KeyLenAssumption
<1>3. e \in Seq(Nibbles) /\ Len(e) \in 0 .. KeyLen
  BY ONLY <1>1, <1>2
<1>4. e \in Stems
  BY ONLY <1>3, StemFacts
<1> QED BY <1>1, <1>4 DEF e

\* A walk from the root stands at the empty stem.
LEMMA RootRefers ==
  ASSUME NEW m, GoodMap(m)
  PROVE  \E f : IsNodes(m, f) /\ Refers(m, f, <<>>, TrieRoot(m))
<1>1. PICK f : IsNodes(m, f) /\ encode_node(m) = f[<<>>]
  BY RootNode
<1>2. KeysUnder(m, <<>>) = DOMAIN m
  <2>2. \A k \in Keys : IsPrefix(<<>>, k)
    <3> DEFINE e == <<>>
    <3>1. e \in Stems /\ Len(e) = 0
      BY EmptyStem
    <3> HIDE DEF e
    <3>2. \A k \in Keys : IsPrefix(e, k)
      BY <3>1, Under
    <3> QED BY <3>2 DEF e
  <2> QED BY <2>2 DEF KeysUnder, GoodMap
<1>3. CASE DOMAIN m = {}
  <2>1. TrieRoot(m) = EMPTY_TRIE_ROOT
    BY <1>3 DEF TrieRoot
  <2> QED BY <1>1, <1>2, <1>3, <2>1, NothingRefers
<1>4. CASE DOMAIN m # {}
  <2>1. TrieRoot(m) = Hashed(f[<<>>])
    BY <1>1, <1>4 DEF TrieRoot
  <2> QED BY <1>1, <1>2, <1>4, <2>1, ChildRefers
<1> QED BY <1>3, <1>4

\* How a walk stands before its first step.
FirstEnd(proof) == IF proof = <<>> THEN "bad" ELSE ""

\* The steps of a walk from the root, each of them sound.
LEMMA WalkHolds ==
  ASSUME NEW m, GoodMap(m), NEW f, IsNodes(m, f), Refers(m, f, <<>>, TrieRoot(m)), NEW key \in Keys, NEW proof
  PROVE  \E g : /\ verify_trie_proof(TrieRoot(m), key, proof) = g[KeyLen + 1]
                /\ g[0] = [item |-> TrieRoot(m), nibbles |-> key, rest |-> proof, end |-> FirstEnd(proof), vals |-> <<>>]
                /\ \A n \in 1 .. KeyLen + 1 : g[n] = follow_child(g[n - 1])
                /\ \A n \in 0 .. KeyLen + 1 : WalkSound(m, f, key, n, g[n])
<1> DEFINE e0 == FirstEnd(proof)
           w0 == [item |-> TrieRoot(m), nibbles |-> key, rest |-> proof, end |-> e0, vals |-> <<>>]
           N == KeyLen + 1
           g == CHOOSE h : h = [n \in 0 .. KeyLen + 1 |-> IF n = 0 THEN w0 ELSE follow_child(h[n - 1])]
           w == verify_trie_proof(TrieRoot(m), key, proof)
<1>1. N \in Nat /\ KeyLen \in Nat
  BY KeyLenAssumption
<1>2. w = g[N]
  BY DEF verify_trie_proof, FirstEnd
<1>2a. e0 \in {"", "bad"}
  BY DEF FirstEnd
<1> HIDE DEF e0
<1>3. DOMAIN w0 = WalkFields /\ w0.end = e0 /\ w0.nibbles = key /\ w0.item = TrieRoot(m)
  BY DEF WalkFields
<1> HIDE DEF w0, w
<1>4. g = [n \in 0 .. N |-> IF n = 0 THEN w0 ELSE follow_child(g[n - 1])]
  <2>1. \E h : IsWalk(h, N, w0)
    <3> HIDE DEF N
    <3> QED BY <1>1, WalkExists
  <2>2. \E h : h = [n \in 0 .. KeyLen + 1 |-> IF n = 0 THEN w0 ELSE follow_child(h[n - 1])]
    BY <2>1 DEF IsWalk
  <2> QED BY <2>2
<1> HIDE DEF g
<1>5. g[0] = w0 /\ \A n \in 1 .. N : g[n] = follow_child(g[n - 1])
  <2> HIDE DEF N
  <2>1. \A n \in 0 .. N : g[n] = IF n = 0 THEN w0 ELSE follow_child(g[n - 1])
    BY <1>4
  <2> QED BY <1>1, <2>1
<1>7. WalkSound(m, f, key, 0, w0)
  <2> DEFINE e == <<>>
  <2>1. e \in Stems /\ Len(e) = 0
    BY EmptyStem
  <2>2. Refers(m, f, e, w0.item)
    BY <1>3
  <2> HIDE DEF e
  <2>3. IsPrefix(e, key) /\ Down(e, 0)
    BY <2>1, Under DEF Down
  <2>4. key = Left(key, e)
    <3>1. key \in Seq(Nibbles) /\ Len(key) = KeyLen
      BY KeyTypes
    <3>2. SubSeq(key, 1, Len(key)) = key
      BY ONLY <3>1, SubSeqFull
    <3>3. Left(key, e) = SubSeq(key, 1, Len(key))
      BY <2>1, <3>1 DEF Left
    <3> QED BY <3>2, <3>3
  <2>5. w0.nibbles = Left(key, e)
    BY <1>3, <2>4
  <2>6. w0.end \in {"", "bad"}
    BY <1>2a, <1>3
  <2> QED BY ONLY <1>3, <2>1, <2>2, <2>3, <2>5, <2>6 DEF WalkSound
<1> DEFINE Off == {n \in 0 .. N : ~WalkSound(m, f, key, n, g[n])}
<1>8. Off = {}
  <2> SUFFICES ASSUME Off # {}
               PROVE  FALSE
    OBVIOUS
  <2>1. PICK x \in Off : \A y \in Off : x <= y
    <3>1. Off \in SUBSET Nat
      OBVIOUS
    <3> HIDE DEF Off
    <3> QED BY <3>1, LeastExists
  <2>2. x \in 0 .. N /\ ~WalkSound(m, f, key, x, g[x])
    BY <2>1
  <2>3. x # 0
    BY <1>5, <1>7, <2>2
  <2>4. x - 1 \in Nat /\ x - 1 \in 0 .. N /\ x \in 1 .. N /\ (x - 1) + 1 = x /\ ~(x <= x - 1)
    BY <1>1, <2>2, <2>3
  <2>5. WalkSound(m, f, key, x - 1, g[x - 1])
    BY <2>1, <2>4
  <2>6. WalkSound(m, f, key, (x - 1) + 1, follow_child(g[x - 1]))
    BY ONLY GoodMap(m), IsNodes(m, f), key \in Keys, <2>4, <2>5, FollowSound
  <2>7. g[x] = follow_child(g[x - 1])
    BY <1>5, <2>4
  <2> QED BY ONLY <2>2, <2>4, <2>6, <2>7, Zenon
<1>9. \A n \in 0 .. N : WalkSound(m, f, key, n, g[n])
  BY <1>8
<1> QED BY <1>2, <1>5, <1>9 DEF w, w0, e0

\* A proof, whatever its nodes, leads to the value the map under the root holds for the key, or
\* shows the key absent when it is, or is refused: verify_trie_proof takes no proof for more than
\* it shows.
THEOREM TrieProofsSound ==
  ASSUME NEW m, GoodMap(m), NEW key \in Keys, NEW proof
  PROVE  LET w == verify_trie_proof(TrieRoot(m), key, proof)
         IN /\ w.end \in {"found", "absent", "bad"}
            /\ w.end = "found" => key \in DOMAIN m /\ w.vals = <<m[key]>>
            /\ w.end = "absent" => key \notin DOMAIN m
<1> DEFINE N == KeyLen + 1
           w == verify_trie_proof(TrieRoot(m), key, proof)
<1>1. N \in Nat /\ KeyLen \in Nat
  BY KeyLenAssumption
<1>2. PICK f : IsNodes(m, f) /\ Refers(m, f, <<>>, TrieRoot(m))
  BY RootRefers
<1>3. WalkSound(m, f, key, N, w)
  <2>1. PICK g : /\ w = g[N]
                 /\ \A n \in 0 .. N : WalkSound(m, f, key, n, g[n])
    BY <1>2, WalkHolds
  <2> HIDE DEF w
  <2> QED BY <1>1, <2>1
<1> HIDE DEF w
<1>4. w.end # ""
  <2> SUFFICES ASSUME w.end = ""
               PROVE  FALSE
    OBVIOUS
  <2>1. PICK p \in Stems : Down(p, N)
    BY <1>3 DEF WalkSound
  <2>2. Len(p) \in Nat /\ Len(p) <= KeyLen
    BY StemTypes
  <2>3. Len(p) >= KeyLen + 1
    BY <2>1 DEF Down
  <2> QED BY ONLY <1>1, <2>2, <2>3
<1>5. /\ w.end \in {"found", "absent", "bad"}
      /\ w.end = "found" => key \in DOMAIN m /\ w.vals = <<m[key]>>
      /\ w.end = "absent" => key \notin DOMAIN m
  BY <1>3, <1>4 DEF WalkSound
<1> QED BY <1>5 DEF w


-----------------------------------------------------------------------------
(* What a proof shows of an account and of a slot. *)

LEMMA KeysOfAccounts ==
  /\ \A a \in Accounts : AccountKey[a] \in Keys
  /\ \A a, b \in Accounts : AccountKey[a] = AccountKey[b] => a = b
BY KeysApart DEF Injection, IsInjective, Accounts

LEMMA KeysOfSlots ==
  /\ \A s \in Slots : SlotKey[s] \in Keys
  /\ \A s, t \in Slots : SlotKey[s] = SlotKey[t] => s = t
BY KeysApart DEF Injection, IsInjective, Slots

\* The storage trie of an account holds the slots that are not zero.
LEMMA StorageFacts ==
  ASSUME NEW w \in Worlds, NEW a \in Accounts, NEW m, m = Storage(w, a)
  PROVE  /\ GoodMap(m)
         /\ \A s \in Slots : /\ SlotKey[s] \in DOMAIN m <=> w[a].store[s] # 0
                             /\ w[a].store[s] # 0 => m[SlotKey[s]].v = w[a].store[s]
<1> DEFINE set == {s \in Slots : w[a].store[s] # 0}
           ks == {SlotKey[s] : s \in set}
           at(k) == CHOOSE s \in set : SlotKey[s] = k
<1>1. m = [k \in ks |-> Word(w[a].store[at(k)])]
  BY DEF Storage
<1>2. set \subseteq Slots /\ IsFiniteSet(set)
  BY KeysApart, FS_Subset
<1>3. ks \subseteq Keys
  BY <1>2, KeysOfSlots
<1>4. IsFiniteSet(ks)
  <2> DEFINE f == [s \in set |-> SlotKey[s]]
  <2>1. f \in Surjection(set, ks)
    BY DEF Surjection
  <2> HIDE DEF set, ks, f
  <2> QED BY <1>2, <2>1, FS_Surjection
<1>5. \A s \in Slots : SlotKey[s] \in ks <=> s \in set
  BY <1>2, KeysOfSlots
<1>6. \A s \in set : at(SlotKey[s]) = s
  BY <1>2, KeysOfSlots
<1>7. \A s \in Slots : s \in set <=> w[a].store[s] # 0
  OBVIOUS
<1>8. ASSUME NEW s \in set
      PROVE  m[SlotKey[s]].v = w[a].store[s]
  <2>1. SlotKey[s] \in ks
    OBVIOUS
  <2> HIDE DEF ks, at
  <2>2. m[SlotKey[s]] = Word(w[a].store[at(SlotKey[s])])
    BY <1>1, <2>1
  <2>3. m[SlotKey[s]] = Word(w[a].store[s])
    BY <1>6, <2>2
  <2> QED BY <2>3 DEF Word
<1>9. DOMAIN m = ks
  BY <1>1
<1> HIDE DEF set, ks
<1> QED BY <1>3, <1>4, <1>5, <1>7, <1>8, <1>9 DEF GoodMap

\* An account of the state.
LEMMA StateFacts ==
  ASSUME NEW w \in Worlds, NEW a \in Accounts
  PROVE  /\ State[w][a] = AccountOf(w, a) /\ State[w][a].root = TrieRoot(Storage(w, a))
         /\ State[w][a].root = EMPTY_TRIE_ROOT => \A s \in Slots : w[a].store[s] = 0
<1>1. State[w][a] = AccountOf(w, a)
  BY DEF State
<1>2. State[w][a].root = TrieRoot(Storage(w, a))
  BY <1>1 DEF AccountOf
<1> DEFINE m == Storage(w, a)
<1>3. \A s \in Slots : SlotKey[s] \in DOMAIN m <=> w[a].store[s] # 0
  BY StorageFacts
<1>4. DOMAIN m # {} => TrieRoot(m) # EMPTY_TRIE_ROOT
  BY DEF TrieRoot, Hashed, EMPTY_TRIE_ROOT
<1> HIDE DEF m
<1>5. TrieRoot(m) = EMPTY_TRIE_ROOT => \A s \in Slots : w[a].store[s] = 0
  BY <1>3, <1>4
<1> QED BY <1>1, <1>2, <1>5 DEF m

\* A proof of a slot shows what the account's storage holds there, or it is refused.
LEMMA SlotProven ==
  ASSUME NEW w \in Worlds, NEW a \in Accounts, NEW s \in Slots, NEW nodes
  PROVE  verify_storage_proof(State[w][a].root, s, nodes) \in {<<>>, <<w[a].store[s]>>}
<1> DEFINE m == Storage(w, a)
           v == verify_trie_proof(TrieRoot(m), SlotKey[s], nodes)
           empty == State[w][a].root = EMPTY_TRIE_ROOT
<1>1. GoodMap(m) /\ SlotKey[s] \in Keys
  BY StorageFacts, KeysOfSlots
<1>2. /\ SlotKey[s] \in DOMAIN m <=> w[a].store[s] # 0
      /\ w[a].store[s] # 0 => m[SlotKey[s]].v = w[a].store[s]
  BY StorageFacts
<1> HIDE DEF m
<1>3. /\ v.end \in {"found", "absent", "bad"}
      /\ v.end = "found" => SlotKey[s] \in DOMAIN m /\ v.vals = <<m[SlotKey[s]]>>
      /\ v.end = "absent" => SlotKey[s] \notin DOMAIN m
  BY <1>1, TrieProofsSound
<1>4. verify_storage_proof(State[w][a].root, s, nodes)
      = CASE empty \/ v.end = "absent" -> <<0>> [] ~empty /\ v.end = "bad" -> <<>> [] OTHER -> <<v.vals[1].v>>
  BY StateFacts DEF verify_storage_proof, m
<1>4a. empty \in BOOLEAN /\ (empty => w[a].store[s] = 0)
  BY StateFacts
<1> HIDE DEF v, empty
<1>4b. CASE empty
  <2>1. verify_storage_proof(State[w][a].root, s, nodes) = <<0>>
    BY ONLY <1>4, <1>4b
  <2> QED BY <1>4a, <1>4b, <2>1
<1>5. CASE ~empty /\ v.end = "found"
  <2>1. v.vals[1].v = w[a].store[s]
    BY <1>2, <1>3, <1>5
  <2> QED BY <1>4, <1>5, <2>1
<1>6. CASE v.end = "absent"
  <2>1. w[a].store[s] = 0
    BY <1>2, <1>3, <1>6
  <2> QED BY <1>4, <1>6, <2>1
<1>7. CASE ~empty /\ v.end = "bad"
  BY <1>4, <1>7
<1> QED BY <1>3, <1>4a, <1>4b, <1>5, <1>6, <1>7

\* A proof of an account shows the account of the state, or it is refused.
LEMMA AccountProven ==
  ASSUME NEW w \in Worlds, NEW a \in Accounts, NEW nodes
  PROVE  verify_account_proof(StateRoot[w], a, nodes) \in {<<>>, <<State[w][a]>>}
<1> DEFINE live == {b \in Accounts : State[w][b] # empty_account}
           ks == {AccountKey[b] : b \in live}
           at(k) == CHOOSE b \in live : AccountKey[b] = k
           m == [k \in ks |-> State[w][at(k)]]
           v == verify_trie_proof(TrieRoot(m), AccountKey[a], nodes)
<1>1. live \subseteq Accounts /\ IsFiniteSet(live)
  BY KeysApart, FS_Subset
<1>2. ks \subseteq Keys
  BY <1>1, KeysOfAccounts
<1>3. IsFiniteSet(ks)
  <2> DEFINE f == [b \in live |-> AccountKey[b]]
  <2>1. f \in Surjection(live, ks)
    BY DEF Surjection
  <2> HIDE DEF live, ks, f
  <2> QED BY <1>1, <2>1, FS_Surjection
<1>4. AccountKey[a] \in ks <=> a \in live
  BY <1>1, KeysOfAccounts
<1>5. a \in live => at(AccountKey[a]) = a
  BY <1>1, KeysOfAccounts
<1>6. a \in live <=> State[w][a] # empty_account
  OBVIOUS
<1>7. StateRoot[w] = TrieRoot(m)
  BY DEF StateRoot
<1>8. DOMAIN m = ks /\ (AccountKey[a] \in ks => m[AccountKey[a]] = State[w][at(AccountKey[a])])
  OBVIOUS
<1> HIDE DEF live, ks, at, m
<1>9. GoodMap(m) /\ AccountKey[a] \in Keys
  BY <1>2, <1>3, <1>8, KeysOfAccounts DEF GoodMap
<1>10. /\ v.end \in {"found", "absent", "bad"}
       /\ v.end = "found" => AccountKey[a] \in DOMAIN m /\ v.vals = <<m[AccountKey[a]]>>
       /\ v.end = "absent" => AccountKey[a] \notin DOMAIN m
  BY <1>9, TrieProofsSound
<1>11. verify_account_proof(StateRoot[w], a, nodes)
       = CASE v.end = "absent" -> <<empty_account>> [] v.end = "bad" -> <<>> [] OTHER -> v.vals
  BY <1>7 DEF verify_account_proof
<1> HIDE DEF v
<1>12. CASE v.end = "found"
  <2>1. v.vals = <<State[w][a]>>
    BY <1>4, <1>5, <1>8, <1>10, <1>12
  <2> QED BY <1>11, <1>12, <2>1
<1>13. CASE v.end = "absent"
  <2>1. State[w][a] = empty_account
    BY <1>4, <1>6, <1>8, <1>10, <1>13
  <2> QED BY <1>11, <1>13, <2>1
<1>14. CASE v.end = "bad"
  BY <1>11, <1>14
<1> QED BY <1>10, <1>12, <1>13, <1>14


-----------------------------------------------------------------------------
(* Loading. *)

SlotsSound(w, a, slots) ==
  /\ DOMAIN slots \subseteq Slots /\ Cardinality(DOMAIN slots) <= MAX_PROOF_STORAGE_KEYS
  /\ \A s \in DOMAIN slots : slots[s] = w[a].store[s]

DbSound(w, d) ==
  /\ DOMAIN d \subseteq Accounts /\ Cardinality(DOMAIN d) <= MAX_CALL_ACCOUNTS
  /\ \A a \in DOMAIN d : d[a].info = State[w][a] /\ SlotsSound(w, a, d[a].slots)

LEMMA CallNats ==
  /\ CALL_GAS_CAP \in Nat \ {0} /\ MAX_TX_GAS \in Nat \ {0} /\ TX_GAS \in Nat \ {0}
  /\ MAX_PROOF_ROUNDS \in Nat \ {0} /\ MAX_CALL_ACCOUNTS \in Nat \ {0}
  /\ MAX_PROOF_STORAGE_KEYS \in Nat \ {0} /\ MAX_ESTIMATE_ITERS \in Nat \ {0} /\ MaxOps \in Nat
BY CallConstants

\* Adding a key where there is room.
LEMMA RoomForOne ==
  ASSUME NEW S, IsFiniteSet(S), NEW k, NEW max \in Nat, Cardinality(S) <= max,
         k \in S \/ ~(Cardinality(S) >= max)
  PROVE  Cardinality(S \cup {k}) <= max
<1>1. CASE k \in S
  <2>1. S \cup {k} = S
    BY <1>1
  <2> QED BY <2>1
<1>2. CASE k \notin S
  <2>1. Cardinality(S \cup {k}) = Cardinality(S) + 1 /\ Cardinality(S) \in Nat
    BY <1>2, FS_AddElement, FS_CardinalityType
  <2> QED BY <1>2, <2>1
<1> QED BY <1>1, <1>2

LEMMA SlotVerified ==
  ASSUME NEW w \in Worlds, NEW a \in Accounts, NEW acc, acc = State[w][a], NEW s \in Slots, NEW entries
  PROVE  verify_storage_slot(acc, s, entries) \in {<<>>, <<w[a].store[s]>>}
<1> DEFINE e == entries[CHOOSE i \in DOMAIN entries : entries[i].key = s /\ \A j \in 1 .. i - 1 : entries[j].key # s]
           v == verify_storage_proof(acc.root, s, e.nodes)
           empty == acc.root = EMPTY_TRIE_ROOT
<1>1. verify_storage_slot(acc, s, entries)
      = CASE empty -> <<0>> [] ~empty -> IF v = <<e.value>> THEN v ELSE <<>>
  BY DEF verify_storage_slot
<1> HIDE DEF e
<1>2. v \in {<<>>, <<w[a].store[s]>>}
  BY SlotProven
<1>3. empty \in BOOLEAN /\ (empty => w[a].store[s] = 0)
  BY StateFacts
<1> HIDE DEF v, empty
<1> QED BY <1>1, <1>2, <1>3

\* A state of the fold over the entries of a reply.
TakenSound(w, a, st) ==
  DOMAIN st = {"err", "slots"} /\ SlotsSound(w, a, st.slots) /\ st.err \in {"", "proof", "budget"}

LEMMA EntrySound ==
  ASSUME NEW w \in Worlds, NEW a \in Accounts, NEW acc, acc = State[w][a], NEW st, TakenSound(w, a, st),
         NEW e, e.key \in Slots \cup {Wide}, NEW entries
  PROVE  TakenSound(w, a, Entry(acc, entries, st, e))
<1> DEFINE v == verify_storage_slot(acc, e.key, entries)
           new == Put(st.slots, e.key, v[1])
           n == Cardinality(DOMAIN st.slots)
           en == Entry(acc, entries, st, e)
<1> SUFFICES TakenSound(w, a, en)
  OBVIOUS
<1>1. DOMAIN st = {"err", "slots"} /\ SlotsSound(w, a, st.slots) /\ st.err \in {"", "proof", "budget"}
  BY DEF TakenSound
<1>2. \/ en = st
      \/ \E err \in {"proof", "budget"} : en = [st EXCEPT !.err = err]
      \/ /\ e.key # Wide /\ v # <<>> /\ ~(n >= MAX_PROOF_STORAGE_KEYS /\ e.key \notin DOMAIN st.slots)
         /\ en = [st EXCEPT !.slots = new]
  BY DEF Entry
<1> HIDE DEF en, new
<1>3. CASE en = st
  BY <1>3
<1>4. ASSUME NEW err \in {"proof", "budget"}, en = [st EXCEPT !.err = err]
      PROVE  TakenSound(w, a, en)
  <2>1. DOMAIN en = {"err", "slots"} /\ en.slots = st.slots /\ en.err = err
    BY <1>1, <1>4
  <2> QED BY <1>1, <2>1 DEF TakenSound
<1>5. CASE /\ e.key # Wide /\ v # <<>> /\ ~(n >= MAX_PROOF_STORAGE_KEYS /\ e.key \notin DOMAIN st.slots)
           /\ en = [st EXCEPT !.slots = new]
  <2>1. e.key \in Slots
    BY <1>5
  <2>2. v = <<w[a].store[e.key]>>
    <3>1. v \in {<<>>, <<w[a].store[e.key]>>}
      BY <2>1, SlotVerified
    <3> HIDE DEF v
    <3> QED BY <1>5, <3>1
  <2> HIDE DEF v
  <2>3. v[1] = w[a].store[e.key]
    BY <2>2
  <2>4. /\ DOMAIN new = DOMAIN st.slots \cup {e.key} /\ new[e.key] = v[1]
        /\ \A x \in DOMAIN st.slots : x # e.key => new[x] = st.slots[x]
    <3> DEFINE f == st.slots
               k == e.key
               x0 == v[1]
    <3>1. new = Put(f, k, x0)
      BY DEF new
    <3> HIDE DEF f, k, x0
    <3>2. /\ DOMAIN new = DOMAIN f \cup {k} /\ new[k] = x0
          /\ \A x \in DOMAIN f : x # k => new[x] = f[x]
      BY ONLY <3>1 DEF Put
    <3> QED BY <3>2 DEF f, k, x0
  <2>5. DOMAIN en = {"err", "slots"} /\ en.slots = new /\ en.err = st.err
    BY <1>1, <1>5
  <2>6. DOMAIN st.slots \subseteq Slots /\ n <= MAX_PROOF_STORAGE_KEYS /\ \A s \in DOMAIN st.slots : st.slots[s] = w[a].store[s]
    BY <1>1 DEF SlotsSound
  <2>7. IsFiniteSet(DOMAIN st.slots)
    BY <2>6, KeysApart, FS_Subset
  <2>8. Cardinality(DOMAIN st.slots \cup {e.key}) <= MAX_PROOF_STORAGE_KEYS
    BY <1>5, <2>6, <2>7, CallNats, RoomForOne
  <2>9. SlotsSound(w, a, new)
    <3>1. \A s \in DOMAIN new : new[s] = w[a].store[s]
      BY <2>3, <2>4, <2>6
    <3> QED BY <2>1, <2>4, <2>6, <2>8, <3>1 DEF SlotsSound
  <2> QED BY <1>1, <2>5, <2>9 DEF TakenSound
<1> QED BY <1>2, <1>3, <1>4, <1>5

\* g holds what the first N entries make of the slots held.
IsTaken(g, N, acc, es, held) == g = [n \in 0 .. N |-> IF n = 0 THEN [err |-> "", slots |-> held] ELSE Entry(acc, es, g[n - 1], es[n])]

LEMMA TakenExists ==
  ASSUME NEW acc, NEW es, NEW held, NEW N \in Nat
  PROVE  \E g : IsTaken(g, N, acc, es, held)
<1> DEFINE Short0 == {n \in Nat : ~\E g : IsTaken(g, n, acc, es, held)}
           F(v, n) == Entry(acc, es, v, es[n])
<1> SUFFICES ASSUME N \in Short0
             PROVE  FALSE
  OBVIOUS
<1>1. \A g, n : IsTaken(g, n, acc, es, held) <=> g = [i \in 0 .. n |-> IF i = 0 THEN [err |-> "", slots |-> held] ELSE F(g[i - 1], i)]
  BY DEF IsTaken
<1> HIDE DEF F
<1>2. PICK x \in Short0 : \A y \in Short0 : x <= y
  <2>1. Short0 \in SUBSET Nat /\ Short0 # {}
    OBVIOUS
  <2> HIDE DEF Short0
  <2> QED BY <2>1, LeastExists
<1>3. x \in Nat /\ ~\E g : IsTaken(g, x, acc, es, held)
  BY <1>2
<1>4. x # 0
  <2> DEFINE g == [i \in 0 .. 0 |-> [err |-> "", slots |-> held]]
  <2>1. g = [i \in 0 .. 0 |-> IF i = 0 THEN [err |-> "", slots |-> held] ELSE F(g[i - 1], i)]
    OBVIOUS
  <2> HIDE DEF g
  <2>2. IsTaken(g, 0, acc, es, held)
    BY <1>1, <2>1
  <2> QED BY <1>3, <2>2
<1>5. x - 1 \in Nat /\ x - 1 \notin Short0
  <2>1. x - 1 \in Nat /\ ~(x <= x - 1)
    BY <1>3, <1>4
  <2> HIDE DEF Short0
  <2> QED BY <1>2, <2>1
<1>6. PICK g : IsTaken(g, x - 1, acc, es, held)
  BY <1>5
<1>7. g = [i \in 0 .. x - 1 |-> IF i = 0 THEN [err |-> "", slots |-> held] ELSE F(g[i - 1], i)]
  BY <1>1, <1>6
<1>8. \A i \in 0 .. x - 1 : g[i] = IF i = 0 THEN [err |-> "", slots |-> held] ELSE F(g[i - 1], i)
  BY <1>7
<1> DEFINE h == [i \in 0 .. x |-> IF i = x THEN F(g[x - 1], x) ELSE g[i]]
<1>9. \A i \in 0 .. x : h[i] = IF i = 0 THEN [err |-> "", slots |-> held] ELSE F(h[i - 1], i)
  <2> SUFFICES ASSUME NEW i \in 0 .. x
               PROVE  h[i] = IF i = 0 THEN [err |-> "", slots |-> held] ELSE F(h[i - 1], i)
    OBVIOUS
  <2>1. CASE i = x
    <3>1. x - 1 \in 0 .. x /\ x - 1 # x
      BY <1>3, <1>4
    <3> QED BY <1>4, <2>1, <3>1
  <2>2. CASE i # x
    <3>1. i \in 0 .. x - 1 /\ (i # 0 => i - 1 \in 0 .. x /\ i - 1 # x)
      BY <1>3, <2>2
    <3> QED BY <1>8, <2>2, <3>1
  <2> QED BY <2>1, <2>2
<1>10. h = [i \in 0 .. x |-> IF i = 0 THEN [err |-> "", slots |-> held] ELSE F(h[i - 1], i)]
  <2>1. DOMAIN h = 0 .. x /\ h = [i \in DOMAIN h |-> h[i]]
    OBVIOUS
  <2> HIDE DEF h
  <2> QED BY <1>9, <2>1
<1> HIDE DEF h
<1>11. IsTaken(h, x, acc, es, held)
  BY <1>1, <1>10
<1> QED BY <1>3, <1>11


\* The entries of a reply whose keys can be read: a slot, or longer than one.
EntriesTyped(es) == Len(es) \in Nat /\ \A i \in 1 .. Len(es) : es[i].key \in Slots \cup {Wide}

\* Whatever the entries of a reply, what is taken in from them is true and within the cap.
LEMMA TakeInSound ==
  ASSUME NEW w \in Worlds, NEW a \in Accounts, NEW acc, acc = State[w][a], NEW es, EntriesTyped(es),
         NEW held, SlotsSound(w, a, held)
  PROVE  TakenSound(w, a, TakeIn(acc, es, held))
<1> DEFINE N == Len(es)
           s0 == [err |-> "", slots |-> held]
           g == CHOOSE h : h = [n \in 0 .. Len(es) |-> IF n = 0 THEN s0 ELSE Entry(acc, es, h[n - 1], es[n])]
           res == TakeIn(acc, es, held)
<1>1. N \in Nat
  BY DEF EntriesTyped
<1>2. res = g[N]
  BY DEF TakeIn
<1>3. TakenSound(w, a, s0)
  BY DEF TakenSound
<1>4. g = [n \in 0 .. N |-> IF n = 0 THEN s0 ELSE Entry(acc, es, g[n - 1], es[n])]
  <2>1. \E h : IsTaken(h, N, acc, es, held)
    <3> HIDE DEF N
    <3> QED BY <1>1, TakenExists
  <2>2. \E h : h = [n \in 0 .. Len(es) |-> IF n = 0 THEN s0 ELSE Entry(acc, es, h[n - 1], es[n])]
    BY <2>1 DEF IsTaken
  <2> QED BY <2>2
<1>e. \A i \in 1 .. N : es[i].key \in Slots \cup {Wide}
  BY DEF EntriesTyped
<1> SUFFICES TakenSound(w, a, res)
  OBVIOUS
<1> HIDE DEF g, s0, N, res
<1>5. g[0] = s0 /\ \A n \in 1 .. N : g[n] = Entry(acc, es, g[n - 1], es[n])
  <2>1. \A n \in 0 .. N : g[n] = IF n = 0 THEN s0 ELSE Entry(acc, es, g[n - 1], es[n])
    BY <1>4
  <2> QED BY <1>1, <2>1
<1> DEFINE Off == {n \in 0 .. N : ~TakenSound(w, a, g[n])}
<1>8. Off = {}
  <2> SUFFICES ASSUME Off # {}
               PROVE  FALSE
    OBVIOUS
  <2>1. PICK x \in Off : \A y \in Off : x <= y
    <3>1. Off \in SUBSET Nat
      OBVIOUS
    <3> HIDE DEF Off
    <3> QED BY <3>1, LeastExists
  <2>2. x \in 0 .. N /\ ~TakenSound(w, a, g[x])
    BY <2>1
  <2>3. x # 0
    BY <1>3, <1>5, <2>2
  <2>4. x - 1 \in 0 .. N /\ x \in 1 .. N /\ ~(x <= x - 1)
    BY <1>1, <2>2, <2>3
  <2>5. TakenSound(w, a, g[x - 1])
    BY <2>1, <2>4
  <2> DEFINE e == es[x]
             p == g[x - 1]
  <2>6. e.key \in Slots \cup {Wide} /\ TakenSound(w, a, p)
    BY <1>e, <2>4, <2>5
  <2>7. g[x] = Entry(acc, es, p, e)
    BY <1>5, <2>4
  <2> HIDE DEF e, p
  <2>8. TakenSound(w, a, Entry(acc, es, p, e))
    BY ONLY w \in Worlds, a \in Accounts, acc = State[w][a], <2>6, EntrySound
  <2> QED BY <2>2, <2>7, <2>8
<1>9. N \in 0 .. N
  BY <1>1
<1> QED BY <1>2, <1>8, <1>9

\* An empty map is a sound one.
LEMMA NothingHeld ==
  ASSUME NEW w, NEW a
  PROVE  SlotsSound(w, a, <<>>)
<1>1. DOMAIN <<>> = {}
  OBVIOUS
<1>2. Cardinality({}) = 0
  BY FS_EmptySet
<1> DEFINE e == <<>>
<1>3. DOMAIN e = {} /\ Cardinality(DOMAIN e) <= MAX_PROOF_STORAGE_KEYS
  BY <1>1, <1>2, CallNats
<1> SUFFICES SlotsSound(w, a, e)
  OBVIOUS
<1> HIDE DEF e
<1> QED BY <1>3 DEF SlotsSound

LEMMA NoneBelow == \A n : n = 0 => \A i \in 1 .. n : FALSE
OBVIOUS

\* load_proven_account leaves nothing in the map of loaded accounts but what the state holds.
LEMMA LoadSound ==
  ASSUME NEW w \in Worlds, NEW d, DbSound(w, d), NEW a \in Accounts, NEW acc, acc = State[w][a],
         NEW reply, EntriesTyped(reply.entries), NEW got, got = load_proven_account(d, a, acc, reply)
  PROVE  got.err \in {"", "proof", "budget"} /\ (got.err = "" => DbSound(w, got.db))
<1> DEFINE es == IF acc.root = EMPTY_TRIE_ROOT THEN <<>> ELSE reply.entries
           held == Held(d, a)
           st == TakeIn(acc, es, held)
           rec == [info |-> acc, slots |-> st.slots]
           new == Put(d, a, rec)
<1>1. SlotsSound(w, a, held)
  <2>1. CASE a \in DOMAIN d
    BY <2>1 DEF Held, DbSound
  <2>2. CASE a \notin DOMAIN d
    BY <2>2, NothingHeld DEF Held
  <2> QED BY <2>1, <2>2
<1>2. EntriesTyped(es)
  <2>1. EntriesTyped(<<>>)
    <3> DEFINE e == <<>>
    <3>1. Len(e) = 0
      OBVIOUS
    <3> SUFFICES EntriesTyped(e)
      OBVIOUS
    <3>2. Len(e) \in Nat
      BY <3>1
    <3> HIDE DEF e
    <3> QED BY ONLY <3>1, <3>2, NoneBelow, Zenon DEF EntriesTyped
  <2> QED BY <2>1
<1> HIDE DEF es, held
<1>4. TakenSound(w, a, st)
  BY ONLY w \in Worlds, a \in Accounts, acc = State[w][a], <1>1, <1>2, TakeInSound DEF st
<1>3. /\ got.err \in {"", "proof", "budget"}
      /\ got.err = "" => got = [err |-> "", db |-> new] /\ ~Full(d, a)
  <2> DEFINE ok == verify_account_code(acc, reply.code)
             full == Full(d, a)
             good == [err |-> "", db |-> new]
  <2>1. got = CASE ~ok -> Bad("proof") [] ok /\ full -> Bad("budget")
                [] OTHER -> IF st.err # "" THEN Bad(st.err) ELSE good
    BY DEF load_proven_account, es, held
  <2>3. ok \in BOOLEAN /\ full \in BOOLEAN
    BY DEF verify_account_code, Full
  <2> DEFINE err == st.err
             bad == Bad(err)
             bad1 == Bad("proof")
             bad2 == Bad("budget")
  <2>5. got = CASE ~ok -> bad1 [] ok /\ full -> bad2 [] OTHER -> IF err # "" THEN bad ELSE good
    BY <2>1
  <2>6. bad1.err = "proof" /\ bad2.err = "budget" /\ bad.err = err /\ good.err = ""
    BY DEF Bad
  <2>7. err \in {"", "proof", "budget"}
    BY <1>4 DEF TakenSound
  <2>4. SUFFICES /\ got.err \in {"", "proof", "budget"}
                 /\ got.err = "" => got = good /\ ~full
    OBVIOUS
  <2> HIDE DEF ok, full, good, err, bad, bad1, bad2
  <2>8. CASE ~ok
    <3>1. got = bad1
      BY ONLY <2>3, <2>5, <2>8
    <3> QED BY ONLY <2>6, <3>1
  <2>9. CASE ok /\ full
    <3>1. got = bad2
      BY ONLY <2>3, <2>5, <2>9
    <3> QED BY ONLY <2>6, <3>1
  <2>10. CASE ok /\ ~full /\ err # ""
    <3>1. got = bad
      BY ONLY <2>3, <2>5, <2>10
    <3> QED BY ONLY <2>6, <2>7, <2>10, <3>1
  <2>11. CASE ok /\ ~full /\ err = ""
    <3>1. got = good
      BY ONLY <2>3, <2>5, <2>11
    <3> QED BY ONLY <2>6, <2>11, <3>1
  <2> QED BY ONLY <2>3, <2>8, <2>9, <2>10, <2>11
<1> SUFFICES ASSUME got.err = ""
             PROVE  DbSound(w, got.db)
  BY <1>3
<1> HIDE DEF st
<1>5. rec.info = State[w][a] /\ SlotsSound(w, a, rec.slots)
  BY <1>4 DEF TakenSound
<1> HIDE DEF rec
<1>6. /\ DOMAIN new = DOMAIN d \cup {a} /\ new[a] = rec
      /\ \A b \in DOMAIN d : b # a => new[b] = d[b]
  BY ONLY TRUE DEF new, Put
<1> HIDE DEF new
<1>7. DOMAIN d \subseteq Accounts /\ Cardinality(DOMAIN d) <= MAX_CALL_ACCOUNTS
      /\ \A b \in DOMAIN d : d[b].info = State[w][b] /\ SlotsSound(w, b, d[b].slots)
  BY DEF DbSound
<1>8. Cardinality(DOMAIN new) <= MAX_CALL_ACCOUNTS
  <2>1. IsFiniteSet(DOMAIN d)
    BY <1>7, KeysApart, FS_Subset
  <2>2. a \in DOMAIN d \/ ~(Cardinality(DOMAIN d) >= MAX_CALL_ACCOUNTS)
    BY <1>3 DEF Full
  <2> QED BY <1>6, <1>7, <2>1, <2>2, CallNats, RoomForOne
<1>9. \A b \in DOMAIN new : new[b].info = State[w][b] /\ SlotsSound(w, b, new[b].slots)
  BY <1>5, <1>6, <1>7
<1>10. DbSound(w, new)
  BY <1>6, <1>7, <1>8, <1>9 DEF DbSound
<1>11. got.db = new
  <2>1. got = [err |-> "", db |-> new]
    BY ONLY <1>3, got.err = ""
  <2> QED BY ONLY <2>1
<1> QED BY ONLY <1>10, <1>11

\* Whatever a provider replies, what fetch_and_load loads is what the state under the root holds.
LEMMA FetchSound ==
  ASSUME NEW w \in Worlds, NEW d, DbSound(w, d), NEW a \in Accounts, NEW slots, IsFiniteSet(slots), NEW reply,
         EntriesTyped(reply.entries), NEW got, got = fetch_and_load(StateRoot[w], d, a, slots, reply)
  PROVE  got.err \in {"", "proof", "budget"} /\ (got.err = "" => DbSound(w, got.db))
<1> DEFINE root == StateRoot[w]
           acc == verify_eth_get_proof(root, a, reply)
           x == acc[1]
<1>1. acc \in {<<>>, <<State[w][a]>>}
  <2>1. verify_account_proof(root, a, reply.nodes) \in {<<>>, <<State[w][a]>>}
    BY AccountProven
  <2> HIDE DEF root
  <2>2. acc \in {<<>>, verify_account_proof(root, a, reply.nodes)}
    BY DEF verify_eth_get_proof
  <2> QED BY <2>1, <2>2
<1> DEFINE over == Cardinality(slots) > MAX_PROOF_STORAGE_KEYS
           fits == Cardinality(slots) <= MAX_PROOF_STORAGE_KEYS
           load == load_proven_account(d, a, x, reply)
<1>2. got = CASE over -> Bad("budget") [] fits /\ acc = <<>> -> Bad("proof") [] OTHER -> load
  BY DEF fetch_and_load
<1>t. Cardinality(slots) \in Nat /\ MAX_PROOF_STORAGE_KEYS \in Nat
  BY CallNats, FS_CardinalityType
<1>u. over \in BOOLEAN /\ fits \in BOOLEAN /\ fits = ~over
  BY ONLY <1>t
<1> DEFINE bad1 == Bad("proof")
           bad2 == Bad("budget")
           none == <<>>
<1>v. got = CASE over -> bad2 [] fits /\ acc = none -> bad1 [] OTHER -> load
  BY <1>2
<1>w. bad1.err = "proof" /\ bad2.err = "budget"
  BY DEF Bad
<1> HIDE DEF acc, over, fits, load, bad1, bad2
<1>3. CASE got \in {bad1, bad2}
  BY ONLY <1>3, <1>w
<1>4. CASE got = load /\ acc # <<>>
  <2>1. acc = <<State[w][a]>>
    BY ONLY <1>1, <1>4
  <2>2. x = State[w][a]
    BY ONLY <2>1 DEF x
  <2>3. got = load_proven_account(d, a, x, reply)
    BY ONLY <1>4 DEF load
  <2> HIDE DEF x
  <2> QED BY ONLY w \in Worlds, DbSound(w, d), a \in Accounts, EntriesTyped(reply.entries), <2>2, <2>3, LoadSound
<1>5. got \in {bad1, bad2} \/ (got = load /\ acc # <<>>)
  <2> HIDE DEF none
  <2>1. got \in {bad1, bad2} \/ (got = load /\ acc # none)
    BY ONLY <1>u, <1>v
  <2> QED BY ONLY <2>1 DEF none
<1> QED BY <1>3, <1>4, <1>5

-----------------------------------------------------------------------------
(* What a provider may reply. *)

Readable(S) == \A e \in S : e.key \in Slots \cup {Wide}

LEMMA ReadableEntries ==
  ASSUME NEW S, Readable(S), NEW es \in Seq(S)
  PROVE  EntriesTyped(es)
<1>1. Len(es) \in Nat /\ \A i \in 1 .. Len(es) : es[i] \in S
  OBVIOUS
<1> QED BY <1>1 DEF EntriesTyped, Readable

\* The entries of the true reply.
LEMMA TrueEntries ==
  ASSUME NEW w, NEW a, NEW slots \in Seq(Slots), NEW te, te = Truth(w, a, slots).entries
  PROVE  \E S : Readable(S) /\ te \in Seq(S)
<1> DEFINE acc == State[w][a]
           n == Len(slots)
           E(i) == [key |-> slots[i], nodes |-> ProofOf(acc.root, SlotKey[slots[i]]), value |-> w[a].store[slots[i]]]
           S == {E(i) : i \in 1 .. n}
<1>1. te = [i \in 1 .. n |-> E(i)]
  BY DEF Truth
<1>2. n \in Nat /\ \A i \in 1 .. n : slots[i] \in Slots
  OBVIOUS
<1>3. \A i : E(i).key = slots[i]
  OBVIOUS
<1> HIDE DEF E, n
<1>4. Readable(S)
  BY <1>2, <1>3 DEF Readable
<1>5. te \in Seq(S)
  <2>1. \A i \in 1 .. n : E(i) \in S
    OBVIOUS
  <2> HIDE DEF S
  <2> QED BY <1>1, <1>2, <2>1
<1> HIDE DEF S
<1> QED BY <1>4, <1>5

\* A reply speaks of slots, whatever it says of them.
LEMMA RepliesReadable ==
  ASSUME NEW a, NEW slots \in Seq(Slots), NEW r \in Replies(a, slots)
  PROVE  EntriesTyped(r.entries)
<1> DEFINE t == Truth(world, a, slots)
           te == t.entries
<1>1. PICK S : Readable(S) /\ te \in Seq(S)
  BY TrueEntries
<1>2. EntriesTyped(te)
  <2> HIDE DEF te
  <2> QED BY <1>1, ReadableEntries
<1>d. DOMAIN t = {"addr", "nodes", "claim", "code", "entries"}
  BY DEF Truth
<1> DEFINE es0 == <<>>
<1>3. \/ \E p : r = [t EXCEPT !.nodes = p]
      \/ \E c : r = [t EXCEPT !.claim = c]
      \/ \E b : r = [t EXCEPT !.addr = b]
      \/ \E c : r = [t EXCEPT !.code = c]
      \/ \E e \in Entries : \E es \in {<<e>>, <<e>> \o te, te \o <<e>>} : r = [t EXCEPT !.entries = es]
      \/ r = [t EXCEPT !.entries = es0]
      \/ \E w \in Worlds : r = Truth(w, a, slots)
  <2> DEFINE R1 == {[t EXCEPT !.nodes = p] : p \in StateProofs}
             R2 == {[t EXCEPT !.claim = State[w][b]] : w \in Worlds, b \in Accounts}
             R3 == {[t EXCEPT !.addr = b] : b \in Accounts}
             R4 == {[t EXCEPT !.code = c] : c \in {w[b].code : w \in Worlds, b \in Accounts}}
             ess == UNION {{<<e>>, <<e>> \o te, te \o <<e>>} : e \in Entries}
             R5 == {[t EXCEPT !.entries = es] : es \in ess}
             R6 == {[t EXCEPT !.entries = es0]}
             R7 == {Truth(w, a, slots) : w \in Worlds}
  <2>1. r \in R1 \cup R2 \cup R3 \cup R4 \cup R5 \cup R6 \cup R7
    <3>1. Replies(a, slots) = R1 \cup R2 \cup R3 \cup R4 \cup R5 \cup R6 \cup R7
      BY DEF Replies
    <3> HIDE DEF R1, R2, R3, R4, R5, R6, R7
    <3> QED BY <3>1
  <2> HIDE DEF t, te, es0
  <2>2. /\ r \in R1 => \E p : r = [t EXCEPT !.nodes = p]
        /\ r \in R2 => \E c : r = [t EXCEPT !.claim = c]
        /\ r \in R3 => \E b : r = [t EXCEPT !.addr = b]
        /\ r \in R4 => \E c : r = [t EXCEPT !.code = c]
    <3>1. r \in R1 => \E p : r = [t EXCEPT !.nodes = p]
      BY Zenon
    <3>2. r \in R2 => \E c : r = [t EXCEPT !.claim = c]
      OBVIOUS
    <3>3. r \in R3 => \E b : r = [t EXCEPT !.addr = b]
      BY Zenon
    <3>4. r \in R4 => \E c : r = [t EXCEPT !.code = c]
      <4> DEFINE C == {w[b].code : w \in Worlds, b \in Accounts}
      <4>1. R4 = {[t EXCEPT !.code = c] : c \in C}
        OBVIOUS
      <4> HIDE DEF C, R4
      <4> QED BY <4>1, Zenon
    <3> HIDE DEF R1, R2, R3, R4
    <3> QED BY <3>1, <3>2, <3>3, <3>4
  <2>3. r \in R5 => \E e \in Entries : \E es \in {<<e>>, <<e>> \o te, te \o <<e>>} : r = [t EXCEPT !.entries = es]
    <3>1. r \in R5 => \E es \in ess : r = [t EXCEPT !.entries = es]
      <4> HIDE DEF ess
      <4> QED BY Zenon
    <3>2. \A es \in ess : \E e \in Entries : es \in {<<e>>, <<e>> \o te, te \o <<e>>}
      BY Zenon
    <3> HIDE DEF ess, R5
    <3> QED BY <3>1, <3>2, Zenon
  <2>4. r \in R6 => r = [t EXCEPT !.entries = es0]
    BY Zenon
  <2>5. r \in R7 => \E w \in Worlds : r = Truth(w, a, slots)
    BY Zenon
  <2> HIDE DEF R1, R2, R3, R4, R5, R6, R7
  <2> QED BY <2>1, <2>2, <2>3, <2>4, <2>5, Zenon
<1> HIDE DEF t, te
<1>4. CASE \E p : r = [t EXCEPT !.nodes = p]
  <2>1. r.entries = te
    BY <1>4, <1>d DEF te
  <2> QED BY <1>2, <2>1
<1>5. CASE \E p : r = [t EXCEPT !.claim = p]
  <2>1. r.entries = te
    BY <1>5, <1>d DEF te
  <2> QED BY <1>2, <2>1
<1>6. CASE \E p : r = [t EXCEPT !.addr = p]
  <2>1. r.entries = te
    BY <1>6, <1>d DEF te
  <2> QED BY <1>2, <2>1
<1>7. CASE \E p : r = [t EXCEPT !.code = p]
  <2>1. r.entries = te
    BY <1>7, <1>d DEF te
  <2> QED BY <1>2, <2>1
<1>8. ASSUME NEW e \in Entries, NEW es \in {<<e>>, <<e>> \o te, te \o <<e>>}, r = [t EXCEPT !.entries = es]
      PROVE  EntriesTyped(r.entries)
  <2> DEFINE S2 == S \cup {e}
             one == <<e>>
  <2>1. e.key \in Slots \cup {Wide}
    BY DEF Entries
  <2>2. Readable(S2)
    BY <1>1, <2>1 DEF Readable
  <2>3. one \in Seq(S2)
    OBVIOUS
  <2>4. te \in Seq(S2)
    <3>1. S \subseteq S2
      OBVIOUS
    <3> HIDE DEF S2
    <3> QED BY <1>1, <3>1
  <2>5. es \in {one, one \o te, te \o one}
    OBVIOUS
  <2> HIDE DEF S2, one
  <2>6. es \in Seq(S2)
    BY <2>3, <2>4, <2>5, ConcatProperties
  <2>7. EntriesTyped(es)
    BY <2>2, <2>6, ReadableEntries
  <2>8. r.entries = es
    BY <1>8, <1>d
  <2> QED BY <2>7, <2>8
<1>9. CASE r = [t EXCEPT !.entries = es0]
  <2>1. es0 \in Seq(S)
    OBVIOUS
  <2> HIDE DEF es0
  <2>2. EntriesTyped(es0)
    BY <1>1, <2>1, ReadableEntries
  <2>3. r.entries = es0
    BY <1>9, <1>d
  <2> QED BY <2>2, <2>3
<1>10. ASSUME NEW w \in Worlds, r = Truth(w, a, slots)
       PROVE  EntriesTyped(r.entries)
  <2> DEFINE te2 == r.entries
  <2>1. PICK S2 : Readable(S2) /\ te2 \in Seq(S2)
    BY <1>10, TrueEntries
  <2> HIDE DEF te2
  <2>2. EntriesTyped(te2)
    BY <2>1, ReadableEntries
  <2> QED BY <2>2 DEF te2
<1> QED BY <1>3, <1>4, <1>5, <1>6, <1>7, <1>8, <1>9, <1>10


-----------------------------------------------------------------------------
(* Runs. *)

\* No precompile holds anything: what the local EVM takes for granted.
NoFunds == [p \in Precompiles |-> 0]

\* One step of a run on what is loaded, and of one on the chain.
StepDb(d, r, gas, p) == StepVm(r, gas, p, ReadDb(d, evm_spec_at(r.time), NextOp(r, p.hist)))

StepWorld(w, f, r, gas, p) == StepVm(r, gas, p, ReadWorld(w, f, NextOp(r, p.hist)))

\* g holds the first N steps of a run on what is loaded.
IsRun(g, N, d, r, gas) == g = [n \in 0 .. N |-> IF n = 0 THEN Start(r, gas) ELSE StepDb(d, r, gas, g[n - 1])]

LEMMA RunExists ==
  ASSUME NEW d, NEW r, NEW gas, NEW N \in Nat
  PROVE  \E g : IsRun(g, N, d, r, gas)
<1> DEFINE Short0 == {n \in Nat : ~\E g : IsRun(g, n, d, r, gas)}
           F(v, n) == StepDb(d, r, gas, v)
<1> SUFFICES ASSUME N \in Short0
             PROVE  FALSE
  OBVIOUS
<1>1. \A g, n : IsRun(g, n, d, r, gas) <=> g = [i \in 0 .. n |-> IF i = 0 THEN Start(r, gas) ELSE F(g[i - 1], i)]
  BY DEF IsRun
<1> HIDE DEF F
<1>2. PICK x \in Short0 : \A y \in Short0 : x <= y
  <2>1. Short0 \in SUBSET Nat /\ Short0 # {}
    OBVIOUS
  <2> HIDE DEF Short0
  <2> QED BY <2>1, LeastExists
<1>3. x \in Nat /\ ~\E g : IsRun(g, x, d, r, gas)
  BY <1>2
<1>4. x # 0
  <2> DEFINE g == [i \in 0 .. 0 |-> Start(r, gas)]
  <2>1. g = [i \in 0 .. 0 |-> IF i = 0 THEN Start(r, gas) ELSE F(g[i - 1], i)]
    OBVIOUS
  <2> HIDE DEF g
  <2>2. IsRun(g, 0, d, r, gas)
    BY <1>1, <2>1
  <2> QED BY <1>3, <2>2
<1>5. x - 1 \in Nat /\ x - 1 \notin Short0
  <2>1. x - 1 \in Nat /\ ~(x <= x - 1)
    BY <1>3, <1>4
  <2> HIDE DEF Short0
  <2> QED BY <1>2, <2>1
<1>6. PICK g : IsRun(g, x - 1, d, r, gas)
  BY <1>5
<1>7. g = [i \in 0 .. x - 1 |-> IF i = 0 THEN Start(r, gas) ELSE F(g[i - 1], i)]
  BY <1>1, <1>6
<1>8. \A i \in 0 .. x - 1 : g[i] = IF i = 0 THEN Start(r, gas) ELSE F(g[i - 1], i)
  BY <1>7
<1> DEFINE h == [i \in 0 .. x |-> IF i = x THEN F(g[x - 1], x) ELSE g[i]]
<1>9. \A i \in 0 .. x : h[i] = IF i = 0 THEN Start(r, gas) ELSE F(h[i - 1], i)
  <2> SUFFICES ASSUME NEW i \in 0 .. x
               PROVE  h[i] = IF i = 0 THEN Start(r, gas) ELSE F(h[i - 1], i)
    OBVIOUS
  <2>1. CASE i = x
    <3>1. x - 1 \in 0 .. x /\ x - 1 # x
      BY <1>3, <1>4
    <3> QED BY <1>4, <2>1, <3>1
  <2>2. CASE i # x
    <3>1. i \in 0 .. x - 1 /\ (i # 0 => i - 1 \in 0 .. x /\ i - 1 # x)
      BY <1>3, <2>2
    <3> QED BY <1>8, <2>2, <3>1
  <2> QED BY <2>1, <2>2
<1>10. h = [i \in 0 .. x |-> IF i = 0 THEN Start(r, gas) ELSE F(h[i - 1], i)]
  <2>1. DOMAIN h = 0 .. x /\ h = [i \in DOMAIN h |-> h[i]]
    OBVIOUS
  <2> HIDE DEF h
  <2> QED BY <1>9, <2>1
<1> HIDE DEF h
<1>11. IsRun(h, x, d, r, gas)
  BY <1>1, <1>10
<1> QED BY <1>3, <1>11


\* g holds the first N steps of a run on the chain.
IsChain(g, N, w, f, r, gas) == g = [n \in 0 .. N |-> IF n = 0 THEN Start(r, gas) ELSE StepWorld(w, f, r, gas, g[n - 1])]

LEMMA ChainExists ==
  ASSUME NEW w, NEW f, NEW r, NEW gas, NEW N \in Nat
  PROVE  \E g : IsChain(g, N, w, f, r, gas)
<1> DEFINE Short0 == {n \in Nat : ~\E g : IsChain(g, n, w, f, r, gas)}
           F(v, n) == StepWorld(w, f, r, gas, v)
<1> SUFFICES ASSUME N \in Short0
             PROVE  FALSE
  OBVIOUS
<1>1. \A g, n : IsChain(g, n, w, f, r, gas) <=> g = [i \in 0 .. n |-> IF i = 0 THEN Start(r, gas) ELSE F(g[i - 1], i)]
  BY DEF IsChain
<1> HIDE DEF F
<1>2. PICK x \in Short0 : \A y \in Short0 : x <= y
  <2>1. Short0 \in SUBSET Nat /\ Short0 # {}
    OBVIOUS
  <2> HIDE DEF Short0
  <2> QED BY <2>1, LeastExists
<1>3. x \in Nat /\ ~\E g : IsChain(g, x, w, f, r, gas)
  BY <1>2
<1>4. x # 0
  <2> DEFINE g == [i \in 0 .. 0 |-> Start(r, gas)]
  <2>1. g = [i \in 0 .. 0 |-> IF i = 0 THEN Start(r, gas) ELSE F(g[i - 1], i)]
    OBVIOUS
  <2> HIDE DEF g
  <2>2. IsChain(g, 0, w, f, r, gas)
    BY <1>1, <2>1
  <2> QED BY <1>3, <2>2
<1>5. x - 1 \in Nat /\ x - 1 \notin Short0
  <2>1. x - 1 \in Nat /\ ~(x <= x - 1)
    BY <1>3, <1>4
  <2> HIDE DEF Short0
  <2> QED BY <1>2, <2>1
<1>6. PICK g : IsChain(g, x - 1, w, f, r, gas)
  BY <1>5
<1>7. g = [i \in 0 .. x - 1 |-> IF i = 0 THEN Start(r, gas) ELSE F(g[i - 1], i)]
  BY <1>1, <1>6
<1>8. \A i \in 0 .. x - 1 : g[i] = IF i = 0 THEN Start(r, gas) ELSE F(g[i - 1], i)
  BY <1>7
<1> DEFINE h == [i \in 0 .. x |-> IF i = x THEN F(g[x - 1], x) ELSE g[i]]
<1>9. \A i \in 0 .. x : h[i] = IF i = 0 THEN Start(r, gas) ELSE F(h[i - 1], i)
  <2> SUFFICES ASSUME NEW i \in 0 .. x
               PROVE  h[i] = IF i = 0 THEN Start(r, gas) ELSE F(h[i - 1], i)
    OBVIOUS
  <2>1. CASE i = x
    <3>1. x - 1 \in 0 .. x /\ x - 1 # x
      BY <1>3, <1>4
    <3> QED BY <1>4, <2>1, <3>1
  <2>2. CASE i # x
    <3>1. i \in 0 .. x - 1 /\ (i # 0 => i - 1 \in 0 .. x /\ i - 1 # x)
      BY <1>3, <2>2
    <3> QED BY <1>8, <2>2, <3>1
  <2> QED BY <2>1, <2>2
<1>10. h = [i \in 0 .. x |-> IF i = 0 THEN Start(r, gas) ELSE F(h[i - 1], i)]
  <2>1. DOMAIN h = 0 .. x /\ h = [i \in DOMAIN h |-> h[i]]
    OBVIOUS
  <2> HIDE DEF h
  <2> QED BY <1>9, <2>1
<1> HIDE DEF h
<1>11. IsChain(h, x, w, f, r, gas)
  BY <1>1, <1>10
<1> QED BY <1>3, <1>11


\* A run on what is loaded, step by step.
LEMMA RunSteps ==
  ASSUME NEW d, NEW r, NEW gas
  PROVE  \E g : /\ transact_call(d, r, gas) = g[MaxOps] /\ g[0] = Start(r, gas)
                /\ \A n \in 1 .. MaxOps : g[n] = StepDb(d, r, gas, g[n - 1])
<1> DEFINE s0 == Start(r, gas)
           g == CHOOSE h : h = [n \in 0 .. MaxOps |-> IF n = 0 THEN s0 ELSE StepDb(d, r, gas, h[n - 1])]
<1>1. transact_call(d, r, gas) = g[MaxOps]
  BY DEF transact_call, StepDb
<1>2. g = [n \in 0 .. MaxOps |-> IF n = 0 THEN s0 ELSE StepDb(d, r, gas, g[n - 1])]
  <2>1. \E h : IsRun(h, MaxOps, d, r, gas)
    BY CallNats, RunExists
  <2>2. \E h : h = [n \in 0 .. MaxOps |-> IF n = 0 THEN s0 ELSE StepDb(d, r, gas, h[n - 1])]
    BY <2>1 DEF IsRun
  <2> HIDE DEF s0
  <2> QED BY <2>2
<1> HIDE DEF g, s0
<1>3. \A n \in 0 .. MaxOps : g[n] = IF n = 0 THEN s0 ELSE StepDb(d, r, gas, g[n - 1])
  BY <1>2
<1>4. g[0] = s0 /\ \A n \in 1 .. MaxOps : g[n] = StepDb(d, r, gas, g[n - 1])
  BY <1>3, CallNats
<1> QED BY <1>1, <1>4 DEF s0


\* A run on the chain, step by step.
LEMMA ChainSteps ==
  ASSUME NEW w, NEW f, NEW r, NEW gas
  PROVE  \E g : /\ OnChain(w, f, r, gas) = g[MaxOps] /\ g[0] = Start(r, gas)
                /\ \A n \in 1 .. MaxOps : g[n] = StepWorld(w, f, r, gas, g[n - 1])
<1> DEFINE s0 == Start(r, gas)
           g == CHOOSE h : h = [n \in 0 .. MaxOps |-> IF n = 0 THEN s0 ELSE StepWorld(w, f, r, gas, h[n - 1])]
<1>1. OnChain(w, f, r, gas) = g[MaxOps]
  BY DEF OnChain, StepWorld
<1>2. g = [n \in 0 .. MaxOps |-> IF n = 0 THEN s0 ELSE StepWorld(w, f, r, gas, g[n - 1])]
  <2>1. \E h : IsChain(h, MaxOps, w, f, r, gas)
    BY CallNats, ChainExists
  <2>2. \E h : h = [n \in 0 .. MaxOps |-> IF n = 0 THEN s0 ELSE StepWorld(w, f, r, gas, h[n - 1])]
    BY <2>1 DEF IsChain
  <2> HIDE DEF s0
  <2> QED BY <2>2
<1> HIDE DEF g, s0
<1>3. \A n \in 0 .. MaxOps : g[n] = IF n = 0 THEN s0 ELSE StepWorld(w, f, r, gas, g[n - 1])
  BY <1>2
<1>4. g[0] = s0 /\ \A n \in 1 .. MaxOps : g[n] = StepWorld(w, f, r, gas, g[n - 1])
  BY <1>3, CallNats
<1> QED BY <1>1, <1>4 DEF s0


Read ==
  [op : {"account"}, a : Named] \cup [op : {"native"}, a : Precompiles]
  \cup [op : {"slot"}, a : Accounts, s : Slots] \cup [op : {"hash"}, n : Nat]

\* A run asks for an account, a slot or a hash, or it does not read.
LEMMA NextOpTyped ==
  ASSUME NEW r \in CallRequest, NEW hist, NEW op, op = NextOp(r, hist)
  PROVE  /\ op.op \in {"account", "native", "slot", "hash", "gas", "stop", "revert", "invalid"}
         /\ op.op \in {"account", "native", "slot", "hash"} => op \in Read
         /\ op.op = "stop" => op.refund \in Nat
<1>1. r.from \in Named /\ r.to \in Named /\ r.coinbase \in Named
  BY DEF CallRequest
<1> DEFINE o == Op(hist[2].code, hist)
           p == IF o \in Ops THEN o ELSE [op |-> "invalid"]
<1>2. op \in {Account(r.from), Called(r.to), Account(r.coinbase), p}
  BY DEF NextOp
<1>3a. CASE op = Called(r.to)
  <2>1. CASE r.to \in Precompiles
    <3>1. op = [op |-> "native", a |-> r.to]
      BY <1>3a, <2>1 DEF Called
    <3> QED BY <2>1, <3>1 DEF Read
  <2>2. CASE r.to \notin Precompiles
    <3>1. op = [op |-> "account", a |-> r.to]
      BY <1>3a, <2>2 DEF Called
    <3> QED BY <1>1, <3>1 DEF Read
  <2> QED BY <2>1, <2>2
<1>3. CASE op \in {Account(r.from), Account(r.coinbase)}
  <2>1. \A a \in Named : Account(a).op = "account" /\ Account(a) \in [op : {"account"}, a : Named]
    BY DEF Account
  <2>2. op.op = "account" /\ op \in [op : {"account"}, a : Named]
    BY <1>1, <1>3, <2>1
  <2> QED BY <2>2 DEF Read
<1>4. CASE op = p
  <2>1. CASE o \in Ops
    <3>1. op \in Ops
      BY <1>4, <2>1
    <3> QED BY <3>1 DEF Ops, Read
  <2>2. CASE o \notin Ops
    <3>1. op = [op |-> "invalid"]
      BY <1>4, <2>2
    <3> QED BY <3>1
  <2> QED BY <2>1, <2>2
<1> QED BY <1>2, <1>3, <1>3a, <1>4


Stopped == {"missing", "unsupported", "nohash"}

VmFields == {"hist", "st", "used", "out", "op", "seen"}

\* What a miss is of.
Missed == [op : {"account"}, a : Accounts] \cup [op : {"slot"}, a : Accounts, s : Slots]

\* What is loaded reads as the chain does, or the run stops there.
LEMMA ReadsAgree ==
  ASSUME NEW w \in Worlds, NEW d, DbSound(w, d), NEW spec, NEW op \in Read,
         NEW got, got = ReadDb(d, spec, op)
  PROVE  /\ got.st = "" => got = ReadWorld(w, NoFunds, op)
         /\ got.st \in Stopped \cup {""}
         /\ got.st = "missing" => op \in Missed
<1>g. \A v : Got(v).st = ""
  BY DEF Got
<1>m. /\ Miss("missing").st = "missing" /\ Miss("unsupported").st = "unsupported"
      /\ Miss("nohash").st = "nohash"
  BY DEF Miss
<1>d. /\ DOMAIN d \subseteq Accounts
      /\ \A a \in DOMAIN d : /\ d[a].info = State[w][a] /\ DOMAIN d[a].slots \subseteq Slots
                             /\ \A s \in DOMAIN d[a].slots : d[a].slots[s] = w[a].store[s]
  BY DEF DbSound, SlotsSound
<1>1. CASE op \in [op : {"account"}, a : Named]
  <2> DEFINE a == op.a
             kind == precompile_kind(a, spec)
  <2>1. op.op = "account" /\ a \in Named /\ got = basic(d, a, spec)
    <3>1. op.op = "account" /\ op.a \in Named
      BY <1>1
    <3> QED BY <3>1 DEF ReadDb
  <2>2. /\ kind \in {"Account", "Local", "Unsupported"}
        /\ kind = "Account" => a \notin Precompiles
        /\ kind = "Local" => a \in Precompiles
    BY DEF precompile_kind
  <2>3. /\ a \in Precompiles => ReadWorld(w, NoFunds, op) = Got(Native(0))
        /\ a \notin Precompiles => a \in Accounts /\ ReadWorld(w, NoFunds, op) = Got(State[w][a])
    <3>1. a \notin Precompiles => a \in Accounts
      BY <2>1 DEF Named
    <3>2. a \in Precompiles => a \notin Accounts
      BY CallConstants
    <3>3. a \in Precompiles => NoFunds[a] = 0
      BY DEF NoFunds
    <3> QED BY <2>1, <3>1, <3>2, <3>3 DEF ReadWorld
  <2>4. got = CASE kind = "Unsupported" -> Miss("unsupported")
                [] kind = "Local" -> Got(Native(0))
                [] kind = "Account" /\ a \in DOMAIN d -> Got(d[a].info)
                [] kind = "Account" /\ a \notin DOMAIN d -> Miss("missing")
    BY <2>1 DEF basic
  <2> HIDE DEF kind
  <2>5. CASE kind = "Unsupported"
    BY <1>m, <2>4, <2>5 DEF Stopped
  <2>6. CASE kind = "Local"
    <3>1. got = Got(Native(0)) /\ ReadWorld(w, NoFunds, op) = Got(Native(0))
      BY <2>2, <2>3, <2>4, <2>6
    <3> QED BY <1>g, <3>1
  <2>7. CASE kind = "Account" /\ a \in DOMAIN d
    <3>1. got = Got(d[a].info) /\ ReadWorld(w, NoFunds, op) = Got(State[w][a])
      BY <2>2, <2>3, <2>4, <2>7
    <3>2. got = ReadWorld(w, NoFunds, op)
      BY <1>d, <2>7, <3>1
    <3> QED BY <1>g, <3>1, <3>2
  <2>8. CASE kind = "Account" /\ a \notin DOMAIN d
    <3>1. got = Miss("missing") /\ a \in Accounts
      BY <2>2, <2>3, <2>4, <2>8
    <3>2. op \in [op : {"account"}, a : Accounts]
      BY <1>1, <3>1
    <3> QED BY <1>m, <3>1, <3>2 DEF Stopped, Missed
  <2> QED BY <2>2, <2>5, <2>6, <2>7, <2>8
<1>2. CASE op \in [op : {"slot"}, a : Accounts, s : Slots]
  <2> DEFINE a == op.a
             s == op.s
  <2>1. op.op = "slot" /\ a \in Accounts /\ s \in Slots
    BY <1>2
  <2>2. got = storage(d, a, s) /\ ReadWorld(w, NoFunds, op) = Got(w[a].store[s])
    BY <2>1 DEF ReadDb, ReadWorld
  <2> HIDE DEF a, s
  <2>3. CASE a \notin DOMAIN d
    <3>1. got = Miss("missing")
      BY <2>2, <2>3 DEF storage
    <3> QED BY <1>2, <1>m, <3>1 DEF Stopped, Missed
  <2>4. CASE a \in DOMAIN d /\ s \in DOMAIN d[a].slots
    <3>1. got = Got(d[a].slots[s])
      BY <2>2, <2>4 DEF storage, Held
    <3>2. d[a].slots[s] = w[a].store[s]
      BY <1>d, <2>4
    <3>3. got = ReadWorld(w, NoFunds, op)
      BY <2>2, <3>1, <3>2
    <3> QED BY <1>g, <3>1, <3>3
  <2>5. CASE a \in DOMAIN d /\ s \notin DOMAIN d[a].slots
    <3>1. got = IF d[a].info.root = EMPTY_TRIE_ROOT THEN Got(0) ELSE Miss("missing")
      BY <2>2, <2>5 DEF storage, Held
    <3>2. d[a].info = State[w][a]
      BY <1>d, <2>5
    <3>3. CASE State[w][a].root = EMPTY_TRIE_ROOT
      <4>1. w[a].store[s] = 0
        BY <2>1, <3>3, StateFacts
      <4>2. got = Got(0) /\ got = ReadWorld(w, NoFunds, op)
        BY <2>2, <3>1, <3>2, <3>3, <4>1
      <4> QED BY <1>g, <4>2
    <3>4. CASE State[w][a].root # EMPTY_TRIE_ROOT
      <4>1. got = Miss("missing")
        BY <3>1, <3>2, <3>4
      <4> QED BY <1>2, <1>m, <4>1 DEF Stopped, Missed
    <3> QED BY <3>3, <3>4
  <2> QED BY <2>3, <2>4, <2>5
<1>3. CASE op \in [op : {"hash"}, n : Nat]
  <2> DEFINE n == op.n
             gone == Expired(n)
  <2>1. op.op = "hash"
    BY <1>3
  <2>2. got = block_hash(n) /\ ReadWorld(w, NoFunds, op) = Got(HashOf(IF gone THEN 0 ELSE n))
    BY <2>1 DEF ReadDb, ReadWorld
  <2>3. got = CASE gone -> Got(HashOf(0)) [] ~gone /\ n \in Known -> Got(HashOf(n))
                [] ~gone /\ n \notin Known -> Miss("nohash")
    BY <2>2 DEF block_hash
  <2>4. gone \in BOOLEAN
    BY DEF Expired
  <2> HIDE DEF gone, n
  <2>5. CASE gone
    <3>1. got = Got(HashOf(0)) /\ ReadWorld(w, NoFunds, op) = Got(HashOf(0))
      BY <2>2, <2>3, <2>5
    <3> QED BY <1>g, <3>1
  <2>6. CASE ~gone /\ n \in Known
    <3>1. got = Got(HashOf(n)) /\ ReadWorld(w, NoFunds, op) = Got(HashOf(n))
      BY <2>2, <2>3, <2>6
    <3> QED BY <1>g, <3>1
  <2>7. CASE ~gone /\ n \notin Known
    <3>1. got = Miss("nohash")
      BY <2>3, <2>7
    <3> QED BY <1>m, <3>1 DEF Stopped
  <2> QED BY <2>4, <2>5, <2>6, <2>7
<1>4. CASE op \in [op : {"native"}, a : Precompiles]
  <2> DEFINE a == op.a
             kind == precompile_kind(a, spec)
             b == basic(d, a, spec)
  <2>1. op.op = "native" /\ a \in Precompiles
    BY <1>4
  <2>2. kind \in {"Local", "Unsupported"}
    BY <2>1 DEF precompile_kind
  <2>3. got = Callee(b) /\ ReadWorld(w, NoFunds, op) = Callee(Got(Native(0)))
    <3>1. NoFunds[a] = 0
      BY <2>1 DEF NoFunds
    <3> QED BY <2>1, <3>1 DEF ReadDb, ReadWorld
  <2>4. /\ kind = "Unsupported" => b = Miss("unsupported")
        /\ kind = "Local" => b = Got(Native(0))
    BY DEF basic
  <2>5. CASE kind = "Unsupported"
    <3>1. got = Miss("unsupported")
      BY <1>m, <2>3, <2>4, <2>5 DEF Callee
    <3> QED BY <1>m, <3>1 DEF Stopped
  <2>6. CASE kind = "Local"
    <3>1. got = ReadWorld(w, NoFunds, op)
      BY <2>3, <2>4, <2>6
    <3>2. got.st = ""
      BY <1>g, <2>3, <2>4, <2>6 DEF Callee
    <3> QED BY <3>1, <3>2
  <2> QED BY <2>2, <2>5, <2>6
<1> QED BY <1>1, <1>2, <1>3, <1>4 DEF Read


\* A run in the bounds of its gas.
VmOK(m, gas) ==
  /\ DOMAIN m = VmFields /\ m.used \in Nat
  /\ m.st # "invalid" => m.used <= gas /\ TX_GAS <= gas

Reading == {"account", "native", "slot", "hash"}

LEMMA StartOK ==
  ASSUME NEW r, NEW gas \in Nat
  PROVE  VmOK(Start(r, gas), gas) /\ Start(r, gas).st \in {"", "invalid"}
<1> DEFINE m == Start(r, gas)
<1>1. DOMAIN m = VmFields /\ m.used = TX_GAS /\ m.st = IF gas < TX_GAS THEN "invalid" ELSE ""
  BY DEF Start, VmFields
<1> SUFFICES VmOK(m, gas) /\ m.st \in {"", "invalid"}
  OBVIOUS
<1>2. gas \in Nat /\ TX_GAS \in Nat
  BY CallNats
<1> HIDE DEF m
<1>3. m.st \in {"", "invalid"} /\ (m.st # "invalid" => m.used <= gas /\ TX_GAS <= gas) /\ m.used \in Nat
  <2>1. CASE gas < TX_GAS
    <3>1. m.st = "invalid"
      BY ONLY <1>1, <2>1
    <3> QED BY <1>1, <1>2, <3>1
  <2>2. CASE ~(gas < TX_GAS)
    <3>1. m.st = ""
      BY ONLY <1>1, <2>2
    <3>2. TX_GAS <= gas
      BY ONLY <1>2, <2>2
    <3> QED BY <1>1, <1>2, <3>1, <3>2
  <2> QED BY <2>1, <2>2
<1> QED BY ONLY <1>1, <1>3 DEF VmOK

\* What a run is after each of the steps it may take.
AfterStop(m, op) ==
  [m EXCEPT !.st = "success", !.out = op.out, !.used = IF op.refund < @ THEN @ - op.refund ELSE 0]

AfterRevert(m, op) == [m EXCEPT !.st = "revert", !.out = op.out]

AfterHalt(m) == [m EXCEPT !.st = "halt"]

AfterGas(m, gas) == [m EXCEPT !.hist = Append(@, gas - m.used)]

AfterMiss(m, op, st) == [m EXCEPT !.st = st, !.op = op]

AfterRead(m, op, cost, val) ==
  [m EXCEPT !.hist = Append(@, val), !.used = @ + cost, !.seen = @ \cup {op}]

Cost(m) == IF Len(m.hist) < 3 THEN 0 ELSE 1

Over(m, gas) == m.used + Cost(m) > gas

StepCase(gas, m, op, got, x) ==
  /\ m.st # "" => x = m
  /\ m.st = "" /\ op.op = "stop" => x = AfterStop(m, op)
  /\ m.st = "" /\ op.op = "revert" => x = AfterRevert(m, op)
  /\ m.st = "" /\ op.op = "invalid" => x = AfterHalt(m)
  /\ m.st = "" /\ op.op = "gas" => x = AfterGas(m, gas)
  /\ m.st = "" /\ op.op \in Reading =>
       x = IF Over(m, gas) THEN AfterHalt(m)
           ELSE IF got.st # "" THEN AfterMiss(m, op, got.st) ELSE AfterRead(m, op, Cost(m), got.val)

\* A step, by what the run asks for.
LEMMA StepCases ==
  ASSUME NEW r, NEW gas, NEW m, NEW got
  PROVE  StepCase(gas, m, NextOp(r, m.hist), got, StepVm(r, gas, m, got))
<1> DEFINE op == NextOp(r, m.hist)
           x == StepVm(r, gas, m, got)
           st == m.st
           o == op.op
           e1 == AfterStop(m, op)
           e2 == AfterRevert(m, op)
           e3 == AfterHalt(m)
           e4 == AfterGas(m, gas)
           e5 == IF Over(m, gas) THEN AfterHalt(m)
                 ELSE IF got.st # "" THEN AfterMiss(m, op, got.st) ELSE AfterRead(m, op, Cost(m), got.val)
<1>1. x = CASE st # "" -> m [] st = "" /\ o = "stop" -> e1 [] st = "" /\ o = "revert" -> e2
            [] st = "" /\ o = "invalid" -> e3 [] st = "" /\ o = "gas" -> e4
            [] st = "" /\ o \in {"account", "native", "slot", "hash"} -> e5
  BY Zenon DEF StepVm, AfterStop, AfterRevert, AfterHalt, AfterGas, AfterMiss, AfterRead, Over, Cost
<1> SUFFICES StepCase(gas, m, op, got, x)
  OBVIOUS
<1>2. x = e5 => x = IF Over(m, gas) THEN AfterHalt(m)
           ELSE IF got.st # "" THEN AfterMiss(m, op, got.st) ELSE AfterRead(m, op, Cost(m), got.val)
  OBVIOUS
<1> DEFINE goal5 == x = IF Over(m, gas) THEN AfterHalt(m)
           ELSE IF got.st # "" THEN AfterMiss(m, op, got.st) ELSE AfterRead(m, op, Cost(m), got.val)
<1> HIDE DEF e1, e2, e3, e4, e5, st, o, op, x, goal5
<1>4. /\ st # "" => x = m
      /\ st = "" /\ o = "stop" => x = e1
      /\ st = "" /\ o = "revert" => x = e2
      /\ st = "" /\ o = "invalid" => x = e3
      /\ st = "" /\ o = "gas" => x = e4
      /\ st = "" /\ o \in Reading => x = e5
  BY ONLY <1>1 DEF Reading
<1> QED BY ONLY <1>4 DEF e1, e2, e3, e4, e5, st, o, StepCase

\* The fields of each.
LEMMA AfterFields ==
  ASSUME NEW m, DOMAIN m = VmFields, NEW op, NEW gas, NEW st, NEW cost, NEW val
  PROVE  /\ DOMAIN AfterStop(m, op) = VmFields /\ AfterStop(m, op).st = "success"
         /\ AfterStop(m, op).used = IF op.refund < m.used THEN m.used - op.refund ELSE 0
         /\ DOMAIN AfterRevert(m, op) = VmFields /\ AfterRevert(m, op).st = "revert"
         /\ AfterRevert(m, op).used = m.used
         /\ DOMAIN AfterHalt(m) = VmFields /\ AfterHalt(m).st = "halt" /\ AfterHalt(m).used = m.used
         /\ DOMAIN AfterGas(m, gas) = VmFields /\ AfterGas(m, gas).st = m.st
         /\ AfterGas(m, gas).used = m.used
         /\ DOMAIN AfterMiss(m, op, st) = VmFields /\ AfterMiss(m, op, st).st = st
         /\ AfterMiss(m, op, st).op = op /\ AfterMiss(m, op, st).used = m.used
         /\ DOMAIN AfterRead(m, op, cost, val) = VmFields /\ AfterRead(m, op, cost, val).st = m.st
         /\ AfterRead(m, op, cost, val).used = m.used + cost
<1>1. /\ DOMAIN AfterStop(m, op) = VmFields /\ AfterStop(m, op).st = "success"
      /\ AfterStop(m, op).used = IF op.refund < m.used THEN m.used - op.refund ELSE 0
  BY DEF AfterStop, VmFields
<1>2. /\ DOMAIN AfterRevert(m, op) = VmFields /\ AfterRevert(m, op).st = "revert"
      /\ AfterRevert(m, op).used = m.used
  BY DEF AfterRevert, VmFields
<1>3. DOMAIN AfterHalt(m) = VmFields /\ AfterHalt(m).st = "halt" /\ AfterHalt(m).used = m.used
  BY DEF AfterHalt, VmFields
<1>4. /\ DOMAIN AfterGas(m, gas) = VmFields /\ AfterGas(m, gas).st = m.st
      /\ AfterGas(m, gas).used = m.used
  BY DEF AfterGas, VmFields
<1>5. /\ DOMAIN AfterMiss(m, op, st) = VmFields /\ AfterMiss(m, op, st).st = st
      /\ AfterMiss(m, op, st).op = op /\ AfterMiss(m, op, st).used = m.used
  BY DEF AfterMiss, VmFields
<1>6. /\ DOMAIN AfterRead(m, op, cost, val) = VmFields /\ AfterRead(m, op, cost, val).st = m.st
      /\ AfterRead(m, op, cost, val).used = m.used + cost
  BY DEF AfterRead, VmFields
<1> QED BY <1>1, <1>2, <1>3, <1>4, <1>5, <1>6

\* How a run may have gone on from m.
Outcome(x, m, op, got) ==
  x = m \/ x.st \in {"", "success", "revert", "halt"} \/ (op.op \in Reading /\ x.st = got.st /\ x.op = op)

\* A step keeps to the gas, and a run that has ended stays as it is.
LEMMA StepOK ==
  ASSUME NEW r \in CallRequest, NEW gas \in Nat, NEW m, VmOK(m, gas), NEW op, op = NextOp(r, m.hist),
         NEW got, NEW x, x = StepVm(r, gas, m, got)
  PROVE  /\ VmOK(x, gas)
         /\ Outcome(x, m, op, got)
<1>1. DOMAIN m = VmFields /\ m.used \in Nat /\ (m.st # "invalid" => m.used <= gas /\ TX_GAS <= gas)
  BY DEF VmOK
<1>2. op.op \in {"account", "native", "slot", "hash", "gas", "stop", "revert", "invalid"} /\ (op.op = "stop" => op.refund \in Nat)
  BY NextOpTyped
<1> DEFINE goal == /\ VmOK(x, gas)
                   /\ x = m \/ x.st \in {"", "success", "revert", "halt"} \/ (op.op \in Reading /\ x.st = got.st /\ x.op = op)
<1> SUFFICES goal
  BY DEF Outcome
<1>s. StepCase(gas, m, op, got, x)
  BY StepCases
<1> DEFINE cost == Cost(m)
<1>c. cost \in {0, 1}
  BY DEF Cost
<1>o. Over(m, gas) <=> m.used + cost > gas
  BY DEF Over
<1> HIDE DEF cost
<1>3. CASE m.st # ""
  <2>1. x = m
    BY ONLY <1>3, <1>s DEF StepCase
  <2> QED BY <2>1
<1>4. CASE m.st = "" /\ op.op = "stop"
  <2>1. x = AfterStop(m, op)
    BY ONLY <1>4, <1>s DEF StepCase
  <2>2. DOMAIN x = VmFields /\ x.st = "success" /\ x.used = IF op.refund < m.used THEN m.used - op.refund ELSE 0
    BY ONLY <1>1, <2>1, AfterFields
  <2>3. \A z : \A u \in Nat, f \in Nat : u <= gas /\ z = (IF f < u THEN u - f ELSE 0) => z \in Nat /\ z <= gas
    OBVIOUS
  <2>4. x.used \in Nat /\ x.used <= gas
    BY ONLY <1>1, <1>2, <1>4, <2>2, <2>3
  <2> QED BY <1>1, <1>4, <2>2, <2>4 DEF VmOK
<1>5. CASE m.st = "" /\ op.op = "revert"
  <2>1. x = AfterRevert(m, op)
    BY ONLY <1>5, <1>s DEF StepCase
  <2>2. DOMAIN x = VmFields /\ x.st = "revert" /\ x.used = m.used
    BY ONLY <1>1, <2>1, AfterFields
  <2> QED BY <1>1, <1>5, <2>2 DEF VmOK
<1>6. CASE m.st = "" /\ op.op = "invalid"
  <2>1. x = AfterHalt(m)
    BY ONLY <1>6, <1>s DEF StepCase
  <2>2. DOMAIN x = VmFields /\ x.st = "halt" /\ x.used = m.used
    BY ONLY <1>1, <2>1, AfterFields
  <2> QED BY <1>1, <1>6, <2>2 DEF VmOK
<1>7. CASE m.st = "" /\ op.op = "gas"
  <2>1. x = AfterGas(m, gas)
    BY ONLY <1>7, <1>s DEF StepCase
  <2>2. DOMAIN x = VmFields /\ x.st = m.st /\ x.used = m.used
    BY ONLY <1>1, <2>1, AfterFields
  <2> QED BY <1>1, <1>7, <2>2 DEF VmOK
<1>8. CASE m.st = "" /\ op.op \in Reading
  <2>1. x = IF Over(m, gas) THEN AfterHalt(m)
            ELSE IF got.st # "" THEN AfterMiss(m, op, got.st) ELSE AfterRead(m, op, Cost(m), got.val)
    BY ONLY <1>8, <1>s DEF StepCase
  <2>2. CASE Over(m, gas)
    <3>1. x = AfterHalt(m)
      BY ONLY <2>1, <2>2
    <3>2. DOMAIN x = VmFields /\ x.st = "halt" /\ x.used = m.used
      BY ONLY <1>1, <3>1, AfterFields
    <3> QED BY <1>1, <1>8, <3>2 DEF VmOK
  <2>3. CASE ~Over(m, gas) /\ got.st # ""
    <3>1. x = AfterMiss(m, op, got.st)
      BY ONLY <2>1, <2>3
    <3>2. DOMAIN x = VmFields /\ x.st = got.st /\ x.op = op /\ x.used = m.used
      BY ONLY <1>1, <3>1, AfterFields
    <3> QED BY <1>1, <1>8, <3>2 DEF VmOK
  <2>4. CASE ~Over(m, gas) /\ got.st = ""
    <3>1. x = AfterRead(m, op, Cost(m), got.val)
      BY ONLY <2>1, <2>4
    <3> DEFINE val == got.val
    <3>a. x = AfterRead(m, op, cost, val)
      BY ONLY <3>1 DEF cost
    <3> HIDE DEF val
    <3>2. DOMAIN x = VmFields /\ x.st = m.st /\ x.used = m.used + cost
      BY ONLY <1>1, <3>a, AfterFields
    <3>3. ~(m.used + cost > gas)
      BY <1>o, <2>4
    <3>4. \A z : \A u \in Nat, c \in {0, 1} : z = u + c /\ ~(u + c > gas) => z \in Nat /\ z <= gas
      OBVIOUS
    <3>5. x.used \in Nat /\ x.used <= gas
      BY ONLY <1>1, <1>c, <3>2, <3>3, <3>4
    <3> QED BY <1>8, <3>2, <3>5 DEF VmOK
  <2> QED BY <2>2, <2>3, <2>4
<1> QED BY <1>2, <1>3, <1>4, <1>5, <1>6, <1>7, <1>8 DEF Reading

\* A step that reads nothing is the same whatever a read would have come back with.
LEMMA StepBlind ==
  ASSUME NEW r \in CallRequest, NEW gas, NEW m, NEW op, op = NextOp(r, m.hist), op.op \notin Reading,
         NEW g1, NEW g2
  PROVE  StepVm(r, gas, m, g1) = StepVm(r, gas, m, g2)
<1> DEFINE x1 == StepVm(r, gas, m, g1)
           x2 == StepVm(r, gas, m, g2)
<1>1. op.op \in {"account", "native", "slot", "hash", "gas", "stop", "revert", "invalid"}
  BY NextOpTyped
<1>2. StepCase(gas, m, op, g1, x1)
  BY StepCases
<1>3. StepCase(gas, m, op, g2, x2)
  BY StepCases
<1> SUFFICES x1 = x2
  OBVIOUS
<1> HIDE DEF x1, x2
<1> QED BY ONLY <1>1, <1>2, <1>3, op.op \notin Reading DEF StepCase, Reading


\* p has come as far as q on the chain, or has stopped at a read.
Alike(p, q) == (p = q \/ p.st \in Stopped) /\ (p.st = "missing" => p.op \in Missed)

LEMMA StepAlike ==
  ASSUME NEW w \in Worlds, NEW d, DbSound(w, d), NEW r \in CallRequest, NEW gas \in Nat,
         NEW p, NEW q, VmOK(p, gas), VmOK(q, gas), Alike(p, q),
         NEW x, x = StepDb(d, r, gas, p), NEW y, y = StepWorld(w, NoFunds, r, gas, q)
  PROVE  VmOK(x, gas) /\ VmOK(y, gas) /\ Alike(x, y)
<1> DEFINE op == NextOp(r, p.hist)
           g1 == ReadDb(d, evm_spec_at(r.time), op)
           g2 == ReadWorld(w, NoFunds, op)
           oq == NextOp(r, q.hist)
           gq == ReadWorld(w, NoFunds, oq)
<1>1. x = StepVm(r, gas, p, g1) /\ y = StepVm(r, gas, q, gq)
  BY DEF StepDb, StepWorld
<1>2. op.op \in Reading => op \in Read
  BY NextOpTyped DEF Reading
<1>3. op.op \in Reading => /\ g1.st = "" => g1 = g2
                           /\ g1.st \in Stopped \cup {""}
                           /\ g1.st = "missing" => op \in Missed
  <2> HIDE DEF op
  <2> QED BY <1>2, ReadsAgree
<1>4. p = q => oq = op /\ gq = g2
  OBVIOUS
<1>5. op = NextOp(r, p.hist) /\ oq = NextOp(r, q.hist)
  OBVIOUS
<1> HIDE DEF op, oq, g1, g2, gq
<1>6. VmOK(x, gas) /\ Outcome(x, p, op, g1)
  BY ONLY r \in CallRequest, gas \in Nat, VmOK(p, gas), <1>1, <1>5, StepOK
<1>7. VmOK(y, gas)
  BY <1>1, <1>5, StepOK
<1>8. StepCase(gas, p, op, g1, x) /\ StepCase(gas, q, oq, gq, y)
  BY <1>1, <1>5, StepCases
<1>9. x.st = "missing" => x.op \in Missed
  BY <1>3, <1>6 DEF Alike, Outcome
<1>10. x = y \/ x.st \in Stopped
  <2>1. CASE p.st # ""
    <3>1. x = p
      BY ONLY <1>8, <2>1 DEF StepCase
    <3>2. CASE p = q
      <4>1. y = q
        BY ONLY <1>8, <2>1, <3>2 DEF StepCase
      <4> QED BY <3>1, <3>2, <4>1
    <3>3. CASE p.st \in Stopped
      BY <3>1, <3>3
    <3> QED BY <3>2, <3>3 DEF Alike
  <2>2. CASE p.st = ""
    <3>1. p = q
      BY <2>2 DEF Alike, Stopped
    <3>2. y = StepVm(r, gas, p, g2)
      BY <1>1, <1>4, <3>1
    <3>3. CASE op.op \notin Reading
      BY <1>1, <1>5, <3>2, <3>3, StepBlind
    <3>4. CASE op.op \in Reading /\ g1.st = ""
      BY <1>1, <1>3, <3>2, <3>4
    <3>5. CASE op.op \in Reading /\ g1.st # ""
      <4>1. x = IF Over(p, gas) THEN AfterHalt(p) ELSE AfterMiss(p, op, g1.st)
        BY ONLY <1>8, <2>2, <3>5 DEF StepCase
      <4>2. CASE Over(p, gas)
        <5>1. x = AfterHalt(p) /\ y = AfterHalt(p)
          BY ONLY <1>4, <1>8, <2>2, <3>1, <3>5, <4>1, <4>2 DEF StepCase
        <5> QED BY <5>1
      <4>3. CASE ~Over(p, gas)
        <5> DEFINE st == g1.st
        <5>1. x = AfterMiss(p, op, st)
          BY ONLY <4>1, <4>3
        <5>2. DOMAIN p = VmFields
          BY DEF VmOK
        <5>3. st \in Stopped
          BY <1>3, <3>5
        <5> HIDE DEF st
        <5>4. x.st = st
          BY ONLY <5>1, <5>2, AfterFields
        <5> QED BY <5>3, <5>4
      <4> QED BY <4>2, <4>3
    <3> QED BY <3>3, <3>4, <3>5
  <2> QED BY <2>1, <2>2
<1> QED BY <1>6, <1>7, <1>9, <1>10 DEF Alike

\* A run on what is loaded goes as the run on the chain goes, or it stops at a read.
LEMMA RunsAlike ==
  ASSUME NEW w \in Worlds, NEW d, DbSound(w, d), NEW r \in CallRequest, NEW gas \in Nat
  PROVE  /\ VmOK(transact_call(d, r, gas), gas) /\ VmOK(OnChain(w, NoFunds, r, gas), gas)
         /\ Alike(transact_call(d, r, gas), OnChain(w, NoFunds, r, gas))
<1>1. PICK g : /\ transact_call(d, r, gas) = g[MaxOps] /\ g[0] = Start(r, gas)
               /\ \A n \in 1 .. MaxOps : g[n] = StepDb(d, r, gas, g[n - 1])
  BY RunSteps
<1>2. PICK h : /\ OnChain(w, NoFunds, r, gas) = h[MaxOps] /\ h[0] = Start(r, gas)
               /\ \A n \in 1 .. MaxOps : h[n] = StepWorld(w, NoFunds, r, gas, h[n - 1])
  BY ChainSteps
<1> DEFINE Good(n) == VmOK(g[n], gas) /\ VmOK(h[n], gas) /\ Alike(g[n], h[n])
           Off == {n \in 0 .. MaxOps : ~Good(n)}
<1>3. Good(0)
  <2>1. \A m : m.st \in {"", "invalid"} => m.st # "missing"
    OBVIOUS
  <2> QED BY <1>1, <1>2, <2>1, StartOK DEF Alike
<1>4. Off = {}
  <2> SUFFICES ASSUME Off # {}
               PROVE  FALSE
    OBVIOUS
  <2>1. PICK x \in Off : \A y \in Off : x <= y
    <3>1. Off \in SUBSET Nat
      OBVIOUS
    <3> HIDE DEF Off
    <3> QED BY <3>1, LeastExists
  <2>2. x \in 0 .. MaxOps /\ ~Good(x)
    BY <2>1
  <2>3. x # 0
    BY <1>3, <2>2
  <2>4. x - 1 \in 0 .. MaxOps /\ x \in 1 .. MaxOps /\ ~(x <= x - 1)
    BY CallNats, <2>2, <2>3
  <2>5. Good(x - 1)
    BY <2>1, <2>4
  <2> DEFINE p == g[x - 1]
             q == h[x - 1]
             u == g[x]
             v == h[x]
  <2>6. VmOK(p, gas) /\ VmOK(q, gas) /\ Alike(p, q)
    BY <2>5
  <2>7. u = StepDb(d, r, gas, p) /\ v = StepWorld(w, NoFunds, r, gas, q)
    BY <1>1, <1>2, <2>4
  <2>8. ~(VmOK(u, gas) /\ VmOK(v, gas) /\ Alike(u, v))
    BY <2>2
  <2> HIDE DEF p, q, u, v
  <2> QED BY <2>6, <2>7, <2>8, StepAlike
<1>5. Good(MaxOps)
  <2>1. MaxOps \in 0 .. MaxOps
    BY CallNats
  <2> HIDE DEF Good
  <2> QED BY <1>4, <2>1
<1> QED BY <1>1, <1>2, <1>5

LEMMA NothingLoaded ==
  ASSUME NEW w
  PROVE  DbSound(w, <<>>)
<1> DEFINE e == <<>>
<1>1. DOMAIN e = {}
  OBVIOUS
<1>2. Cardinality(DOMAIN e) <= MAX_CALL_ACCOUNTS
  BY <1>1, CallNats, FS_EmptySet
<1> SUFFICES DbSound(w, e)
  OBVIOUS
<1> HIDE DEF e
<1> QED BY <1>1, <1>2 DEF DbSound

LEMMA ChainOK ==
  ASSUME NEW w \in Worlds, NEW r \in CallRequest, NEW gas \in Nat
  PROVE  VmOK(OnChain(w, NoFunds, r, gas), gas)
BY NothingLoaded, RunsAlike


-----------------------------------------------------------------------------
(* Gas. *)

\* The gas of a call is within the client's own cap.
LEMMA GasOfCall ==
  ASSUME NEW r \in CallRequest
  PROVE  call_gas(r) \in Nat /\ call_gas(r) <= CALL_GAS_CAP
<1> DEFINE S == {IF r.gas = 0 THEN CALL_GAS_CAP ELSE r.gas, CALL_GAS_CAP, r.limit}
                \cup IF evm_spec_at(r.time) >= Osaka THEN {MAX_TX_GAS} ELSE {}
<1>1. r.gas \in Nat /\ r.limit \in Nat
  BY DEF CallRequest
<1>2. S \in SUBSET Nat /\ CALL_GAS_CAP \in S
  BY <1>1, CallNats
<1>3. call_gas(r) = CHOOSE x \in S : \A y \in S : x <= y
  BY DEF call_gas, Min
<1> HIDE DEF S
<1>4. \E x \in S : \A y \in S : x <= y
  BY <1>2, LeastExists
<1>5. call_gas(r) \in S /\ \A y \in S : call_gas(r) <= y
  BY <1>3, <1>4
<1> QED BY <1>2, <1>5

\* g holds the first N powers of two.
IsHalving(g, N) == g = [n \in 0 .. N |-> IF n = 0 THEN 1 ELSE 2 * g[n - 1]]

LEMMA HalvingExists ==
  ASSUME NEW N \in Nat
  PROVE  \E g : IsHalving(g, N)
<1> DEFINE Short0 == {n \in Nat : ~\E g : IsHalving(g, n)}
           F(v, n) == 2 * v
<1> SUFFICES ASSUME N \in Short0
             PROVE  FALSE
  OBVIOUS
<1>1. \A g, n : IsHalving(g, n) <=> g = [i \in 0 .. n |-> IF i = 0 THEN 1 ELSE F(g[i - 1], i)]
  BY DEF IsHalving
<1> HIDE DEF F
<1>2. PICK x \in Short0 : \A y \in Short0 : x <= y
  <2>1. Short0 \in SUBSET Nat /\ Short0 # {}
    OBVIOUS
  <2> HIDE DEF Short0
  <2> QED BY <2>1, LeastExists
<1>3. x \in Nat /\ ~\E g : IsHalving(g, x)
  BY <1>2
<1>4. x # 0
  <2> DEFINE g == [i \in 0 .. 0 |-> 1]
  <2>1. g = [i \in 0 .. 0 |-> IF i = 0 THEN 1 ELSE F(g[i - 1], i)]
    OBVIOUS
  <2> HIDE DEF g
  <2>2. IsHalving(g, 0)
    BY <1>1, <2>1
  <2> QED BY <1>3, <2>2
<1>5. x - 1 \in Nat /\ x - 1 \notin Short0
  <2>1. x - 1 \in Nat /\ ~(x <= x - 1)
    BY <1>3, <1>4
  <2> HIDE DEF Short0
  <2> QED BY <1>2, <2>1
<1>6. PICK g : IsHalving(g, x - 1)
  BY <1>5
<1>7. g = [i \in 0 .. x - 1 |-> IF i = 0 THEN 1 ELSE F(g[i - 1], i)]
  BY <1>1, <1>6
<1>8. \A i \in 0 .. x - 1 : g[i] = IF i = 0 THEN 1 ELSE F(g[i - 1], i)
  BY <1>7
<1> DEFINE h == [i \in 0 .. x |-> IF i = x THEN F(g[x - 1], x) ELSE g[i]]
<1>9. \A i \in 0 .. x : h[i] = IF i = 0 THEN 1 ELSE F(h[i - 1], i)
  <2> SUFFICES ASSUME NEW i \in 0 .. x
               PROVE  h[i] = IF i = 0 THEN 1 ELSE F(h[i - 1], i)
    OBVIOUS
  <2>1. CASE i = x
    <3>1. x - 1 \in 0 .. x /\ x - 1 # x
      BY <1>3, <1>4
    <3> QED BY <1>4, <2>1, <3>1
  <2>2. CASE i # x
    <3>1. i \in 0 .. x - 1 /\ (i # 0 => i - 1 \in 0 .. x /\ i - 1 # x)
      BY <1>3, <2>2
    <3> QED BY <1>8, <2>2, <3>1
  <2> QED BY <2>1, <2>2
<1>10. h = [i \in 0 .. x |-> IF i = 0 THEN 1 ELSE F(h[i - 1], i)]
  <2>1. DOMAIN h = 0 .. x /\ h = [i \in DOMAIN h |-> h[i]]
    OBVIOUS
  <2> HIDE DEF h
  <2> QED BY <1>9, <2>1
<1> HIDE DEF h
<1>11. IsHalving(h, x)
  BY <1>1, <1>10
<1> QED BY <1>3, <1>11


LEMMA HalvingsAre ==
  /\ Halvings[0] = 1
  /\ \A n \in 1 .. MAX_ESTIMATE_ITERS : Halvings[n] = 2 * Halvings[n - 1]
<1> DEFINE N == MAX_ESTIMATE_ITERS
           g == CHOOSE h : h = [n \in 0 .. N |-> IF n = 0 THEN 1 ELSE 2 * h[n - 1]]
<1>1. Halvings = g
  BY DEF Halvings
<1>2. N \in Nat
  BY CallNats
<1> HIDE DEF N
<1>3. g = [n \in 0 .. N |-> IF n = 0 THEN 1 ELSE 2 * g[n - 1]]
  <2>1. \E h : IsHalving(h, N)
    BY <1>2, HalvingExists
  <2>2. \E h : h = [n \in 0 .. N |-> IF n = 0 THEN 1 ELSE 2 * h[n - 1]]
    BY <2>1 DEF IsHalving
  <2> QED BY <2>2
<1> HIDE DEF g
<1>4. \A n \in 0 .. N : g[n] = IF n = 0 THEN 1 ELSE 2 * g[n - 1]
  BY <1>3
<1>5. g[0] = 1 /\ \A n \in 1 .. N : g[n] = 2 * g[n - 1]
  BY <1>2, <1>4
<1> QED BY <1>1, <1>5 DEF N

LEMMA HalvingsNat ==
  \A n \in 0 .. MAX_ESTIMATE_ITERS : Halvings[n] \in Nat
<1> DEFINE Off == {n \in 0 .. MAX_ESTIMATE_ITERS : Halvings[n] \notin Nat}
<1> SUFFICES ASSUME Off # {}
             PROVE  FALSE
  OBVIOUS
<1>1. PICK x \in Off : \A y \in Off : x <= y
  <2>1. Off \in SUBSET Nat
    OBVIOUS
  <2> HIDE DEF Off
  <2> QED BY <2>1, LeastExists
<1>2. x \in 0 .. MAX_ESTIMATE_ITERS /\ Halvings[x] \notin Nat
  BY <1>1
<1>3. x # 0
  BY <1>2, HalvingsAre
<1>4. x - 1 \in 0 .. MAX_ESTIMATE_ITERS /\ x \in 1 .. MAX_ESTIMATE_ITERS /\ ~(x <= x - 1)
  BY CallNats, <1>2, <1>3
<1>5. Halvings[x - 1] \in Nat
  BY <1>1, <1>4
<1>6. Halvings[x] = 2 * Halvings[x - 1]
  BY <1>4, HalvingsAre
<1> HIDE DEF Off
<1> QED BY <1>2, <1>5, <1>6

-----------------------------------------------------------------------------
(* The search of an estimate. *)

\* Enough and Steady of a state and a request.
EnoughAt(w, r) == {g \in TX_GAS .. call_gas(r) : OnChain(w, NoFunds, r, g).st = "success"}

SteadyAt(w, r) ==
  /\ \A g \in EnoughAt(w, r) : g .. call_gas(r) \subseteq EnoughAt(w, r)
  /\ \A g, h \in EnoughAt(w, r) : OnChain(w, NoFunds, r, g).used = OnChain(w, NoFunds, r, h).used

\* The call succeeds with gas hi and, when its course does not depend on its gas, with no gas up
\* to lo; width is what is left to search.
Bracket(w, r, lo, hi, width) ==
  /\ lo \in Nat /\ hi \in EnoughAt(w, r) /\ lo < hi /\ hi - lo <= width
  /\ SteadyAt(w, r) => \A g \in EnoughAt(w, r) : lo < g

SearchFields == [gas : Nat, lo : Nat, hi : Nat, iters : 0 .. MAX_ESTIMATE_ITERS]

SearchOK(w, r, p, s) ==
  /\ s \in SearchFields
  /\ s.hi = 0 => s.lo = 0 /\ s.iters = 0
  /\ r.kind = "call" => s.hi = 0
  /\ p \in {"open", "seed"} => s.hi = 0
  /\ p \in {"run", "fetch"} =>
       /\ s.hi = 0 => s.gas = call_gas(r)
       /\ s.hi # 0 => /\ s.iters # 0 /\ s.gas = s.lo + (s.hi - s.lo) \div 2
                      /\ s.lo + 1 < s.hi
                      /\ Bracket(w, r, s.lo, s.hi, Halvings[MAX_ESTIMATE_ITERS - s.iters + 1])
       /\ r.kind = "estimate" => TX_GAS <= call_gas(r)
  /\ s.lo <= s.hi

\* A gas with which the call succeeds is no less than what it uses.
LEMMA EnoughIsUsed ==
  ASSUME NEW w \in Worlds, NEW r \in CallRequest, NEW g \in EnoughAt(w, r)
  PROVE  /\ g \in Nat /\ TX_GAS <= g /\ g <= call_gas(r)
         /\ OnChain(w, NoFunds, r, g).used \in Nat /\ OnChain(w, NoFunds, r, g).used <= g
<1>1. g \in TX_GAS .. call_gas(r) /\ OnChain(w, NoFunds, r, g).st = "success"
  BY DEF EnoughAt
<1>2. g \in Nat /\ TX_GAS <= g /\ g <= call_gas(r)
  BY <1>1, CallNats, GasOfCall
<1>3. VmOK(OnChain(w, NoFunds, r, g), g)
  BY <1>2, ChainOK
<1> QED BY <1>1, <1>2, <1>3 DEF VmOK

\* A success of the chain's run.
LEMMA Succeeds ==
  ASSUME NEW w \in Worlds, NEW r \in CallRequest, NEW g \in Nat, g <= call_gas(r),
         OnChain(w, NoFunds, r, g).st = "success"
  PROVE  g \in EnoughAt(w, r)
<1>1. VmOK(OnChain(w, NoFunds, r, g), g)
  BY ChainOK
<1>2. TX_GAS <= g
  BY <1>1 DEF VmOK
<1> QED BY <1>2, CallNats, GasOfCall DEF EnoughAt

LEMMA FirstLoIs ==
  ASSUME NEW used \in Nat
  PROVE  FirstLo(used) \in Nat /\ (used # 0 => FirstLo(used) = used - 1) /\ (used = 0 => FirstLo(used) = 0)
BY DEF FirstLo

\* A hint taken from a run that succeeded is too little gas.
LEMMA HintIsLow ==
  ASSUME NEW w \in Worlds, NEW r \in CallRequest, NEW h \in EnoughAt(w, r), SteadyAt(w, r),
         NEW g \in EnoughAt(w, r)
  PROVE  FirstLo(OnChain(w, NoFunds, r, h).used) < g
<1> DEFINE used == OnChain(w, NoFunds, r, h).used
<1>1. used \in Nat
  BY EnoughIsUsed
<1>2. OnChain(w, NoFunds, r, g).used = used
  BY DEF SteadyAt
<1>3. g \in Nat /\ TX_GAS <= g /\ used <= g
  BY <1>2, EnoughIsUsed
<1> HIDE DEF used
<1>4. FirstLo(used) \in Nat /\ (used # 0 => FirstLo(used) = used - 1) /\ (used = 0 => FirstLo(used) = 0)
  BY <1>1, FirstLoIs
<1>5. FirstLo(used) < g
  BY <1>1, <1>3, <1>4, CallNats
<1> QED BY <1>5 DEF used

\* Gas that is not enough: no less gas is.
LEMMA FailIsLow ==
  ASSUME NEW w \in Worlds, NEW r \in CallRequest, NEW h \in Nat, h <= call_gas(r), h \notin EnoughAt(w, r),
         SteadyAt(w, r), NEW g \in EnoughAt(w, r)
  PROVE  h < g
<1>1. g \in Nat /\ call_gas(r) \in Nat
  BY EnoughIsUsed, GasOfCall
<1> SUFFICES ASSUME g <= h
             PROVE  FALSE
  BY <1>1
<1>2. h \in g .. call_gas(r)
  BY <1>1, GasOfCall
<1> QED BY <1>2 DEF SteadyAt


LEMMA Halves ==
  ASSUME NEW W \in Nat, W > 1, NEW H \in Nat, W <= 2 * H
  PROVE  W \div 2 \in Nat /\ 0 < W \div 2 /\ W \div 2 < W /\ W \div 2 <= H /\ W - W \div 2 <= H
OBVIOUS

\* A run on what is loaded that comes to an end is the chain's.
LEMMA EndedIsChains ==
  ASSUME NEW w \in Worlds, NEW d, DbSound(w, d), NEW r \in CallRequest, NEW gas \in Nat,
         NEW m, m = transact_call(d, r, gas), Ran(m)
  PROVE  m = OnChain(w, NoFunds, r, gas)
<1>1. Alike(m, OnChain(w, NoFunds, r, gas))
  BY RunsAlike
<1> QED BY <1>1 DEF Alike, Ran, Stopped

\* A search with other ends.
Moved(s, l, h) == [s EXCEPT !.lo = l, !.hi = h]

LEMMA MovedFields ==
  ASSUME NEW s \in SearchFields, NEW l \in Nat, NEW h \in Nat
  PROVE  /\ Moved(s, l, h) \in SearchFields /\ Moved(s, l, h).lo = l /\ Moved(s, l, h).hi = h
         /\ Moved(s, l, h).iters = s.iters
BY DEF Moved, SearchFields

\* A run of an estimate narrows what is left to search by half.
LEMMA NarrowedOK ==
  ASSUME NEW w \in Worlds, NEW r \in CallRequest, r.kind = "estimate",
         NEW s, SearchOK(w, r, "run", s), NEW m, m = OnChain(w, NoFunds, r, s.gas), Ran(m),
         s.hi # 0 \/ m.st = "success", NEW z, z = Narrowed(s, m)
  PROVE  /\ z \in SearchFields /\ z.iters = s.iters
         /\ Bracket(w, r, z.lo, z.hi, Halvings[MAX_ESTIMATE_ITERS - z.iters])
<1> DEFINE hint == FirstLo(m.used)
           E == EnoughAt(w, r)
           G == call_gas(r)
           lo == s.lo
           hi == s.hi
           gas == s.gas
           iters == s.iters
<1>1. lo \in Nat /\ hi \in Nat /\ gas \in Nat /\ iters \in 0 .. MAX_ESTIMATE_ITERS
  BY DEF SearchOK, SearchFields
<1>2. DOMAIN s = {"gas", "lo", "hi", "iters"}
  BY DEF SearchOK, SearchFields
<1>3. G \in Nat /\ G <= CALL_GAS_CAP
  BY GasOfCall
<1>4. VmOK(m, gas)
  BY <1>1, ChainOK
<1>5. m.used \in Nat
  BY <1>4 DEF VmOK
<1>6. hint \in Nat /\ (m.used # 0 => hint = m.used - 1) /\ (m.used = 0 => hint = 0)
  BY <1>5, FirstLoIs
<1>7. CASE hi = 0
  <2>1. m.st = "success" /\ gas = G /\ iters = 0
    BY <1>7 DEF SearchOK
  <2>2. z = [s EXCEPT !.lo = hint, !.hi = gas]
    BY <1>7 DEF Narrowed
  <2>3. G \in E
    BY <1>3, <2>1, Succeeds
  <2>4. m.used <= G /\ TX_GAS <= G
    BY <2>1, <2>3, EnoughIsUsed
  <2>5. hint < G /\ G - hint <= G
    BY <1>3, <1>5, <1>6, <2>4, CallNats
  <2>6. SteadyAt(w, r) => \A g \in E : hint < g
    BY <2>1, <2>3, HintIsLow
  <2>7. CALL_GAS_CAP < Halvings[MAX_ESTIMATE_ITERS] /\ MAX_ESTIMATE_ITERS - iters = MAX_ESTIMATE_ITERS
        /\ Halvings[MAX_ESTIMATE_ITERS] \in Nat
    BY <2>1, CallConstants, CallNats, HalvingsNat
  <2>8. G - hint <= Halvings[MAX_ESTIMATE_ITERS]
    BY <1>3, <1>6, <2>5, <2>7, CallNats
  <2>9. z \in SearchFields /\ z.lo = hint /\ z.hi = G /\ z.iters = iters
    <3>1. z = Moved(s, hint, G) /\ s \in SearchFields
      BY <2>1, <2>2 DEF Moved, SearchOK
    <3>2. hint \in Nat /\ G \in Nat
      BY <1>3, <1>6
    <3>3. iters = s.iters
      OBVIOUS
    <3> HIDE DEF hint, G, iters
    <3> QED BY ONLY <3>1, <3>2, <3>3, MovedFields
  <2>10. Bracket(w, r, hint, G, Halvings[MAX_ESTIMATE_ITERS - iters])
    <3> HIDE DEF hint, G, iters
    <3> QED BY <1>6, <2>3, <2>5, <2>6, <2>7, <2>8 DEF Bracket
  <2> QED BY <2>9, <2>10
<1>8. ASSUME hi # 0
      PROVE  /\ lo < gas /\ gas < hi /\ gas <= G /\ iters \in 1 .. MAX_ESTIMATE_ITERS
             /\ MAX_ESTIMATE_ITERS - iters \in 0 .. MAX_ESTIMATE_ITERS
             /\ Halvings[MAX_ESTIMATE_ITERS - iters] \in Nat
             /\ gas - lo <= Halvings[MAX_ESTIMATE_ITERS - iters]
             /\ hi - gas <= Halvings[MAX_ESTIMATE_ITERS - iters]
             /\ hi \in E /\ (SteadyAt(w, r) => \A g \in E : lo < g)
  <2> DEFINE W == hi - lo
             j == MAX_ESTIMATE_ITERS - iters
             H == Halvings[j]
  <2>1. iters # 0 /\ gas = lo + W \div 2 /\ lo + 1 < hi /\ Bracket(w, r, lo, hi, Halvings[j + 1])
    BY <1>8 DEF SearchOK
  <2>2. iters \in 1 .. MAX_ESTIMATE_ITERS /\ j \in 0 .. MAX_ESTIMATE_ITERS /\ j + 1 \in 1 .. MAX_ESTIMATE_ITERS
        /\ (j + 1) - 1 = j
    BY <1>1, <2>1, CallNats
  <2>3. H \in Nat /\ Halvings[j + 1] = 2 * H
    <3> HIDE DEF j
    <3> QED BY <2>2, HalvingsAre, HalvingsNat
  <2>4. hi \in E /\ W <= Halvings[j + 1] /\ (SteadyAt(w, r) => \A g \in E : lo < g)
    BY <2>1 DEF Bracket
  <2>5. hi <= G
    BY <2>4, EnoughIsUsed
  <2>6. W \in Nat /\ W > 1
    BY <1>1, <2>1
  <2>7. W <= 2 * H
    BY <2>3, <2>4
  <2> HIDE DEF H, j
  <2>8. W \div 2 \in Nat /\ 0 < W \div 2 /\ W \div 2 < W /\ W \div 2 <= H /\ W - W \div 2 <= H
    <3> HIDE DEF W
    <3> QED BY <2>3, <2>6, <2>7, Halves
  <2> DEFINE q == W \div 2
  <2>9. q \in Nat /\ 0 < q /\ q < W /\ q <= H /\ W - q <= H /\ gas = lo + q
    BY <2>1, <2>8
  <2> HIDE DEF q
  <2>10. lo < gas /\ gas < hi /\ gas <= G /\ gas - lo <= H /\ hi - gas <= H
    <3> HIDE DEF lo, hi, gas, G
    <3> QED BY <1>1, <1>3, <2>3, <2>5, <2>9
  <2> QED BY <2>2, <2>3, <2>4, <2>10 DEF H, j
<1>9. CASE hi # 0 /\ m.st = "success"
  <2> DEFINE l == IF hint > lo /\ hint < gas THEN hint ELSE lo
  <2>1. z = [s EXCEPT !.hi = gas, !.lo = l]
    BY <1>9 DEF Narrowed
  <2>2. z = [s EXCEPT !.lo = l, !.hi = gas]
    BY <1>2, <2>1
  <2>3. gas \in E
    BY <1>1, <1>8, <1>9, Succeeds
  <2>4. l \in Nat /\ l < gas /\ lo <= l /\ l \in {lo, hint}
    BY <1>1, <1>6, <1>8, <1>9
  <2>5. SteadyAt(w, r) => \A g \in E : l < g
    <3>1. SteadyAt(w, r) => \A g \in E : hint < g
      BY <2>3, HintIsLow
    <3> QED BY <1>8, <1>9, <2>4, <3>1
  <2>6. gas - l <= Halvings[MAX_ESTIMATE_ITERS - iters]
    <3> DEFINE H == Halvings[MAX_ESTIMATE_ITERS - iters]
    <3>1. H \in Nat /\ gas - lo <= H
      BY <1>8, <1>9
    <3> HIDE DEF H, l, gas, lo
    <3> QED BY <1>1, <2>4, <3>1 DEF H
  <2>7. Bracket(w, r, l, gas, Halvings[MAX_ESTIMATE_ITERS - iters])
    <3> HIDE DEF l, gas, iters
    <3> QED BY <2>3, <2>4, <2>5, <2>6 DEF Bracket
  <2> HIDE DEF l
  <2>8. z \in SearchFields /\ z.lo = l /\ z.hi = gas /\ z.iters = iters
    <3>1. z = Moved(s, l, gas) /\ s \in SearchFields
      BY <2>2 DEF Moved, SearchOK
    <3>2. l \in Nat /\ gas \in Nat
      BY <1>1, <2>4
    <3>3. iters = s.iters
      OBVIOUS
    <3> HIDE DEF gas, iters
    <3> QED BY ONLY <3>1, <3>2, <3>3, MovedFields
  <2> QED BY <2>7, <2>8
<1>10. CASE hi # 0 /\ m.st # "success"
  <2>1. z = [s EXCEPT !.lo = gas]
    BY <1>10 DEF Narrowed
  <2>2. z = [s EXCEPT !.lo = gas, !.hi = hi]
    BY <1>2, <2>1
  <2>3. gas \notin E
    BY <1>10 DEF EnoughAt
  <2>4. SteadyAt(w, r) => \A g \in E : gas < g
    BY <1>1, <1>8, <1>10, <2>3, FailIsLow
  <2>5. Bracket(w, r, gas, hi, Halvings[MAX_ESTIMATE_ITERS - iters])
    <3>1. gas < hi /\ hi - gas <= Halvings[MAX_ESTIMATE_ITERS - iters] /\ hi \in E /\ gas \in Nat
      BY <1>1, <1>8, <1>10
    <3> HIDE DEF gas, hi, iters
    <3> QED BY <2>4, <3>1 DEF Bracket
  <2>6. z \in SearchFields /\ z.lo = gas /\ z.hi = hi /\ z.iters = iters
    <3>1. z = Moved(s, gas, hi) /\ s \in SearchFields
      BY <2>2 DEF Moved, SearchOK
    <3>2. gas \in Nat /\ hi \in Nat
      BY <1>1
    <3>3. iters = s.iters
      OBVIOUS
    <3> HIDE DEF gas, hi, iters
    <3> QED BY ONLY <3>1, <3>2, <3>3, MovedFields
  <2> QED BY <2>5, <2>6
<1> QED BY <1>7, <1>9, <1>10


\* What a call and an estimate may be answered with.
AnswerOK(w, r, a) ==
  /\ r.kind = "call" /\ Ran(a) /\ ~r.large /\ access_list_within_caps(r.list) =>
       LET m == OnChain(w, NoFunds, r, call_gas(r))
       IN a.st = m.st /\ (m.st \in {"success", "revert"} => a.out = m.out)
  /\ r.kind = "estimate" /\ a.st = "success" =>
       /\ a.out \in EnoughAt(w, r)
       /\ SteadyAt(w, r) => \A g \in EnoughAt(w, r) : a.out <= g

LEMMA AnsFields ==
  ASSUME NEW st, NEW out
  PROVE  Ans(st, out).st = st /\ Ans(st, out).out = out
BY DEF Ans

LEMMA FailOK ==
  ASSUME NEW w, NEW r, NEW err, err \notin {"success", "revert", "halt", "invalid"}
  PROVE  AnswerOK(w, r, Ans(err, 0))
<1> DEFINE a == Ans(err, 0)
<1>1. a.st = err
  BY AnsFields
<1> SUFFICES AnswerOK(w, r, a)
  OBVIOUS
<1> HIDE DEF a
<1>2. ~Ran(a) /\ a.st # "success"
  BY <1>1 DEF Ran
<1> QED BY ONLY <1>2 DEF AnswerOK

\* What a search needs at each stage.
LEMMA SearchStages ==
  ASSUME NEW w, NEW r, NEW p, NEW s, SearchOK(w, r, p, s)
  PROVE  /\ SearchOK(w, r, "done", s)
         /\ p = "run" => SearchOK(w, r, "fetch", s)
         /\ p = "fetch" => SearchOK(w, r, "run", s)
         /\ p = "open" => SearchOK(w, r, "seed", s)
<1> DEFINE always == /\ s \in SearchFields
                     /\ s.hi = 0 => s.lo = 0 /\ s.iters = 0
                     /\ r.kind = "call" => s.hi = 0
                     /\ s.lo <= s.hi
           running == /\ s.hi = 0 => s.gas = call_gas(r)
                      /\ s.hi # 0 => /\ s.iters # 0 /\ s.gas = s.lo + (s.hi - s.lo) \div 2
                                     /\ s.lo + 1 < s.hi
                                     /\ Bracket(w, r, s.lo, s.hi, Halvings[MAX_ESTIMATE_ITERS - s.iters + 1])
                      /\ r.kind = "estimate" => TX_GAS <= call_gas(r)
           early == s.hi = 0
<1>1. \A x : SearchOK(w, r, x, s) <=>
               always /\ (x \in {"open", "seed"} => early) /\ (x \in {"run", "fetch"} => running)
  BY Zenon DEF SearchOK
<1> HIDE DEF always, running, early
<1> QED BY <1>1

\* A narrowed search is probed once more.
LEMMA ProbeOn ==
  ASSUME NEW w \in Worlds, NEW r \in CallRequest, r.kind = "estimate", TX_GAS <= call_gas(r),
         NEW z \in SearchFields, Bracket(w, r, z.lo, z.hi, Halvings[MAX_ESTIMATE_ITERS - z.iters]),
         Searching(z), NEW y, y = [z EXCEPT !.gas = z.lo + (z.hi - z.lo) \div 2, !.iters = @ + 1]
  PROVE  SearchOK(w, r, "run", y)
<1> DEFINE lo == z.lo
           hi == z.hi
           iters == z.iters
           W == hi - lo
           q == W \div 2
<1>1. lo \in Nat /\ hi \in Nat /\ iters \in 0 .. MAX_ESTIMATE_ITERS
  BY DEF SearchFields
<1>2. lo + 1 < hi /\ iters < MAX_ESTIMATE_ITERS
  BY DEF Searching
<1>3. q \in Nat
  BY <1>1, <1>2
<1>4. lo + q \in Nat /\ iters + 1 \in 0 .. MAX_ESTIMATE_ITERS
  <2> HIDE DEF q, lo, hi, iters
  <2> QED BY <1>1, <1>2, <1>3, CallNats
<1>5. y \in SearchFields /\ y.gas = lo + q /\ y.lo = lo /\ y.hi = hi /\ y.iters = iters + 1
  BY <1>4 DEF SearchFields
<1>6. Bracket(w, r, lo, hi, Halvings[MAX_ESTIMATE_ITERS - iters])
  OBVIOUS
<1>7. MAX_ESTIMATE_ITERS - (iters + 1) + 1 = MAX_ESTIMATE_ITERS - iters
  BY <1>1, CallNats
<1>8. hi # 0 /\ lo <= hi /\ iters + 1 # 0
  BY <1>1, <1>2
<1>9. y.gas = y.lo + (y.hi - y.lo) \div 2 /\ y.lo + 1 < y.hi
  BY <1>2, <1>5
<1>10. Bracket(w, r, y.lo, y.hi, Halvings[MAX_ESTIMATE_ITERS - y.iters + 1])
  BY <1>5, <1>6, <1>7
<1> HIDE DEF lo, hi, iters, W, q
<1> QED BY <1>5, <1>8, <1>9, <1>10 DEF SearchOK

\* A search that is over has come down to one.
LEMMA ProbeOver ==
  ASSUME NEW w \in Worlds, NEW r \in CallRequest, r.kind = "estimate",
         NEW z \in SearchFields, Bracket(w, r, z.lo, z.hi, Halvings[MAX_ESTIMATE_ITERS - z.iters]),
         ~Searching(z)
  PROVE  SearchOK(w, r, "done", z) /\ AnswerOK(w, r, Ans("success", z.hi))
<1> DEFINE lo == z.lo
           hi == z.hi
           iters == z.iters
           E == EnoughAt(w, r)
           a == Ans("success", hi)
<1>1. lo \in Nat /\ hi \in Nat /\ iters \in 0 .. MAX_ESTIMATE_ITERS
  BY DEF SearchFields
<1>2. ~(lo + 1 < hi) \/ ~(iters < MAX_ESTIMATE_ITERS)
  BY DEF Searching
<1>3. /\ hi \in E /\ lo < hi /\ hi - lo <= Halvings[MAX_ESTIMATE_ITERS - iters]
      /\ SteadyAt(w, r) => \A g \in E : lo < g
  BY DEF Bracket
<1>4. hi = lo + 1
  <2>1. CASE ~(lo + 1 < hi)
    BY <1>1, <1>3, <2>1
  <2>2. CASE ~(iters < MAX_ESTIMATE_ITERS)
    <3>1. MAX_ESTIMATE_ITERS - iters = 0
      BY <1>1, <2>2, CallNats
    <3>2. hi - lo <= 1
      BY <1>3, <3>1, HalvingsAre
    <3> QED BY <1>1, <1>3, <3>2
  <2> QED BY <1>2, <2>1, <2>2
<1>5. SteadyAt(w, r) => \A g \in E : hi <= g
  <2> SUFFICES ASSUME SteadyAt(w, r), NEW g \in E
               PROVE  hi <= g
    OBVIOUS
  <2>1. g \in Nat /\ lo < g
    BY <1>3, EnoughIsUsed
  <2> HIDE DEF lo, hi, E
  <2> QED BY <1>1, <1>4, <2>1
<1>6. a.st = "success" /\ a.out = hi
  BY AnsFields
<1>7. SearchOK(w, r, "done", z)
  BY <1>1, <1>3 DEF SearchOK
<1>8. AnswerOK(w, r, a)
  <2> HIDE DEF a, E, hi
  <2> QED BY <1>3, <1>5, <1>6 DEF AnswerOK, E
<1> QED BY <1>7, <1>8

\* A run that ends a call.
LEMMA FinishOK ==
  ASSUME NEW w \in Worlds, NEW r \in CallRequest, NEW s, SearchOK(w, r, "run", s),
         NEW m, m = OnChain(w, NoFunds, r, s.gas), Ran(m),
         r.kind = "call" \/ (s.hi = 0 /\ m.st # "success")
  PROVE  AnswerOK(w, r, Ans(m.st, IF m.st \in {"success", "revert"} THEN m.out ELSE 0))
<1> DEFINE out == IF m.st \in {"success", "revert"} THEN m.out ELSE 0
           a == Ans(m.st, out)
<1>1. a.st = m.st /\ a.out = out
  BY AnsFields
<1>2. m.st \in {"success", "revert"} => out = m.out
  OBVIOUS
<1>3. r.kind \in {"call", "estimate"}
  BY DEF CallRequest
<1>4. s.hi = 0 => s.gas = call_gas(r)
  BY DEF SearchOK
<1>5. r.kind = "call" => s.hi = 0
  BY DEF SearchOK
<1> SUFFICES AnswerOK(w, r, a)
  OBVIOUS
<1> HIDE DEF a, out
<1>6. CASE r.kind = "call"
  <2>1. m = OnChain(w, NoFunds, r, call_gas(r))
    BY <1>4, <1>5, <1>6
  <2>2. a.st = m.st /\ (m.st \in {"success", "revert"} => a.out = m.out)
    BY <1>1, <1>2
  <2> QED BY ONLY <1>6, <2>1, <2>2 DEF AnswerOK
<1>7. CASE r.kind # "call"
  <2>1. a.st # "success"
    BY <1>1, <1>7
  <2> QED BY ONLY <1>7, <2>1 DEF AnswerOK
<1> QED BY <1>6, <1>7


-----------------------------------------------------------------------------
(* The inductive invariant: what is loaded is the state's, what a run was   *)
(* missing is an account or a slot, and the search of an estimate lies      *)
(* between gas that is too little and gas that is enough on the chain.      *)

CallInv ==
  /\ world \in Worlds /\ req \in CallRequest
  /\ pc \in {"open", "seed", "run", "fetch", "done"} /\ queue \in Seq(Fetched)
  /\ DbSound(world, db)
  /\ pc = "fetch" => want \in Missed
  /\ rounds \in 0 .. MAX_PROOF_ROUNDS
  /\ SearchOK(world, req, pc, search)
  /\ pc = "done" => AnswerOK(world, req, ans)

\* The slots of a fetch are finitely many.
LEMMA FewSlots ==
  ASSUME NEW slots \in Seq(Slots)
  PROVE  IsFiniteSet(ToSet(slots))
<1>1. ToSet(slots) \subseteq Slots
  BY DEF ToSet
<1> QED BY <1>1, KeysApart, FS_Subset

LEMMA InitInv == Init => CallInv
<1> SUFFICES ASSUME Init
             PROVE  CallInv
  OBVIOUS
<1>1. world \in Worlds /\ req \in CallRequest /\ pc = "open" /\ queue = <<>> /\ db = <<>> /\ rounds = 0
      /\ search = [gas |-> 0, lo |-> 0, hi |-> 0, iters |-> 0]
  BY RequestsTyped DEF Init
<1>2. DbSound(world, db)
  BY <1>1, NothingLoaded
<1>3. queue \in Seq(Fetched)
  BY <1>1
<1>4. SearchOK(world, req, "open", search)
  <2>1. search \in SearchFields /\ search.lo = 0 /\ search.hi = 0 /\ search.iters = 0
    BY <1>1, CallNats DEF SearchFields
  <2> QED BY <2>1 DEF SearchOK
<1>5. rounds \in 0 .. MAX_PROOF_ROUNDS
  BY <1>1, CallNats
<1> QED BY <1>1, <1>2, <1>3, <1>4, <1>5 DEF CallInv

\* What is taken into the queue may be asked for.
LEMMA SeedsTyped ==
  ASSUME NEW r \in CallRequest
  PROVE  Seeds(r) \in Seq(Fetched)
<1> DEFINE unless(a, seen) == IF a \in seen THEN <<>> ELSE <<Fetch(a, <<>>)>>
           s1 == unless(r.to, {})
           s2 == unless(r.from, {r.to})
           s3 == unless(r.coinbase, {r.to, r.from})
           s4 == r.list
<1>1. r.to \in Named /\ r.from \in Named /\ r.coinbase \in Named /\ s4 \in Seq(Fetched)
  BY DEF CallRequest
<1>2. \A a \in Named : Fetch(a, <<>>) \in Fetched
  BY DEF Fetch, Fetched
<1>3. \A a \in Named : <<Fetch(a, <<>>)>> \in Seq(Fetched)
  BY <1>2
<1>4. <<>> \in Seq(Fetched)
  OBVIOUS
<1>5. \A seen : \A a \in Named : unless(a, seen) \in Seq(Fetched)
  BY <1>3, <1>4
<1>6. s1 \in Seq(Fetched) /\ s2 \in Seq(Fetched) /\ s3 \in Seq(Fetched)
  <2> HIDE DEF unless
  <2> QED BY <1>1, <1>5
<1>7. Seeds(r) = ((s1 \o s2) \o s3) \o s4
  BY DEF Seeds
<1> HIDE DEF s1, s2, s3, s4
<1> QED BY <1>1, <1>6, <1>7, ConcatProperties

LEMMA OpenInv == CallInv /\ Open => CallInv'
<1> SUFFICES ASSUME CallInv, Open
             PROVE  CallInv'
  OBVIOUS
<1> USE DEF CallInv
<1>1. UNCHANGED <<world, req, db, want, rounds, search>> /\ pc = "open"
  BY DEF Open
<1>2. \/ /\ req.large \/ ~access_list_within_caps(req.list)
         /\ pc' = "done" /\ ans' = Ans("invalid", 0) /\ queue' = queue
      \/ pc' = "seed" /\ queue' = Seeds(req) /\ ans' = ans
  BY DEF Open, Fail
<1>3. CASE /\ req.large \/ ~access_list_within_caps(req.list)
           /\ pc' = "done" /\ ans' = Ans("invalid", 0) /\ queue' = queue
  <2>1. SearchOK(world, req, "done", search)
    BY <1>1, SearchStages
  <2>2. AnswerOK(world, req, ans')
    <3>1. ans'.st = "invalid"
      BY <1>3, AnsFields
    <3> QED BY <1>3, <3>1 DEF AnswerOK
  <2> QED BY <1>1, <1>3, <2>1, <2>2
<1>4. CASE pc' = "seed" /\ queue' = Seeds(req) /\ ans' = ans
  <2>1. SearchOK(world, req, "seed", search)
    BY <1>1, SearchStages
  <2>2. queue' \in Seq(Fetched)
    BY <1>4, SeedsTyped
  <2> QED BY <1>1, <1>4, <2>1, <2>2
<1> QED BY <1>2, <1>3, <1>4

LEMMA NoReplyInv == CallInv /\ NoReply => CallInv'
<1> SUFFICES ASSUME CallInv, NoReply
             PROVE  CallInv'
  OBVIOUS
<1> USE DEF CallInv
<1>1. UNCHANGED <<world, req, queue, db, want, rounds, search>> /\ pc' = "done" /\ ans' = Ans("upstream", 0)
  BY DEF NoReply, Fail
<1>2. SearchOK(world, req, "done", search)
  BY SearchStages
<1>3. AnswerOK(world, req, ans')
  BY <1>1, FailOK
<1> QED BY <1>1, <1>2, <1>3

LEMMA SkipInv == CallInv /\ Skip => CallInv'
<1> SUFFICES ASSUME CallInv, Skip
             PROVE  CallInv'
  OBVIOUS
<1> USE DEF CallInv
<1>1. UNCHANGED <<world, req, pc, db, want, rounds, search, ans>> /\ queue # <<>> /\ queue' = Tail(queue)
  BY DEF Skip
<1>2. queue' \in Seq(Fetched)
  BY <1>1
<1> QED BY <1>1, <1>2

LEMMA SeedInv == CallInv /\ Seed => CallInv'
<1> SUFFICES ASSUME CallInv, Seed
             PROVE  CallInv'
  OBVIOUS
<1> USE DEF CallInv
<1> DEFINE f == Head(queue)
<1>1. /\ UNCHANGED <<world, req, want, rounds, search>> /\ queue' = Tail(queue)
      /\ pc = "seed" /\ queue # <<>> /\ Plain(f.a)
  BY DEF Seed
<1>2. PICK r \in Replies(f.a, f.slots) :
        \E got \in {fetch_and_load(StateRoot[world], db, f.a, ToSet(f.slots), r)} :
          \/ got.err # "" /\ Fail(got.err) /\ UNCHANGED db
          \/ got.err = "" /\ db' = got.db /\ UNCHANGED <<pc, ans>>
  BY DEF Seed
<1> DEFINE a == f.a
           slots == f.slots
           got == fetch_and_load(StateRoot[world], db, a, ToSet(slots), r)
<1>3. \/ got.err # "" /\ Fail(got.err) /\ UNCHANGED db
      \/ got.err = "" /\ db' = got.db /\ UNCHANGED <<pc, ans>>
  BY <1>2
<1>4. queue' \in Seq(Fetched) /\ f \in Fetched
  BY <1>1
<1>5. a \in Accounts /\ slots \in Seq(Slots)
  <2> HIDE DEF f
  <2>1. f.a \in Named /\ f.slots \in Seq(Slots)
    BY <1>4 DEF Fetched
  <2>2. f.a \notin Precompiles
    BY <1>1 DEF Plain, precompile_kind
  <2> QED BY <2>1, <2>2 DEF Named
<1> HIDE DEF f, a, slots
<1>6. EntriesTyped(r.entries)
  BY <1>2, <1>5, RepliesReadable DEF a, slots
<1>7. got.err \in {"", "proof", "budget"} /\ (got.err = "" => DbSound(world, got.db))
  BY <1>5, <1>6, FewSlots, FetchSound
<1> HIDE DEF got
<1>8. CASE got.err # "" /\ Fail(got.err) /\ UNCHANGED db
  <2> DEFINE err == got.err
  <2>1. pc' = "done" /\ ans' = Ans(err, 0) /\ err \in {"proof", "budget"}
    BY <1>7, <1>8 DEF Fail
  <2> HIDE DEF err
  <2>2. SearchOK(world, req, "done", search)
    BY SearchStages
  <2>3. AnswerOK(world, req, ans')
    BY <2>1, FailOK
  <2> QED BY <1>1, <1>4, <1>8, <2>1, <2>2, <2>3
<1>9. CASE got.err = "" /\ db' = got.db /\ UNCHANGED <<pc, ans>>
  <2>1. DbSound(world, db')
    BY <1>7, <1>9
  <2> QED BY <1>1, <1>4, <1>9, <2>1
<1> QED BY <1>3, <1>8, <1>9

LEMMA StartRunInv == CallInv /\ StartRun => CallInv'
<1> SUFFICES ASSUME CallInv, StartRun
             PROVE  CallInv'
  OBVIOUS
<1> USE DEF CallInv
<1> DEFINE G == call_gas(req)
<1>1. /\ UNCHANGED <<world, req, queue, db, want, rounds>> /\ pc = "seed"
      /\ search' = [search EXCEPT !.gas = G]
      /\ \/ req.kind = "estimate" /\ G < TX_GAS /\ Fail("halt")
         \/ (req.kind = "call" \/ G >= TX_GAS) /\ pc' = "run" /\ UNCHANGED ans
  BY DEF StartRun
<1>2. G \in Nat
  BY GasOfCall
<1>3. search \in SearchFields /\ search.hi = 0 /\ search.lo = 0 /\ search.iters = 0
  BY <1>1 DEF SearchOK
<1> HIDE DEF G
<1>4. search' \in SearchFields /\ search'.hi = 0 /\ search'.lo = 0 /\ search'.iters = 0 /\ search'.gas = G
  BY <1>1, <1>2, <1>3 DEF SearchFields
<1>5. CASE req.kind = "estimate" /\ G < TX_GAS /\ Fail("halt")
  <2>1. pc' = "done" /\ ans' = Ans("halt", 0)
    BY <1>5 DEF Fail
  <2>2. ans'.st = "halt"
    BY <2>1, AnsFields
  <2>3. AnswerOK(world, req, ans')
    BY <1>5, <2>2 DEF AnswerOK
  <2>4. SearchOK(world, req, "done", search')
    BY <1>4 DEF SearchOK
  <2> QED BY <1>1, <2>1, <2>3, <2>4
<1>6. CASE (req.kind = "call" \/ G >= TX_GAS) /\ pc' = "run" /\ UNCHANGED ans
  <2>1. req.kind = "estimate" => TX_GAS <= call_gas(req)
    BY <1>2, <1>6, CallNats DEF G
  <2>2. search'.gas = call_gas(req)
    BY <1>4 DEF G
  <2>3. SearchOK(world, req, "run", search')
    BY <1>4, <2>1, <2>2 DEF SearchOK
  <2> QED BY <1>1, <1>6, <2>3
<1> QED BY <1>1, <1>5, <1>6

LEMMA FetchMissingInv == CallInv /\ FetchMissing => CallInv'
<1> SUFFICES ASSUME CallInv, FetchMissing
             PROVE  CallInv'
  OBVIOUS
<1> USE DEF CallInv
<1> DEFINE a == want.a
           slots == IF want.op = "slot" THEN <<want.s>> ELSE <<>>
<1>1. UNCHANGED <<world, req, queue, want, rounds, search>> /\ pc = "fetch"
  BY DEF FetchMissing
<1>2. PICK r \in Replies(a, slots) :
        \E got \in {fetch_and_load(StateRoot[world], db, a, ToSet(slots), r)} :
          \/ got.err # "" /\ Fail(got.err) /\ UNCHANGED db
          \/ /\ got.err = "" /\ db' = got.db
             /\ (pc' = "run" /\ UNCHANGED ans) \/ Fail("omitted")
  BY DEF FetchMissing
<1> DEFINE got == fetch_and_load(StateRoot[world], db, a, ToSet(slots), r)
<1>3. \/ got.err # "" /\ Fail(got.err) /\ UNCHANGED db
      \/ /\ got.err = "" /\ db' = got.db
         /\ (pc' = "run" /\ UNCHANGED ans) \/ Fail("omitted")
  BY <1>2
<1>4. want \in Missed
  BY <1>1
<1>5. a \in Accounts /\ slots \in Seq(Slots)
  <2>1. want.a \in Accounts /\ (want.op = "slot" => want.s \in Slots)
    BY <1>4 DEF Missed
  <2> QED BY <2>1
<1> HIDE DEF a, slots
<1>6. EntriesTyped(r.entries)
  BY <1>2, <1>5, RepliesReadable
<1>7. got.err \in {"", "proof", "budget"} /\ (got.err = "" => DbSound(world, got.db))
  BY <1>5, <1>6, FewSlots, FetchSound
<1> HIDE DEF got
<1>8. CASE got.err # "" /\ Fail(got.err) /\ UNCHANGED db
  <2> DEFINE err == got.err
  <2>1. pc' = "done" /\ ans' = Ans(err, 0) /\ err \in {"proof", "budget"}
    BY <1>7, <1>8 DEF Fail
  <2> HIDE DEF err
  <2>2. SearchOK(world, req, "done", search)
    BY SearchStages
  <2>3. AnswerOK(world, req, ans')
    BY <2>1, FailOK
  <2> QED BY <1>1, <1>8, <2>1, <2>2, <2>3
<1>9. CASE got.err = "" /\ db' = got.db /\ pc' = "run" /\ UNCHANGED ans
  <2>1. DbSound(world, db')
    BY <1>7, <1>9
  <2>2. SearchOK(world, req, "run", search)
    BY <1>1, SearchStages
  <2> QED BY <1>1, <1>9, <2>1, <2>2
<1>10. CASE got.err = "" /\ db' = got.db /\ Fail("omitted")
  <2>1. DbSound(world, db')
    BY <1>7, <1>10
  <2>2. SearchOK(world, req, "done", search)
    BY SearchStages
  <2>3. pc' = "done" /\ ans' = Ans("omitted", 0)
    BY <1>10 DEF Fail
  <2>4. AnswerOK(world, req, ans')
    BY <2>3, FailOK
  <2> QED BY <1>1, <2>1, <2>2, <2>3, <2>4
<1> QED BY <1>3, <1>8, <1>9, <1>10

LEMMA ExecuteInv == CallInv /\ Execute => CallInv'
<1> SUFFICES ASSUME CallInv, Execute
             PROVE  CallInv'
  OBVIOUS
<1> USE DEF CallInv
<1> DEFINE m == transact_call(db, req, search.gas)
           gas == search.gas
<1>1. /\ UNCHANGED <<world, req, queue, db>> /\ pc = "run"
      /\ \/ m.st = "missing" /\ Fail("budget") /\ UNCHANGED <<rounds, search>>
         \/ /\ m.st = "missing" /\ rounds < MAX_PROOF_ROUNDS
            /\ rounds' = rounds + 1 /\ want' = m.op /\ pc' = "fetch" /\ UNCHANGED <<ans, search>>
         \/ m.st \in {"nohash", "unsupported"} /\ Fail(m.st) /\ UNCHANGED <<rounds, search>>
         \/ /\ m.st \in {"success", "revert", "halt", "invalid"} /\ UNCHANGED rounds
            /\ IF req.kind = "call" \/ (search.hi = 0 /\ m.st # "success")
               THEN Finish(m) ELSE Probe(Narrowed(search, m))
  BY DEF Execute
<1>2. SearchOK(world, req, "run", search) /\ gas \in Nat
  BY <1>1 DEF SearchOK, SearchFields
<1>3. m.st = "missing" => m.op \in Missed
  BY <1>2, RunsAlike DEF Alike
<1>4. Ran(m) => m = OnChain(world, NoFunds, req, gas)
  BY <1>2, EndedIsChains
<1>5. SearchOK(world, req, "done", search)
  BY SearchStages
<1> HIDE DEF m
<1>6. CASE m.st = "missing" /\ Fail("budget") /\ UNCHANGED <<rounds, search>>
  <2>1. pc' = "done" /\ ans' = Ans("budget", 0)
    BY <1>6 DEF Fail
  <2>2. AnswerOK(world, req, ans')
    BY <2>1, FailOK
  <2> QED BY <1>1, <1>5, <1>6, <2>1, <2>2
<1>7. CASE /\ m.st = "missing" /\ rounds < MAX_PROOF_ROUNDS
           /\ rounds' = rounds + 1 /\ want' = m.op /\ pc' = "fetch" /\ UNCHANGED <<ans, search>>
  <2>1. SearchOK(world, req, "fetch", search)
    BY <1>2, SearchStages
  <2>2. rounds' \in 0 .. MAX_PROOF_ROUNDS
    BY <1>7, CallNats
  <2> QED BY <1>1, <1>3, <1>7, <2>1, <2>2
<1>8. CASE m.st \in {"nohash", "unsupported"} /\ Fail(m.st) /\ UNCHANGED <<rounds, search>>
  <2> DEFINE err == m.st
  <2>1. pc' = "done" /\ ans' = Ans(err, 0) /\ err \in {"nohash", "unsupported"}
    BY <1>8 DEF Fail
  <2> HIDE DEF err
  <2>2. AnswerOK(world, req, ans')
    BY <2>1, FailOK
  <2> QED BY <1>1, <1>5, <1>8, <2>1, <2>2
<1>9. CASE /\ Ran(m) /\ UNCHANGED rounds /\ Finish(m)
           /\ req.kind = "call" \/ (search.hi = 0 /\ m.st # "success")
  <2>1. m = OnChain(world, NoFunds, req, gas)
    BY <1>4, <1>9
  <2>2. /\ pc' = "done" /\ ans' = Ans(m.st, IF m.st \in {"success", "revert"} THEN m.out ELSE 0)
        /\ search' = search
    BY <1>9 DEF Finish
  <2>3. AnswerOK(world, req, ans')
    BY <1>2, <1>9, <2>1, <2>2, FinishOK
  <2> QED BY <1>1, <1>5, <1>9, <2>2, <2>3
<1>10. CASE /\ Ran(m) /\ UNCHANGED rounds /\ Probe(Narrowed(search, m))
            /\ ~(req.kind = "call" \/ (search.hi = 0 /\ m.st # "success"))
  <2> DEFINE z == Narrowed(search, m)
             y == [z EXCEPT !.gas = z.lo + (z.hi - z.lo) \div 2, !.iters = @ + 1]
  <2>1. m = OnChain(world, NoFunds, req, gas)
    BY <1>4, <1>10
  <2>2. req.kind = "estimate"
    BY <1>10 DEF CallRequest
  <2>3. TX_GAS <= call_gas(req)
    BY <1>2, <2>2 DEF SearchOK
  <2>4. \/ Searching(z) /\ search' = y /\ UNCHANGED <<pc, ans>>
        \/ ~Searching(z) /\ pc' = "done" /\ ans' = Ans("success", z.hi) /\ search' = z
    BY <1>10 DEF Probe
  <2>5. z \in SearchFields /\ Bracket(world, req, z.lo, z.hi, Halvings[MAX_ESTIMATE_ITERS - z.iters])
    BY <1>2, <1>10, <2>1, <2>2, NarrowedOK
  <2>6. CASE Searching(z) /\ search' = y /\ UNCHANGED <<pc, ans>>
    <3>1. SearchOK(world, req, "run", y)
      <4> HIDE DEF z
      <4> QED BY <2>2, <2>3, <2>5, <2>6, ProbeOn
    <3> HIDE DEF y, z
    <3> QED BY <1>1, <1>10, <2>6, <3>1
  <2>7. CASE ~Searching(z) /\ pc' = "done" /\ ans' = Ans("success", z.hi) /\ search' = z
    <3> HIDE DEF z
    <3>1. SearchOK(world, req, "done", z) /\ AnswerOK(world, req, Ans("success", z.hi))
      BY <2>2, <2>5, <2>7, ProbeOver
    <3> QED BY <1>1, <1>10, <2>7, <3>1
  <2> QED BY <2>4, <2>6, <2>7
<1> QED BY <1>1, <1>6, <1>7, <1>8, <1>9, <1>10 DEF Ran

LEMMA StutterInv == CallInv /\ UNCHANGED vars => CallInv'
BY DEF CallInv, vars

\* The invariant of a call: what is loaded is true, and the answer is the chain's.
LEMMA CallInvariant == Spec => []CallInv
<1>1. CallInv /\ [Next]_vars => CallInv'
  BY OpenInv, NoReplyInv, SkipInv, SeedInv, StartRunInv, FetchMissingInv, ExecuteInv, StutterInv
     DEF Next
<1> QED BY InitInv, <1>1, PTL DEF Spec

\* Whatever a provider replies and whatever a call reads, what ProofDb holds is what the state
\* under the verified root holds, and the caps on accounts, slots, proof rounds and probes hold
\* (load_proven_account, fetch_and_load, transact_call_proven).
THEOREM LoadedAlwaysTrue == Spec => []LoadedWithinCaps
<1>1. CallInv => LoadedWithinCaps
  <2> SUFFICES ASSUME CallInv
               PROVE  LoadedWithinCaps
    OBVIOUS
  <2>1. /\ DOMAIN db \subseteq Accounts /\ Cardinality(DOMAIN db) <= MAX_CALL_ACCOUNTS
        /\ \A a \in DOMAIN db : db[a].info = State[world][a] /\ SlotsSound(world, a, db[a].slots)
    BY DEF CallInv, DbSound
  <2>2. \A a \in DOMAIN db : /\ DOMAIN db[a].slots \subseteq Slots
                             /\ Cardinality(DOMAIN db[a].slots) <= MAX_PROOF_STORAGE_KEYS
                             /\ \A s \in DOMAIN db[a].slots : db[a].slots[s] = world[a].store[s]
    BY <2>1 DEF SlotsSound
  <2>3. search.iters \in 0 .. MAX_ESTIMATE_ITERS /\ search.lo <= search.hi
    BY DEF CallInv, SearchOK, SearchFields
  <2>4. pc \in {"open", "seed", "run", "fetch", "done"} /\ rounds \in 0 .. MAX_PROOF_ROUNDS
    BY DEF CallInv
  <2> QED BY <2>1, <2>2, <2>3, <2>4 DEF LoadedWithinCaps, TypeOK, LoadedIsTrue
<1> QED BY CallInvariant, <1>1, PTL

-----------------------------------------------------------------------------
(* A proof a full node builds is accepted: the climb down a trie, step by step. *)

\* g holds the first N steps of a climb from c0.
IsClimb(g, N, c0) == g = [n \in 0 .. N |-> IF n = 0 THEN c0 ELSE Climb(g[n - 1])]

LEMMA ClimbExists ==
  ASSUME NEW c0, NEW N \in Nat
  PROVE  \E g : IsClimb(g, N, c0)
<1> DEFINE Short0 == {n \in Nat : ~\E g : IsClimb(g, n, c0)}
           F(v, n) == Climb(v)
<1> SUFFICES ASSUME N \in Short0
             PROVE  FALSE
  OBVIOUS
<1>1. \A g, n : IsClimb(g, n, c0) <=> g = [i \in 0 .. n |-> IF i = 0 THEN c0 ELSE F(g[i - 1], i)]
  BY DEF IsClimb
<1> HIDE DEF F
<1>2. PICK x \in Short0 : \A y \in Short0 : x <= y
  <2>1. Short0 \in SUBSET Nat /\ Short0 # {}
    OBVIOUS
  <2> HIDE DEF Short0
  <2> QED BY <2>1, LeastExists
<1>3. x \in Nat /\ ~\E g : IsClimb(g, x, c0)
  BY <1>2
<1>4. x # 0
  <2> DEFINE g == [i \in 0 .. 0 |-> c0]
  <2>1. g = [i \in 0 .. 0 |-> IF i = 0 THEN c0 ELSE F(g[i - 1], i)]
    OBVIOUS
  <2> HIDE DEF g
  <2>2. IsClimb(g, 0, c0)
    BY <1>1, <2>1
  <2> QED BY <1>3, <2>2
<1>5. x - 1 \in Nat /\ x - 1 \notin Short0
  <2>1. x - 1 \in Nat /\ ~(x <= x - 1)
    BY <1>3, <1>4
  <2> HIDE DEF Short0
  <2> QED BY <1>2, <2>1
<1>6. PICK g : IsClimb(g, x - 1, c0)
  BY <1>5
<1>7. g = [i \in 0 .. x - 1 |-> IF i = 0 THEN c0 ELSE F(g[i - 1], i)]
  BY <1>1, <1>6
<1>8. \A i \in 0 .. x - 1 : g[i] = IF i = 0 THEN c0 ELSE F(g[i - 1], i)
  BY <1>7
<1> DEFINE h == [i \in 0 .. x |-> IF i = x THEN F(g[x - 1], x) ELSE g[i]]
<1>9. \A i \in 0 .. x : h[i] = IF i = 0 THEN c0 ELSE F(h[i - 1], i)
  <2> SUFFICES ASSUME NEW i \in 0 .. x
               PROVE  h[i] = IF i = 0 THEN c0 ELSE F(h[i - 1], i)
    OBVIOUS
  <2>1. CASE i = x
    <3>1. x - 1 \in 0 .. x /\ x - 1 # x
      BY <1>3, <1>4
    <3> QED BY <1>4, <2>1, <3>1
  <2>2. CASE i # x
    <3>1. i \in 0 .. x - 1 /\ (i # 0 => i - 1 \in 0 .. x /\ i - 1 # x)
      BY <1>3, <2>2
    <3> QED BY <1>8, <2>2, <3>1
  <2> QED BY <2>1, <2>2
<1>10. h = [i \in 0 .. x |-> IF i = 0 THEN c0 ELSE F(h[i - 1], i)]
  <2>1. DOMAIN h = 0 .. x /\ h = [i \in DOMAIN h |-> h[i]]
    OBVIOUS
  <2> HIDE DEF h
  <2> QED BY <1>9, <2>1
<1> HIDE DEF h
<1>11. IsClimb(h, x, c0)
  BY <1>1, <1>10
<1> QED BY <1>3, <1>11

LEMMA ClimbSteps ==
  ASSUME NEW root, NEW key
  PROVE  \E c : /\ ProofOf(root, key) = c[KeyLen + 1].nodes
                /\ c[0] = [item |-> root, left |-> key, nodes |-> <<>>]
                /\ \A n \in 1 .. KeyLen + 1 : c[n] = Climb(c[n - 1])
<1> DEFINE c0 == [item |-> root, left |-> key, nodes |-> <<>>]
           N == KeyLen + 1
           g == CHOOSE h : h = [n \in 0 .. KeyLen + 1 |-> IF n = 0 THEN c0 ELSE Climb(h[n - 1])]
<1>1. N \in Nat
  BY KeyLenAssumption
<1>2. ProofOf(root, key) = g[N].nodes
  BY DEF ProofOf
<1> HIDE DEF c0
<1>3. g = [n \in 0 .. N |-> IF n = 0 THEN c0 ELSE Climb(g[n - 1])]
  <2>1. \E h : IsClimb(h, N, c0)
    <3> HIDE DEF N
    <3> QED BY <1>1, ClimbExists
  <2>2. \E h : h = [n \in 0 .. KeyLen + 1 |-> IF n = 0 THEN c0 ELSE Climb(h[n - 1])]
    BY <2>1 DEF IsClimb
  <2> QED BY <2>2
<1> HIDE DEF g
<1>4. g[0] = c0 /\ \A n \in 1 .. N : g[n] = Climb(g[n - 1])
  <2> HIDE DEF N
  <2>1. \A n \in 0 .. N : g[n] = IF n = 0 THEN c0 ELSE Climb(g[n - 1])
    BY <1>3
  <2> QED BY <1>1, <2>1
<1> QED BY <1>2, <1>4 DEF c0

\* Where a climb may go on at: the item it has come to is the reference to a stem of the key.
Standing(m, f, key, n, item, left) ==
  \E p \in Stems : Down(p, n) /\ IsPrefix(p, key) /\ left = Left(key, p) /\ Refers(m, f, p, item)

TrieNodes(f) == {f[p] : p \in Stems}

ClimbOK(m, f, key, n, c) ==
  /\ c.nodes \in Seq(TrieNodes(f))
  /\ c.item.ref = "empty" \/ Standing(m, f, key, n, c.item, c.left)

\* The nodes on the way with the one at hand.
On(c) == IF c.item.ref = "hash" THEN Append(c.nodes, c.item.node) ELSE c.nodes

LEMMA ClimbCases ==
  ASSUME NEW c
  PROVE  /\ c.item.ref = "empty" => Climb(c) = c
         /\ c.item.ref # "empty" /\ c.item.node.kind = "branch" =>
              Climb(c) = [item |-> c.item.node.kids[Head(c.left)], left |-> Tail(c.left), nodes |-> On(c)]
         /\ c.item.ref # "empty" /\ c.item.node.kind = "leaf" =>
              Climb(c) = [item |-> EMPTY_TRIE_ROOT, left |-> c.left, nodes |-> On(c)]
         /\ c.item.ref # "empty" /\ c.item.node.kind = "ext" =>
              Climb(c) = [item |-> IF IsPrefix(c.item.node.path, c.left) THEN c.item.node.child ELSE EMPTY_TRIE_ROOT,
                          left |-> SubSeq(c.left, Len(c.item.node.path) + 1, Len(c.left)), nodes |-> On(c)]
BY DEF Climb, On

\* A node is a branch, a leaf that has all the nibbles left, or an extension.
LEMMA NodeKinds ==
  ASSUME NEW m, GoodMap(m), NEW f, IsNodes(m, f), NEW p \in Stems
  PROVE  /\ f[p].kind \in {"branch", "leaf", "ext"}
         /\ f[p].kind = "leaf" => Len(f[p].path) = KeyLen - Len(p)
<1> DEFINE node == f[p]
<1>1. Shaped(m, f, p, node)
  <2> DEFINE N(q) == NodeAt(m, f, q)
  <2>1. f = [q \in Stems |-> N(q)]
    BY DEF IsNodes
  <2> HIDE DEF N
  <2>2. f[p] = N(p)
    BY <2>1
  <2> QED BY <2>2, NodeShape DEF N
<1> HIDE DEF node
<1>2. Len(p) \in Nat /\ Len(p) <= KeyLen /\ KeyLen \in Nat
  BY StemTypes
<1>3. ASSUME NEW k \in Keys, node = Leaf(SubSeq(k, Len(p) + 1, KeyLen), m[k])
      PROVE  node.kind = "leaf" /\ Len(node.path) = KeyLen - Len(p)
  <2>1. node.kind = "leaf" /\ node.path = SubSeq(k, Len(p) + 1, KeyLen)
    BY <1>3 DEF Leaf
  <2>2. \A i \in 1 .. KeyLen : k[i] \in Nibbles
    BY KeyTypes
  <2>3. Len(SubSeq(k, Len(p) + 1, KeyLen)) = KeyLen - Len(p)
    BY ONLY <1>2, <2>2, Part
  <2> QED BY <2>1, <2>3
<1>4. \/ \E k \in Keys : node = Leaf(SubSeq(k, Len(p) + 1, KeyLen), m[k])
      \/ node.kind \in {"ext", "branch"}
  BY <1>1 DEF Shaped
<1>5. /\ node.kind \in {"branch", "leaf", "ext"}
      /\ node.kind = "leaf" => Len(node.path) = KeyLen - Len(p)
  BY <1>3, <1>4
<1> QED BY <1>5 DEF node

\* The nodes t are the nodes s and more of the trie.
Longer(f, s, t) == \E z \in Seq(TrieNodes(f)) : t = s \o z

\* The climb has come from c, n nibbles down or more, to y.
Climbed(m, f, key, n, c, y) ==
  /\ ClimbOK(m, f, key, n + 1, y) /\ y.nodes = On(c)
  /\ c.item.ref \in {"hash", "inline"} /\ c.item.node \in TrieNodes(f)
  /\ Longer(f, c.nodes, y.nodes)

\* A step of a climb leads to the next stem of the key, or to nothing.
LEMMA ClimbOn ==
  ASSUME NEW m, GoodMap(m), NEW f, IsNodes(m, f), NEW key \in Keys, NEW n \in Nat,
         NEW c, ClimbOK(m, f, key, n, c), c.item.ref # "empty", NEW y, y = Climb(c)
  PROVE  Climbed(m, f, key, n, c, y)
<1>1. PICK p \in Stems : Down(p, n) /\ IsPrefix(p, key) /\ c.left = Left(key, p) /\ Refers(m, f, p, c.item)
  BY DEF ClimbOK, Standing
<1>2. c.item.ref \in {"hash", "inline"} /\ c.item.node = f[p] /\ KeysUnder(m, p) # {}
  BY <1>1 DEF Refers
<1> DEFINE node == f[p]
           T == TrieNodes(f)
           w == [item |-> c.item, nibbles |-> c.left, rest |-> <<>>, end |-> "", vals |-> <<>>]
           x == walk_items(w, node)
<1>3. node \in T
  BY DEF TrieNodes
<1>4. DOMAIN w = WalkFields /\ w.end = "" /\ w.nibbles = c.left
  BY DEF WalkFields
<1>5. At(w, key, p)
  BY <1>1, <1>4 DEF At
<1> HIDE DEF w
<1>6. WalkSound(m, f, key, n + 1, x)
  BY ONLY GoodMap(m), IsNodes(m, f), key \in Keys, n \in Nat, <1>1, <1>2, <1>5, WalkNode
<1>7. node.kind \in {"branch", "leaf", "ext"}
  BY NodeKinds
<1> HIDE DEF node, x, T
<1>8. c.nodes \in Seq(T)
  BY DEF ClimbOK, T
<1>9. On(c) \in Seq(T) /\ \E z \in Seq(T) : On(c) = c.nodes \o z
  <2>1. CASE c.item.ref = "hash"
    <3>1. On(c) = Append(c.nodes, node)
      BY <1>2, <2>1 DEF On, node
    <3>2. <<node>> \in Seq(T)
      BY <1>3
    <3>3. Append(c.nodes, node) \in Seq(T) /\ Append(c.nodes, node) = c.nodes \o <<node>>
      BY ONLY <1>3, <1>8, AppendProperties, AppendIsConcat
    <3> QED BY <3>1, <3>2, <3>3
  <2>2. CASE c.item.ref # "hash"
    <3>1. On(c) = c.nodes
      BY <2>2 DEF On
    <3>2. <<>> \in Seq(T) /\ c.nodes \o <<>> = c.nodes
      BY <1>8, ConcatEmptySeq
    <3> QED BY <1>8, <3>1, <3>2
  <2> QED BY <2>1, <2>2
<1>10. y.nodes = On(c) /\ (y.item.ref = "empty" \/ Standing(m, f, key, n + 1, y.item, y.left))
  <2>1. CASE node.kind = "branch"
    <3>1. y.item = node.kids[Head(c.left)] /\ y.left = Tail(c.left) /\ y.nodes = On(c)
      <4>1. c.item.node = node
        BY <1>2 DEF node
      <4>2. y = [item |-> node.kids[Head(c.left)], left |-> Tail(c.left), nodes |-> On(c)]
        BY ONLY <2>1, <4>1, y = Climb(c), c.item.ref # "empty", ClimbCases, Zenon
      <4> QED BY ONLY <4>2
    <3>2. x = [w EXCEPT !.item = node.kids[Head(w.nibbles)], !.nibbles = Tail(@)]
      BY <2>1, ItemsWalked DEF x
    <3>3. x.end = "" /\ x.item = y.item /\ x.nibbles = y.left
      BY <1>4, <3>1, <3>2 DEF WalkFields
    <3> QED BY <1>6, <3>1, <3>3 DEF WalkSound, Standing
  <2>2. CASE node.kind = "leaf"
    <3>1. y.item = EMPTY_TRIE_ROOT /\ y.nodes = On(c)
      <4>1. c.item.node = node
        BY <1>2 DEF node
      <4>2. y = [item |-> EMPTY_TRIE_ROOT, left |-> c.left, nodes |-> On(c)]
        BY ONLY <2>2, <4>1, y = Climb(c), c.item.ref # "empty", ClimbCases, Zenon
      <4> QED BY ONLY <4>2
    <3> QED BY <3>1 DEF EMPTY_TRIE_ROOT
  <2>3. CASE node.kind = "ext"
    <3>1. c.item.node = node
      BY <1>2 DEF node
    <3>2. /\ y.item = IF IsPrefix(node.path, c.left) THEN node.child ELSE EMPTY_TRIE_ROOT
          /\ y.left = SubSeq(c.left, Len(node.path) + 1, Len(c.left)) /\ y.nodes = On(c)
      <4>1. y = [item |-> IF IsPrefix(node.path, c.left) THEN node.child ELSE EMPTY_TRIE_ROOT,
                 left |-> SubSeq(c.left, Len(node.path) + 1, Len(c.left)), nodes |-> On(c)]
        BY ONLY <2>3, <3>1, y = Climb(c), c.item.ref # "empty", ClimbCases, Zenon
      <4> QED BY ONLY <4>1
    <3>3. CASE IsPrefix(node.path, c.left)
      <4>1. x = [w EXCEPT !.item = node.child, !.nibbles = SubSeq(@, Len(node.path) + 1, Len(@))]
        BY <1>4, <2>3, <3>3, ItemsWalked DEF x
      <4>2. x.end = "" /\ x.item = y.item /\ x.nibbles = y.left
        BY <1>4, <3>2, <3>3, <4>1 DEF WalkFields
      <4> QED BY <1>6, <3>2, <4>2 DEF WalkSound, Standing
    <3>4. CASE ~IsPrefix(node.path, c.left)
      <4>1. y.item = EMPTY_TRIE_ROOT /\ y.nodes = On(c)
        BY <3>2, <3>4
      <4> QED BY <4>1 DEF EMPTY_TRIE_ROOT
    <3> QED BY <3>3, <3>4
  <2> QED BY <1>7, <2>1, <2>2, <2>3
<1>11. Longer(f, c.nodes, y.nodes)
  BY <1>9, <1>10 DEF Longer, T
<1>12. y.nodes \in Seq(TrieNodes(f)) /\ c.item.node \in TrieNodes(f)
  BY <1>2, <1>3, <1>9, <1>10 DEF T, node
<1> QED BY <1>2, <1>10, <1>11, <1>12 DEF Climbed, ClimbOK

\* The proof P begins with the nodes of the climb c, and is no longer once c has come to nothing.
Whole(f, P, c) ==
  /\ \E z \in Seq(TrieNodes(f)) : P = c.nodes \o z
  /\ c.item.ref = "empty" => P = c.nodes

LEMMA Reassociated ==
  ASSUME NEW S, NEW s \in Seq(S), NEW t \in Seq(S), NEW u \in Seq(S)
  PROVE  (s \o t) \o u = s \o (t \o u)
BY ConcatAssociative

LEMMA SameTail ==
  ASSUME NEW S, NEW s \in Seq(S), NEW t \in Seq(S), NEW u \in Seq(S), s \o t = s \o u
  PROVE  t = u
BY ConcatSimplifications

LEMMA WholeBack ==
  ASSUME NEW m, GoodMap(m), NEW f, IsNodes(m, f), NEW key \in Keys, NEW n \in Nat,
         NEW c, ClimbOK(m, f, key, n, c), NEW y, y = Climb(c), NEW P, Whole(f, P, y)
  PROVE  ClimbOK(m, f, key, n + 1, y) /\ Whole(f, P, c)
<1> DEFINE T == TrieNodes(f)
<1>1. CASE c.item.ref = "empty"
  <2>1. y = c
    BY ONLY <1>1, y = Climb(c), ClimbCases, Zenon
  <2>2. ClimbOK(m, f, key, n + 1, y)
    BY <1>1, <2>1 DEF ClimbOK
  <2> QED BY <2>1, <2>2
<1>2. CASE c.item.ref # "empty"
  <2>1. ClimbOK(m, f, key, n + 1, y) /\ Longer(f, c.nodes, y.nodes)
    <3>1. Climbed(m, f, key, n, c, y)
      BY ONLY GoodMap(m), IsNodes(m, f), key \in Keys, n \in Nat, ClimbOK(m, f, key, n, c), <1>2, y = Climb(c),
              ClimbOn, Zenon
    <3> QED BY <3>1 DEF Climbed
  <2>2. PICK z1 \in Seq(T) : y.nodes = c.nodes \o z1
    BY <2>1 DEF Longer
  <2>3. PICK z2 \in Seq(T) : P = y.nodes \o z2
    BY DEF Whole
  <2> DEFINE s == c.nodes
  <2>4. s \in Seq(T)
    BY DEF ClimbOK
  <2> HIDE DEF T, s
  <2>5. P = s \o (z1 \o z2) /\ z1 \o z2 \in Seq(T)
    <3>1. (s \o z1) \o z2 = s \o (z1 \o z2)
      BY ONLY <2>4, z1 \in Seq(T), z2 \in Seq(T), Reassociated
    <3>2. z1 \o z2 \in Seq(T)
      BY ONLY z1 \in Seq(T), z2 \in Seq(T), ConcatProperties
    <3> QED BY ONLY <2>2, <2>3, <3>1, <3>2, Zenon DEF s
  <2> QED BY <1>2, <2>1, <2>5 DEF Whole, T, s
<1> QED BY <1>1, <1>2

\* The steps of a climb from the root.
LEMMA ClimbHolds ==
  ASSUME NEW m, GoodMap(m), NEW f, IsNodes(m, f), Refers(m, f, <<>>, TrieRoot(m)), NEW key \in Keys,
         NEW P, P = ProofOf(TrieRoot(m), key)
  PROVE  \E c : /\ c[0] = [item |-> TrieRoot(m), left |-> key, nodes |-> <<>>]
                /\ \A n \in 1 .. KeyLen + 1 : c[n] = Climb(c[n - 1])
                /\ \A n \in 0 .. KeyLen + 1 : ClimbOK(m, f, key, n, c[n]) /\ Whole(f, P, c[n])
<1> DEFINE N == KeyLen + 1
           T == TrieNodes(f)
<1>1. N \in Nat
  BY KeyLenAssumption
<1>2. PICK c : /\ P = c[N].nodes /\ c[0] = [item |-> TrieRoot(m), left |-> key, nodes |-> <<>>]
               /\ \A n \in 1 .. N : c[n] = Climb(c[n - 1])
  BY ClimbSteps
<1>3. ClimbOK(m, f, key, 0, c[0])
  <2> DEFINE e == <<>>
  <2>1. e \in Stems /\ Len(e) = 0
    BY EmptyStem
  <2>2. c[0].item = TrieRoot(m) /\ c[0].left = key /\ c[0].nodes = e
    BY <1>2
  <2>3. Refers(m, f, e, c[0].item) /\ e \in Seq(T)
    BY <2>2
  <2> HIDE DEF e
  <2>4. IsPrefix(e, key) /\ Down(e, 0)
    BY <2>1, Under DEF Down
  <2>5. key = Left(key, e)
    <3>1. key \in Seq(Nibbles) /\ Len(key) = KeyLen
      BY KeyTypes
    <3>2. SubSeq(key, 1, Len(key)) = key
      BY ONLY <3>1, SubSeqFull
    <3>3. Left(key, e) = SubSeq(key, 1, Len(key))
      BY <2>1, <3>1 DEF Left
    <3> QED BY <3>2, <3>3
  <2> QED BY <2>1, <2>2, <2>3, <2>4, <2>5 DEF ClimbOK, Standing
<1> HIDE DEF N
<1>4. \A n \in 0 .. N : ClimbOK(m, f, key, n, c[n])
  <2> DEFINE Off == {n \in 0 .. N : ~ClimbOK(m, f, key, n, c[n])}
  <2> SUFFICES ASSUME Off # {}
               PROVE  FALSE
    OBVIOUS
  <2>1. PICK x \in Off : \A y \in Off : x <= y
    <3>1. Off \in SUBSET Nat
      OBVIOUS
    <3> HIDE DEF Off
    <3> QED BY <3>1, LeastExists
  <2>2. x \in 0 .. N /\ ~ClimbOK(m, f, key, x, c[x])
    BY <2>1
  <2>3. x # 0
    BY <1>3, <2>2
  <2>4. x - 1 \in Nat /\ x - 1 \in 0 .. N /\ x \in 1 .. N /\ (x - 1) + 1 = x /\ ~(x <= x - 1)
    BY <1>1, <2>2, <2>3
  <2>5. ClimbOK(m, f, key, x - 1, c[x - 1])
    BY <2>1, <2>4
  <2>6. ClimbOK(m, f, key, (x - 1) + 1, Climb(c[x - 1]))
    <3>1. CASE c[x - 1].item.ref = "empty"
      <4>1. Climb(c[x - 1]) = c[x - 1]
        BY ONLY <3>1, ClimbCases, Zenon
      <4> QED BY <2>5, <3>1, <4>1 DEF ClimbOK
    <3>2. CASE c[x - 1].item.ref # "empty"
      <4>1. Climbed(m, f, key, x - 1, c[x - 1], Climb(c[x - 1]))
        BY ONLY GoodMap(m), IsNodes(m, f), key \in Keys, <2>4, <2>5, <3>2, ClimbOn, Zenon
      <4> QED BY ONLY <4>1 DEF Climbed
    <3> QED BY <3>1, <3>2
  <2>7. c[x] = Climb(c[x - 1])
    BY <1>2, <2>4
  <2> QED BY ONLY <2>2, <2>4, <2>6, <2>7, Zenon
<1>5. Whole(f, P, c[N])
  <2>1. N \in 0 .. N
    BY <1>1
  <2>2. P \in Seq(T)
    BY <1>2, <1>4, <2>1 DEF ClimbOK
  <2>3. <<>> \in Seq(T) /\ P \o <<>> = P
    BY <2>2, ConcatEmptySeq
  <2> QED BY <1>2, <2>3 DEF Whole
<1>6. \A n \in 0 .. N : Whole(f, P, c[n])
  <2> DEFINE Off == {k \in 0 .. N : ~Whole(f, P, c[N - k])}
  <2> SUFFICES ASSUME NEW n \in 0 .. N, ~Whole(f, P, c[n])
               PROVE  FALSE
    OBVIOUS
  <2>0. N - n \in Off
    <3>1. N - n \in 0 .. N /\ N - (N - n) = n
      BY <1>1
    <3> QED BY <3>1
  <2>1. PICK x \in Off : \A y \in Off : x <= y
    <3>1. Off \in SUBSET Nat /\ Off # {}
      BY <2>0
    <3> HIDE DEF Off
    <3> QED BY <3>1, LeastExists
  <2>2. x \in 0 .. N /\ ~Whole(f, P, c[N - x])
    BY <2>1
  <2>3. x # 0
    <3>1. N - 0 = N
      BY <1>1
    <3> QED BY <1>5, <2>2, <3>1
  <2> DEFINE k == N - x
  <2>4. /\ x - 1 \in 0 .. N /\ ~(x <= x - 1) /\ k \in Nat /\ k \in 0 .. N /\ k + 1 \in 1 .. N
        /\ N - (x - 1) = k + 1 /\ (k + 1) - 1 = k
    BY <1>1, <2>2, <2>3
  <2> HIDE DEF k
  <2>5. Whole(f, P, c[k + 1])
    BY <2>1, <2>4
  <2>6. c[k + 1] = Climb(c[k])
    BY <1>2, <2>4
  <2>7. ClimbOK(m, f, key, k, c[k])
    BY <1>4, <2>4
  <2>8. Whole(f, P, c[k])
    BY ONLY GoodMap(m), IsNodes(m, f), key \in Keys, <2>4, <2>5, <2>6, <2>7, WholeBack
  <2> QED BY <2>2, <2>8 DEF k
<1> QED BY <1>2, <1>4, <1>6 DEF N

-----------------------------------------------------------------------------
(* The walk of verify_trie_proof keeps in step with the climb that built the proof. *)

\* The walk w of the proof P has come as far as the climb c, or has ended without an error.
InStep(f, P, w, c) ==
  \/ w.end \in {"found", "absent"}
  \/ /\ w.end = "" /\ w.item = c.item /\ w.nibbles = c.left
     /\ w.rest \in Seq(TrieNodes(f)) /\ P = c.nodes \o w.rest

LEMMA NoRest ==
  ASSUME NEW S, NEW s \in Seq(S), NEW t \in Seq(S), s = s \o t
  PROVE  t = <<>>
BY ConcatEqualIffEmpty

LEMMA EndFields ==
  ASSUME NEW w, DOMAIN w = WalkFields, NEW how, NEW vals
  PROVE  Ended(w, how, vals).end = how
BY DEF Ended, WalkFields

\* One node further, once the walk has taken the node from the proof.
LEMMA NodeInStep ==
  ASSUME NEW m, GoodMap(m), NEW f, IsNodes(m, f), NEW key \in Keys, NEW p \in Stems, IsPrefix(p, key),
         NEW c, c.item.ref # "empty", c.item.node = f[p], c.left = Left(key, p),
         NEW y, y = Climb(c), y.nodes = On(c), y.nodes \in Seq(TrieNodes(f)),
         NEW P, Whole(f, P, y),
         NEW v, At(v, key, p), v.rest \in Seq(TrieNodes(f)), P = y.nodes \o v.rest
  PROVE  InStep(f, P, walk_items(v, f[p]), y)
<1> DEFINE node == f[p]
           x == walk_items(v, node)
           T == TrieNodes(f)
<1>1. /\ node.kind \in {"branch", "leaf", "ext"}
      /\ node.kind = "leaf" => Len(node.path) = KeyLen - Len(p)
  BY NodeKinds
<1>2. DOMAIN v = WalkFields /\ v.end = "" /\ v.nibbles = c.left
  BY DEF At
<1>3. y.item.ref = "empty" => v.rest = <<>>
  <2> SUFFICES ASSUME y.item.ref = "empty"
               PROVE  v.rest = <<>>
    OBVIOUS
  <2>1. y.nodes = y.nodes \o v.rest
    BY DEF Whole
  <2> QED BY <2>1, NoRest
<1>4. v.rest = <<>> => Excluded(v).end = "absent"
  <2>1. Ended(v, "absent", <<>>).end = "absent"
    BY ONLY <1>2, EndFields
  <2> QED BY <2>1 DEF Excluded
<1>5. c.item.node = node
  OBVIOUS
<1> HIDE DEF node, x
<1>6. CASE node.kind = "branch"
  <2>1. y = [item |-> node.kids[Head(c.left)], left |-> Tail(c.left), nodes |-> On(c)]
    BY ONLY <1>5, <1>6, y = Climb(c), c.item.ref # "empty", ClimbCases, Zenon
  <2>2. y.item = node.kids[Head(c.left)] /\ y.left = Tail(c.left)
    BY ONLY <2>1
  <2>3. x = [v EXCEPT !.item = node.kids[Head(v.nibbles)], !.nibbles = Tail(@)]
    BY <1>6, ItemsWalked DEF x
  <2>4. x.end = "" /\ x.item = y.item /\ x.nibbles = y.left /\ x.rest = v.rest
    BY <1>2, <2>2, <2>3 DEF WalkFields
  <2>5. InStep(f, P, x, y)
    BY <2>4 DEF InStep
  <2> QED BY <2>5 DEF x, node
<1>7. CASE node.kind = "leaf"
  <2>1. y = [item |-> EMPTY_TRIE_ROOT, left |-> c.left, nodes |-> On(c)]
    BY ONLY <1>5, <1>7, y = Climb(c), c.item.ref # "empty", ClimbCases, Zenon
  <2>2. y.item.ref = "empty"
    BY ONLY <2>1 DEF EMPTY_TRIE_ROOT
  <2>3. v.rest = <<>>
    BY <1>3, <2>2
  <2>4. Len(v.nibbles) = KeyLen - Len(p)
    <3>1. v.nibbles = SubSeq(key, Len(p) + 1, KeyLen)
      BY <1>2 DEF Left
    <3>2. \A i \in 1 .. KeyLen : key[i] \in Nibbles
      BY KeyTypes
    <3>3. Len(p) \in Nat /\ Len(p) <= KeyLen /\ KeyLen \in Nat
      BY StemTypes
    <3>4. Len(SubSeq(key, Len(p) + 1, KeyLen)) = KeyLen - Len(p)
      BY ONLY <3>2, <3>3, Part
    <3> QED BY <3>1, <3>4
  <2>5. CASE IsPrefix(node.path, v.nibbles)
    <3>1. x = Ended(v, "found", <<node.val>>)
      BY <1>1, <1>7, <2>3, <2>4, <2>5, ItemsWalked DEF x
    <3>2. x.end = "found"
      <4> DEFINE vals == <<node.val>>
      <4>1. x = Ended(v, "found", vals)
        BY <3>1
      <4> HIDE DEF vals
      <4> QED BY ONLY <1>2, <4>1, EndFields
    <3> QED BY <3>2 DEF InStep, x, node
  <2>6. CASE ~IsPrefix(node.path, v.nibbles)
    <3>1. x = Excluded(v)
      BY <1>7, <2>6, ItemsWalked DEF x
    <3>2. x.end = "absent"
      BY <1>4, <2>3, <3>1
    <3> QED BY <3>2 DEF InStep, x, node
  <2> QED BY <2>5, <2>6
<1>8. CASE node.kind = "ext"
  <2>1. y = [item |-> IF IsPrefix(node.path, c.left) THEN node.child ELSE EMPTY_TRIE_ROOT,
             left |-> SubSeq(c.left, Len(node.path) + 1, Len(c.left)), nodes |-> On(c)]
    BY ONLY <1>5, <1>8, y = Climb(c), c.item.ref # "empty", ClimbCases, Zenon
  <2>2. /\ y.item = IF IsPrefix(node.path, c.left) THEN node.child ELSE EMPTY_TRIE_ROOT
        /\ y.left = SubSeq(c.left, Len(node.path) + 1, Len(c.left))
    BY ONLY <2>1
  <2>3. CASE IsPrefix(node.path, c.left)
    <3>1. x = [v EXCEPT !.item = node.child, !.nibbles = SubSeq(@, Len(node.path) + 1, Len(@))]
      BY <1>2, <1>8, <2>3, ItemsWalked DEF x
    <3>2. x.end = "" /\ x.item = y.item /\ x.nibbles = y.left /\ x.rest = v.rest
      BY <1>2, <2>2, <2>3, <3>1 DEF WalkFields
    <3>3. InStep(f, P, x, y)
      BY <3>2 DEF InStep
    <3> QED BY <3>3 DEF x, node
  <2>4. CASE ~IsPrefix(node.path, c.left)
    <3>1. y.item.ref = "empty"
      BY <2>2, <2>4 DEF EMPTY_TRIE_ROOT
    <3>2. x = Excluded(v)
      BY <1>2, <1>8, <2>4, ItemsWalked DEF x
    <3>3. x.end = "absent"
      BY <1>3, <1>4, <3>1, <3>2
    <3> QED BY <3>3 DEF InStep, x, node
  <2> QED BY <2>3, <2>4
<1> QED BY <1>1, <1>6, <1>7, <1>8

\* One step of the walk and of the climb.
LEMMA StaysInStep ==
  ASSUME NEW m, GoodMap(m), NEW f, IsNodes(m, f), NEW key \in Keys, NEW n \in Nat,
         NEW c, ClimbOK(m, f, key, n, c), NEW P, Whole(f, P, c), NEW y, y = Climb(c), Whole(f, P, y),
         NEW w, DOMAIN w = WalkFields, InStep(f, P, w, c)
  PROVE  InStep(f, P, follow_child(w), y)
<1> DEFINE T == TrieNodes(f)
<1>1. CASE w.end # ""
  <2>1. follow_child(w) = w /\ w.end \in {"found", "absent"}
    BY <1>1 DEF follow_child, InStep
  <2> QED BY <2>1 DEF InStep
<1>2. CASE w.end = ""
  <2>1. w.item = c.item /\ w.nibbles = c.left /\ w.rest \in Seq(T) /\ P = c.nodes \o w.rest /\ c.nodes \in Seq(T)
    BY <1>2 DEF InStep, ClimbOK
  <2>2. CASE c.item.ref = "empty"
    <3>1. w.rest = <<>>
      <4>1. c.nodes = c.nodes \o w.rest
        BY <2>1, <2>2 DEF Whole
      <4> QED BY <2>1, <4>1, NoRest
    <3>2. follow_child(w) = Ended(w, "absent", <<>>)
      BY <1>2, <2>1, <2>2, <3>1 DEF follow_child, Excluded
    <3>3. follow_child(w).end = "absent"
      BY <3>2, EndFields
    <3> QED BY <3>3 DEF InStep
  <2>3. CASE c.item.ref # "empty"
    <3>1. /\ ClimbOK(m, f, key, n + 1, y) /\ y.nodes = On(c)
          /\ c.item.ref \in {"hash", "inline"} /\ c.item.node \in T
      <4>1. Climbed(m, f, key, n, c, y)
        BY ONLY GoodMap(m), IsNodes(m, f), key \in Keys, n \in Nat, ClimbOK(m, f, key, n, c), <2>3, y = Climb(c),
                ClimbOn, Zenon
      <4> QED BY <4>1 DEF Climbed
    <3>2. PICK p \in Stems : IsPrefix(p, key) /\ c.left = Left(key, p) /\ Refers(m, f, p, c.item)
      BY <2>3 DEF ClimbOK, Standing
    <3>3. c.item.node = f[p]
      BY <2>3, <3>2 DEF Refers
    <3>4. y.nodes \in Seq(T)
      BY <3>1 DEF ClimbOK
    <3>5. CASE c.item.ref = "inline"
      <4>1. follow_child(w) = walk_items(w, f[p])
        BY <1>2, <2>1, <3>3, <3>5 DEF follow_child
      <4>2. y.nodes = c.nodes
        BY <3>1, <3>5 DEF On
      <4>3. At(w, key, p) /\ P = y.nodes \o w.rest
        BY <1>2, <2>1, <3>2, <4>2 DEF At
      <4>4. InStep(f, P, walk_items(w, f[p]), y)
        BY <2>1, <2>3, <3>1, <3>2, <3>3, <3>4, <4>3, NodeInStep
      <4> QED BY <4>1, <4>4
    <3>6. CASE c.item.ref = "hash"
      <4> DEFINE node == f[p]
                 v == [w EXCEPT !.rest = Tail(@)]
      <4>1. y.nodes = Append(c.nodes, node) /\ node \in T
        BY <3>1, <3>3, <3>6 DEF On
      <4>2. PICK z \in Seq(T) : P = y.nodes \o z
        BY DEF Whole
      <4> DEFINE s == c.nodes
                 r == w.rest
                 h == <<node>>
      <4> HIDE DEF node, T
      <4>3. <<node>> \in Seq(T) /\ y.nodes = c.nodes \o <<node>>
        <5>1. Append(c.nodes, node) = c.nodes \o <<node>>
          BY ONLY <2>1, <4>1, AppendIsConcat
        <5> QED BY <4>1, <5>1
      <4>3a. s \in Seq(T) /\ r \in Seq(T) /\ h \in Seq(T) /\ y.nodes = s \o h /\ P = s \o r
        BY <2>1, <4>3
      <4> HIDE DEF s, r, h
      <4>4. (s \o h) \o z = s \o (h \o z)
        <5>1. s \in Seq(T) /\ h \in Seq(T)
          BY <4>3a
        <5> QED BY ONLY <5>1, z \in Seq(T), Reassociated, SMTT(30)
      <4>5. h \o z \in Seq(T)
        BY ONLY <4>3a, z \in Seq(T), ConcatProperties
      <4>6. s \o r = s \o (h \o z)
        BY ONLY <4>2, <4>3a, <4>4, Zenon
      <4>7. w.rest = <<node>> \o z
        <5> DEFINE hz == h \o z
        <5>1. hz \in Seq(T) /\ s \o r = s \o hz
          BY <4>5, <4>6
        <5> HIDE DEF hz
        <5>2. r = hz
          BY ONLY <4>3a, <5>1, SameTail
        <5> QED BY <5>2 DEF r, hz, h
      <4>8. w.rest # <<>> /\ Head(w.rest) = node /\ Tail(w.rest) = z
        BY ONLY <4>1, <4>7, z \in Seq(T)
      <4>9. DOMAIN v = WalkFields /\ v.end = "" /\ v.nibbles = w.nibbles /\ v.rest = z
        BY <1>2, <4>8 DEF WalkFields
      <4>10. follow_child(w) = walk_items(v, node)
        <5>1. follow_child(w) = consume_hashed(w)
          BY <1>2, <2>1, <3>6 DEF follow_child
        <5>2. w.item.node = node
          BY <2>1, <3>3 DEF node
        <5> QED BY <4>8, <5>1, <5>2 DEF consume_hashed
      <4> HIDE DEF v
      <4>11. At(v, key, p) /\ P = y.nodes \o v.rest
        BY <2>1, <3>2, <4>2, <4>9 DEF At
      <4>12. InStep(f, P, walk_items(v, f[p]), y)
        BY <2>3, <3>1, <3>2, <3>3, <3>4, <4>9, <4>11, NodeInStep DEF T
      <4> QED BY <4>10, <4>12 DEF node
    <3> QED BY <3>1, <3>5, <3>6
  <2> QED BY <2>2, <2>3
<1> QED BY <1>1, <1>2

\* There is a node at least in the proof of a trie that is not empty.
LEMMA ProofNotEmpty ==
  ASSUME NEW m, GoodMap(m), DOMAIN m # {}, NEW key \in Keys
  PROVE  ProofOf(TrieRoot(m), key) # <<>>
<1> DEFINE P == ProofOf(TrieRoot(m), key)
           node == encode_node(m)
<1>1. PICK f : IsNodes(m, f) /\ Refers(m, f, <<>>, TrieRoot(m))
  BY RootRefers
<1>2. PICK c : /\ c[0] = [item |-> TrieRoot(m), left |-> key, nodes |-> <<>>]
               /\ \A n \in 1 .. KeyLen + 1 : c[n] = Climb(c[n - 1])
               /\ \A n \in 0 .. KeyLen + 1 : ClimbOK(m, f, key, n, c[n]) /\ Whole(f, P, c[n])
  BY <1>1, ClimbHolds
<1>3. 0 \in 0 .. KeyLen + 1 /\ 1 \in 0 .. KeyLen + 1 /\ 1 \in 1 .. KeyLen + 1 /\ 0 \in Nat /\ 1 - 1 = 0
  BY KeyLenAssumption
<1>4. ClimbOK(m, f, key, 0, c[0]) /\ c[1] = Climb(c[0]) /\ Whole(f, P, c[1])
  BY <1>2, <1>3
<1>5. c[0].item = TrieRoot(m) /\ c[0].nodes = <<>>
  BY <1>2
<1>6. TrieRoot(m) = Hashed(node)
  BY DEF TrieRoot
<1> HIDE DEF node, P
<1>7. c[0].item.ref = "hash" /\ c[0].item.node = node
  BY <1>5, <1>6 DEF Hashed
<1>8. Climbed(m, f, key, 0, c[0], c[1])
  <2>1. c[0].item.ref # "empty"
    BY <1>7
  <2> QED BY ONLY GoodMap(m), <1>1, key \in Keys, <1>3, <1>4, <2>1, ClimbOn, Zenon
<1>9. c[1].nodes = Append(<<>>, node) /\ node \in TrieNodes(f)
  <2>1. On(c[0]) = Append(<<>>, node)
    BY ONLY <1>5, <1>7 DEF On
  <2> QED BY <1>7, <1>8, <2>1 DEF Climbed
<1> DEFINE T == TrieNodes(f)
<1>10. PICK z \in Seq(T) : P = c[1].nodes \o z
  BY <1>4 DEF Whole
<1> HIDE DEF T
<1>11. Append(<<>>, node) = <<node>> /\ <<node>> \in Seq(T)
  BY <1>9 DEF T
<1>12. Len(<<node>> \o z) = 1 + Len(z) /\ Len(z) \in Nat
  BY <1>11
<1>13. Len(P) # 0
  BY <1>9, <1>10, <1>11, <1>12
<1>14. P # <<>>
  BY ONLY <1>13
<1> QED BY <1>14 DEF P

\* The proof a full node builds of a key is accepted, and shows whether the map has the key.  No
\* trie is empty here: of an empty one a full node has no node to send, and verify_trie_proof
\* refuses a proof without one.
THEOREM TrieProofsComplete ==
  ASSUME NEW m, GoodMap(m), DOMAIN m # {}, NEW key \in Keys
  PROVE  verify_trie_proof(TrieRoot(m), key, ProofOf(TrieRoot(m), key)).end
           = IF key \in DOMAIN m THEN "found" ELSE "absent"
<1> DEFINE P == ProofOf(TrieRoot(m), key)
           N == KeyLen + 1
           w == verify_trie_proof(TrieRoot(m), key, P)
<1>1. N \in Nat
  BY KeyLenAssumption
<1>2. PICK f : IsNodes(m, f) /\ Refers(m, f, <<>>, TrieRoot(m))
  BY RootRefers
<1>3. PICK g : /\ w = g[N]
               /\ g[0] = [item |-> TrieRoot(m), nibbles |-> key, rest |-> P, end |-> FirstEnd(P), vals |-> <<>>]
               /\ \A n \in 1 .. N : g[n] = follow_child(g[n - 1])
               /\ \A n \in 0 .. N : WalkSound(m, f, key, n, g[n])
  BY <1>2, WalkHolds
<1>4. PICK c : /\ c[0] = [item |-> TrieRoot(m), left |-> key, nodes |-> <<>>]
               /\ \A n \in 1 .. N : c[n] = Climb(c[n - 1])
               /\ \A n \in 0 .. N : ClimbOK(m, f, key, n, c[n]) /\ Whole(f, P, c[n])
  BY <1>2, ClimbHolds
<1>4a. g[0].end = "" /\ g[0].item = TrieRoot(m) /\ g[0].nibbles = key /\ g[0].rest = P
  <2> DEFINE x == g[0]
             item == TrieRoot(m)
  <2>0. FirstEnd(P) = ""
    BY ProofNotEmpty DEF FirstEnd
  <2>1. x = [item |-> item, nibbles |-> key, rest |-> P, end |-> "", vals |-> <<>>]
    BY ONLY <1>3, <2>0, Zenon
  <2> HIDE DEF x, item, P
  <2>2. x.end = "" /\ x.item = item /\ x.nibbles = key /\ x.rest = P
    BY ONLY <2>1
  <2> QED BY <2>2 DEF x, item
<1> HIDE DEF N, P, w
<1>5. InStep(f, P, g[0], c[0])
  <2>1. c[0].nodes = <<>> /\ c[0].item = TrieRoot(m) /\ c[0].left = key
    BY <1>4
  <2>3. 0 \in 0 .. N
    BY <1>1
  <2>4. PICK z \in Seq(TrieNodes(f)) : P = c[0].nodes \o z
    BY <1>4, <2>3 DEF Whole
  <2>5. <<>> \o z = z
    BY ConcatEmptySeq
  <2>6. P = z /\ P = c[0].nodes \o P
    BY <2>1, <2>4, <2>5
  <2> QED BY <1>4a, <2>1, <2>6 DEF InStep
<1> DEFINE Off == {n \in 0 .. N : ~InStep(f, P, g[n], c[n])}
<1>6. Off = {}
  <2> SUFFICES ASSUME Off # {}
               PROVE  FALSE
    OBVIOUS
  <2>1. PICK x \in Off : \A y \in Off : x <= y
    <3>1. Off \in SUBSET Nat
      OBVIOUS
    <3> HIDE DEF Off
    <3> QED BY <3>1, LeastExists
  <2>2. x \in 0 .. N /\ ~InStep(f, P, g[x], c[x])
    BY <2>1
  <2>3. x # 0
    BY <1>5, <2>2
  <2>4. x - 1 \in Nat /\ x - 1 \in 0 .. N /\ x \in 1 .. N /\ ~(x <= x - 1)
    BY <1>1, <2>2, <2>3
  <2>5. InStep(f, P, g[x - 1], c[x - 1])
    BY <2>1, <2>4
  <2>6. ClimbOK(m, f, key, x - 1, c[x - 1]) /\ Whole(f, P, c[x - 1]) /\ Whole(f, P, c[x])
    BY <1>4, <2>2, <2>4
  <2>7. DOMAIN g[x - 1] = WalkFields
    BY <1>3, <2>4 DEF WalkSound
  <2>8. g[x] = follow_child(g[x - 1]) /\ c[x] = Climb(c[x - 1])
    BY <1>3, <1>4, <2>4
  <2>9. InStep(f, P, follow_child(g[x - 1]), c[x])
    BY ONLY GoodMap(m), <1>2, key \in Keys, <2>4, <2>5, <2>6, <2>7, <2>8, StaysInStep
  <2> QED BY <2>2, <2>8, <2>9
<1>7. InStep(f, P, w, c[N])
  <2>1. N \in 0 .. N
    BY <1>1
  <2> QED BY <1>3, <1>6, <2>1
<1>8. /\ w.end \in {"found", "absent", "bad"}
      /\ w.end = "found" => key \in DOMAIN m
      /\ w.end = "absent" => key \notin DOMAIN m
  BY TrieProofsSound DEF w
<1>9. w.end \in {"found", "absent"}
  BY <1>7, <1>8 DEF InStep
<1>10. w.end = IF key \in DOMAIN m THEN "found" ELSE "absent"
  BY <1>8, <1>9
<1> QED BY <1>10 DEF P, w

-----------------------------------------------------------------------------
(* What the chain says of an account and its slots passes the checks of a reply. *)

\* The proof a full node builds of a slot, and of an account, is accepted.
LEMMA SlotProofAccepted ==
  ASSUME NEW w \in Worlds, NEW a \in Accounts, NEW s \in Slots, NEW root, root = State[w][a].root
  PROVE  verify_storage_proof(root, s, ProofOf(root, SlotKey[s])) = <<w[a].store[s]>>
<1> DEFINE m == Storage(w, a)
           k == SlotKey[s]
           P == ProofOf(root, k)
           v == verify_trie_proof(root, k, P)
           res == verify_storage_proof(root, s, P)
           empty == root = EMPTY_TRIE_ROOT
<1>1. GoodMap(m) /\ k \in Keys /\ root = TrieRoot(m)
  BY StorageFacts, KeysOfSlots, StateFacts
<1> HIDE DEF m
<1>2. ~empty => v.end \in {"found", "absent"}
  <2> SUFFICES ASSUME ~empty
               PROVE  v.end \in {"found", "absent"}
    OBVIOUS
  <2>1. DOMAIN m # {}
    BY <1>1 DEF TrieRoot
  <2>2. v.end = IF k \in DOMAIN m THEN "found" ELSE "absent"
    <3> HIDE DEF k
    <3> QED BY <1>1, <2>1, TrieProofsComplete
  <2> QED BY <2>2
<1>3. res \in {<<>>, <<w[a].store[s]>>}
  BY SlotProven
<1>4. res = CASE empty \/ v.end = "absent" -> <<0>> [] ~empty /\ v.end = "bad" -> <<>> [] OTHER -> <<v.vals[1].v>>
  BY DEF verify_storage_proof
<1> SUFFICES res = <<w[a].store[s]>>
  OBVIOUS
<1> HIDE DEF v, res, empty
<1>5. res = <<0>> \/ res = <<v.vals[1].v>>
  BY ONLY <1>2, <1>4
<1>6. res # <<>>
  BY ONLY <1>5
<1> QED BY ONLY <1>3, <1>6

LEMMA StateTrie ==
  ASSUME NEW w \in Worlds
  PROVE  \E m : GoodMap(m) /\ DOMAIN m # {} /\ StateRoot[w] = TrieRoot(m)
<1> DEFINE live == {b \in Accounts : State[w][b] # empty_account}
           ks == {AccountKey[b] : b \in live}
           at(k) == CHOOSE b \in live : AccountKey[b] = k
           m == [k \in ks |-> State[w][at(k)]]
<1>1. live \subseteq Accounts /\ IsFiniteSet(live)
  BY KeysApart, FS_Subset
<1>2. ks \subseteq Keys
  BY <1>1, KeysOfAccounts
<1>3. IsFiniteSet(ks)
  <2> DEFINE f == [b \in live |-> AccountKey[b]]
  <2>1. f \in Surjection(live, ks)
    BY DEF Surjection
  <2> HIDE DEF live, ks, f
  <2> QED BY <1>1, <2>1, FS_Surjection
<1>4. StateRoot[w] = TrieRoot(m)
  BY DEF StateRoot
<1>5. DOMAIN m = ks
  OBVIOUS
<1>6. ks # {}
  BY StatesLive
<1> HIDE DEF live, ks, at, m
<1> QED BY <1>2, <1>3, <1>4, <1>5, <1>6 DEF GoodMap

LEMMA AccountProofAccepted ==
  ASSUME NEW w \in Worlds, NEW a \in Accounts, NEW root, root = StateRoot[w]
  PROVE  verify_account_proof(root, a, ProofOf(root, AccountKey[a])) = <<State[w][a]>>
<1> DEFINE k == AccountKey[a]
           P == ProofOf(root, k)
           v == verify_trie_proof(root, k, P)
           res == verify_account_proof(root, a, P)
<1>1. PICK m : GoodMap(m) /\ DOMAIN m # {} /\ root = TrieRoot(m)
  BY StateTrie
<1>2. k \in Keys
  BY KeysOfAccounts
<1>3. v.end \in {"found", "absent"} /\ (v.end = "found" => v.vals = <<m[k]>>)
  <2> HIDE DEF k
  <2>1. v.end = IF k \in DOMAIN m THEN "found" ELSE "absent"
    BY <1>1, <1>2, TrieProofsComplete
  <2>2. v.end = "found" => v.vals = <<m[k]>>
    BY <1>1, <1>2, TrieProofsSound
  <2> QED BY <2>1, <2>2
<1>4. res \in {<<>>, <<State[w][a]>>}
  BY AccountProven
<1>5. res = CASE v.end = "absent" -> <<empty_account>> [] v.end = "bad" -> <<>> [] OTHER -> v.vals
  BY DEF verify_account_proof
<1> SUFFICES res = <<State[w][a]>>
  OBVIOUS
<1> DEFINE x == m[k]
           vals == v.vals
           end == v.end
<1>6. end \in {"found", "absent"} /\ (end = "found" => vals = <<x>>)
      /\ res = CASE end = "absent" -> <<empty_account>> [] end = "bad" -> <<>> [] OTHER -> vals
  BY <1>3, <1>5
<1> HIDE DEF v, res, x, vals, end
<1>7. res = <<empty_account>> \/ res = <<x>>
  <2>1. CASE end = "absent"
    BY ONLY <1>6, <2>1
  <2>2. CASE end = "found"
    BY ONLY <1>6, <2>2
  <2> QED BY <1>6, <2>1, <2>2
<1>8. res # <<>>
  BY ONLY <1>7
<1> QED BY ONLY <1>4, <1>8

\* The parts of the true reply.
LEMMA TruthIs ==
  ASSUME NEW w \in Worlds, NEW a \in Accounts, NEW slots \in Seq(Slots), NEW t, t = Truth(w, a, slots),
         NEW acc, acc = State[w][a]
  PROVE  /\ t.addr = a /\ t.nodes = ProofOf(StateRoot[w], AccountKey[a]) /\ t.claim = acc /\ t.code = acc.code
         /\ DOMAIN t.entries = 1 .. Len(slots) /\ Len(t.entries) = Len(slots)
         /\ \A i \in 1 .. Len(slots) : /\ t.entries[i].key = slots[i] /\ t.entries[i].value = w[a].store[slots[i]]
                                       /\ t.entries[i].nodes = ProofOf(acc.root, SlotKey[slots[i]])
<1> DEFINE n == Len(slots)
           E(i) == [key |-> slots[i], nodes |-> ProofOf(acc.root, SlotKey[slots[i]]), value |-> w[a].store[slots[i]]]
           es == [i \in 1 .. n |-> E(i)]
           P == ProofOf(StateRoot[w], AccountKey[a])
<1>1. t = [addr |-> a, nodes |-> P, claim |-> acc, code |-> acc.code, entries |-> es]
  BY DEF Truth
<1>2. \A i : /\ E(i).key = slots[i] /\ E(i).value = w[a].store[slots[i]]
             /\ E(i).nodes = ProofOf(acc.root, SlotKey[slots[i]])
  OBVIOUS
<1>3. n \in Nat
  OBVIOUS
<1> HIDE DEF E, n
<1>4. DOMAIN es = 1 .. n /\ \A i \in 1 .. n : es[i] = E(i)
  OBVIOUS
<1>5. Len(es) = n
  BY <1>3, <1>4
<1> HIDE DEF es, P
<1>6. t.addr = a /\ t.nodes = P /\ t.claim = acc /\ t.code = acc.code /\ t.entries = es
  BY ONLY <1>1
<1> QED BY <1>2, <1>4, <1>5, <1>6 DEF P, n

\* The true reply is accepted.
LEMMA TruthAccepted ==
  ASSUME NEW w \in Worlds, NEW a \in Accounts, NEW slots \in Seq(Slots), Len(slots) <= MAX_PROOF_STORAGE_KEYS
  PROVE  verify_eth_get_proof(StateRoot[w], a, Truth(w, a, slots)) = <<State[w][a]>>
<1> DEFINE t == Truth(w, a, slots)
           root == StateRoot[w]
           x == State[w][a]
           acc == verify_account_proof(root, a, t.nodes)
<1>1. /\ t.addr = a /\ t.nodes = ProofOf(root, AccountKey[a]) /\ t.claim = x
      /\ DOMAIN t.entries = 1 .. Len(slots) /\ Len(t.entries) = Len(slots)
      /\ \A i \in 1 .. Len(slots) : t.entries[i].nodes = ProofOf(x.root, SlotKey[slots[i]])
  BY TruthIs
<1>2. acc = <<x>>
  BY <1>1, AccountProofAccepted
<1>3. Len(t.nodes) <= MAX_PROOF_NODES
  BY <1>1, ProofsFit
<1>4. Len(t.entries) <= MAX_PROOF_STORAGE_ENTRIES
  <2>1. Len(slots) \in Nat /\ MAX_PROOF_STORAGE_KEYS \in Nat /\ MAX_PROOF_STORAGE_ENTRIES \in Nat
        /\ MAX_PROOF_STORAGE_KEYS <= MAX_PROOF_STORAGE_ENTRIES
    BY CallNats, ProofsFit
  <2>2. Len(slots) <= MAX_PROOF_STORAGE_ENTRIES
    BY ONLY <2>1, Len(slots) <= MAX_PROOF_STORAGE_KEYS
  <2> QED BY <1>1, <2>2
<1>5. \A i \in DOMAIN t.entries : Len(t.entries[i].nodes) <= MAX_PROOF_NODES
  <2> SUFFICES ASSUME NEW i \in 1 .. Len(slots)
               PROVE  Len(t.entries[i].nodes) <= MAX_PROOF_NODES
    BY <1>1
  <2>1. slots[i] \in Slots
    OBVIOUS
  <2> QED BY <1>1, <2>1, ProofsFit
<1> HIDE DEF t
<1>6. verify_eth_get_proof(root, a, t) = 
       IF /\ t.addr = a
          /\ Len(t.nodes) <= MAX_PROOF_NODES
          /\ Len(t.entries) <= MAX_PROOF_STORAGE_ENTRIES
          /\ \A i \in DOMAIN t.entries : Len(t.entries[i].nodes) <= MAX_PROOF_NODES
          /\ acc = <<t.claim>>
       THEN acc ELSE <<>>
  BY DEF verify_eth_get_proof
<1> HIDE DEF acc
<1>7. verify_eth_get_proof(root, a, t) = acc
  BY <1>1, <1>2, <1>3, <1>4, <1>5, <1>6
<1> QED BY <1>2, <1>7 DEF t

\* Its entry for a slot shows the slot.
LEMMA TrueSlot ==
  ASSUME NEW w \in Worlds, NEW a \in Accounts, NEW slots \in Seq(Slots), NEW te, te = Truth(w, a, slots).entries,
         NEW acc, acc = State[w][a], NEW i \in 1 .. Len(slots), NEW s, s = slots[i]
  PROVE  verify_storage_slot(acc, s, te) = <<w[a].store[s]>>
<1> DEFINE n == Len(slots)
           At1(j) == te[j].key = s /\ \A l \in 1 .. j - 1 : te[l].key # s
           c == CHOOSE j \in DOMAIN te : At1(j)
           v == verify_storage_proof(acc.root, s, te[c].nodes)
           empty == acc.root = EMPTY_TRIE_ROOT
<1>1. /\ DOMAIN te = 1 .. n
      /\ \A j \in 1 .. n : /\ te[j].key = slots[j] /\ te[j].value = w[a].store[slots[j]]
                           /\ te[j].nodes = ProofOf(acc.root, SlotKey[slots[j]])
  BY TruthIs
<1>2. n \in Nat /\ s \in Slots
  OBVIOUS
<1>3. \E j \in DOMAIN te : At1(j)
  <2> DEFINE S == {j \in 1 .. n : slots[j] = s}
  <2>1. S \in SUBSET Nat /\ i \in S
    BY <1>2
  <2>2. PICK j \in S : \A l \in S : j <= l
    <3> HIDE DEF S
    <3> QED BY <2>1, LeastExists
  <2>3. j \in 1 .. n /\ slots[j] = s
    BY <2>2
  <2>4. \A l \in 1 .. j - 1 : l \in 1 .. n /\ ~(j <= l)
    BY <1>2, <2>3
  <2>5. \A l \in 1 .. j - 1 : te[l].key # s
    BY <1>1, <2>2, <2>4
  <2> QED BY <1>1, <2>3, <2>5
<1>4. c \in DOMAIN te /\ At1(c)
  BY <1>3
<1>5. verify_storage_slot(acc, s, te) = CASE empty -> <<0>> [] ~empty -> IF v = <<te[c].value>> THEN v ELSE <<>>
  BY DEF verify_storage_slot
<1> HIDE DEF c
<1>6. te[c].nodes = ProofOf(acc.root, SlotKey[s]) /\ te[c].value = w[a].store[s]
  BY <1>1, <1>4
<1>7. v = <<w[a].store[s]>>
  BY <1>2, <1>6, SlotProofAccepted
<1>8. empty \in BOOLEAN /\ (empty => w[a].store[s] = 0)
  BY <1>2, StateFacts
<1> HIDE DEF v, empty
<1> QED BY <1>5, <1>6, <1>7, <1>8

-----------------------------------------------------------------------------
(* An honest reply is taken whole, or a limit stops it. *)

\* What the first n slots of a true reply make of the slots held: all of them, or more than the
\* cap were asked for.
Taken(st, n, held, slots, K) ==
  \/ st.err = "" /\ DOMAIN st.slots = DOMAIN held \cup {slots[i] : i \in 1 .. n}
  \/ st.err = "budget" /\ Cardinality(K) > MAX_PROOF_STORAGE_KEYS

\* One more than there is room for.
LEMMA NoRoom ==
  ASSUME NEW K, IsFiniteSet(K), NEW S \in SUBSET K, NEW k \in K, k \notin S, NEW max \in Nat, Cardinality(S) >= max
  PROVE  Cardinality(K) > max
<1>1. IsFiniteSet(S) /\ Cardinality(S) \in Nat
  BY FS_Subset, FS_CardinalityType
<1>2. Cardinality(S \cup {k}) = Cardinality(S) + 1
  BY <1>1, FS_AddElement
<1>3. S \cup {k} \in SUBSET K
  OBVIOUS
<1>4. Cardinality(S \cup {k}) <= Cardinality(K) /\ Cardinality(K) \in Nat
  BY <1>3, FS_Subset, FS_CardinalityType
<1> QED BY <1>1, <1>2, <1>4

LEMMA TrueEntryTaken ==
  ASSUME NEW w \in Worlds, NEW a \in Accounts, NEW slots \in Seq(Slots), NEW te, te = Truth(w, a, slots).entries,
         NEW acc, acc = State[w][a], NEW held, NEW K, IsFiniteSet(K), DOMAIN held \subseteq K,
         \A i \in 1 .. Len(slots) : slots[i] \in K,
         NEW n \in 1 .. Len(slots), NEW st, TakenSound(w, a, st), Taken(st, n - 1, held, slots, K)
  PROVE  Taken(Entry(acc, te, st, te[n]), n, held, slots, K)
<1> DEFINE k == slots[n]
           v == verify_storage_slot(acc, k, te)
           en == Entry(acc, te, st, te[n])
           new == Put(st.slots, k, v[1])
<1>1. te[n].key = k /\ k \in Slots /\ k # Wide /\ k \in K
  <2>1. te[n].key = k
    BY TruthIs
  <2>2. k \in Slots
    OBVIOUS
  <2> QED BY <2>1, <2>2, KeysApart
<1>2. v = <<w[a].store[k]>>
  BY TrueSlot
<1>3. v # <<>>
  <2> HIDE DEF v
  <2> QED BY <1>2
<1>4. DOMAIN st = {"err", "slots"}
  BY DEF TakenSound
<1>5. /\ st.err # "" => en = st
      /\ st.err = "" /\ Cardinality(DOMAIN st.slots) >= MAX_PROOF_STORAGE_KEYS /\ k \notin DOMAIN st.slots =>
           en = [st EXCEPT !.err = "budget"]
      /\ st.err = "" /\ ~(Cardinality(DOMAIN st.slots) >= MAX_PROOF_STORAGE_KEYS /\ k \notin DOMAIN st.slots) =>
           en = [st EXCEPT !.slots = new]
  <2> DEFINE e == te[n]
  <2>1. e.key = k
    BY <1>1
  <2> HIDE DEF e, k, v
  <2>2. en = Entry(acc, te, st, e) /\ v = verify_storage_slot(acc, e.key, te)
    BY <2>1 DEF e, v
  <2> QED BY <1>1, <1>3, <2>1, <2>2 DEF Entry
<1> DEFINE D == DOMAIN st.slots
<1>6. /\ DOMAIN new = D \cup {k}
  <2> HIDE DEF v, k
  <2> QED BY DEF Put
<1> HIDE DEF en, new, k, v
<1>7. CASE st.err # ""
  <2>1. en = st
    BY <1>5, <1>7
  <2> QED BY <1>7, <2>1 DEF Taken, en
<1>8. CASE st.err = ""
  <2>1. D = DOMAIN held \cup {slots[i] : i \in 1 .. n - 1}
    BY <1>8 DEF Taken
  <2>2. D \in SUBSET K
    <3>1. \A i \in 1 .. n - 1 : i \in 1 .. Len(slots)
      OBVIOUS
    <3> QED BY <2>1, <3>1
  <2>3. D \cup {k} = DOMAIN held \cup {slots[i] : i \in 1 .. n}
    <3>1. \A i : i \in 1 .. n <=> i \in 1 .. n - 1 \/ i = n
      OBVIOUS
    <3> QED BY <2>1, <3>1 DEF k
  <2>4. CASE Cardinality(D) >= MAX_PROOF_STORAGE_KEYS /\ k \notin D
    <3>1. en.err = "budget"
      BY <1>4, <1>5, <1>8, <2>4
    <3>2. Cardinality(K) > MAX_PROOF_STORAGE_KEYS
      <4> HIDE DEF D
      <4> QED BY ONLY <1>1, <2>2, <2>4, IsFiniteSet(K), NoRoom, CallNats
    <3> QED BY <3>1, <3>2 DEF Taken, en
  <2>5. CASE ~(Cardinality(D) >= MAX_PROOF_STORAGE_KEYS /\ k \notin D)
    <3>1. en = [st EXCEPT !.slots = new]
      BY <1>5, <1>8, <2>5
    <3>2. en.err = "" /\ en.slots = new
      BY <1>4, <1>8, <3>1
    <3> QED BY <1>6, <2>3, <3>2 DEF Taken, en
  <2> QED BY <2>4, <2>5
<1> QED BY <1>7, <1>8

LEMMA TruthTaken ==
  ASSUME NEW w \in Worlds, NEW a \in Accounts, NEW slots \in Seq(Slots), NEW te, te = Truth(w, a, slots).entries,
         NEW acc, acc = State[w][a], NEW held, SlotsSound(w, a, held), NEW K, IsFiniteSet(K), DOMAIN held \subseteq K,
         \A i \in 1 .. Len(slots) : slots[i] \in K
  PROVE  Taken(TakeIn(acc, te, held), Len(slots), held, slots, K)
<1> DEFINE N == Len(te)
           s0 == [err |-> "", slots |-> held]
           g == CHOOSE h : h = [n \in 0 .. Len(te) |-> IF n = 0 THEN s0 ELSE Entry(acc, te, h[n - 1], te[n])]
           res == TakeIn(acc, te, held)
<1>1. N \in Nat /\ N = Len(slots) /\ \A i \in 1 .. N : te[i].key \in Slots
  BY TruthIs
<1>2. res = g[N]
  BY DEF TakeIn
<1>3. TakenSound(w, a, s0) /\ Taken(s0, 0, held, slots, K)
  <2>1. DOMAIN s0 = {"err", "slots"} /\ s0.err = "" /\ s0.slots = held
    OBVIOUS
  <2> HIDE DEF s0
  <2>2. {slots[i] : i \in 1 .. 0} = {}
    OBVIOUS
  <2> QED BY <2>1, <2>2 DEF TakenSound, Taken
<1>4. g = [n \in 0 .. N |-> IF n = 0 THEN s0 ELSE Entry(acc, te, g[n - 1], te[n])]
  <2>1. \E h : IsTaken(h, N, acc, te, held)
    <3> HIDE DEF N
    <3> QED BY <1>1, TakenExists
  <2>2. \E h : h = [n \in 0 .. Len(te) |-> IF n = 0 THEN s0 ELSE Entry(acc, te, h[n - 1], te[n])]
    BY <2>1 DEF IsTaken
  <2> QED BY <2>2
<1> SUFFICES Taken(res, N, held, slots, K)
  BY <1>1
<1> HIDE DEF g, s0, N, res
<1>5. g[0] = s0 /\ \A n \in 1 .. N : g[n] = Entry(acc, te, g[n - 1], te[n])
  <2>1. \A n \in 0 .. N : g[n] = IF n = 0 THEN s0 ELSE Entry(acc, te, g[n - 1], te[n])
    BY <1>4
  <2> QED BY <1>1, <2>1
<1> DEFINE Fine(n) == TakenSound(w, a, g[n]) /\ Taken(g[n], n, held, slots, K)
           Off == {n \in 0 .. N : ~Fine(n)}
<1>6. Off = {}
  <2> SUFFICES ASSUME Off # {}
               PROVE  FALSE
    OBVIOUS
  <2>1. PICK x \in Off : \A y \in Off : x <= y
    <3>1. Off \in SUBSET Nat
      OBVIOUS
    <3> HIDE DEF Off
    <3> QED BY <3>1, LeastExists
  <2>2. x \in 0 .. N /\ ~Fine(x)
    BY <2>1
  <2>3. x # 0
    BY <1>3, <1>5, <2>2
  <2>4. x - 1 \in 0 .. N /\ x \in 1 .. N /\ ~(x <= x - 1)
    BY <1>1, <2>2, <2>3
  <2>5. Fine(x - 1)
    BY <2>1, <2>4
  <2> DEFINE e == te[x]
             p == g[x - 1]
  <2>6. e.key \in Slots \cup {Wide} /\ TakenSound(w, a, p) /\ Taken(p, x - 1, held, slots, K)
    BY <1>1, <2>4, <2>5
  <2>7. g[x] = Entry(acc, te, p, e)
    BY <1>5, <2>4
  <2>8. Taken(Entry(acc, te, p, e), x, held, slots, K)
    <3>1. x \in 1 .. Len(slots)
      BY <1>1, <2>4
    <3> HIDE DEF p
    <3> QED BY <2>6, <3>1, TrueEntryTaken
  <2> HIDE DEF e, p
  <2>9. TakenSound(w, a, Entry(acc, te, p, e))
    BY ONLY w \in Worlds, a \in Accounts, acc = State[w][a], <2>6, EntrySound
  <2> QED BY <2>2, <2>7, <2>8, <2>9
<1>7. N \in 0 .. N
  BY <1>1
<1> QED BY <1>2, <1>6, <1>7

\* What the true reply on account a and slots makes of the accounts loaded.
FitsIn(w, d, a, slots, got) ==
  /\ got.err = "" /\ DOMAIN got.db = DOMAIN d \cup {a} /\ got.db[a].info = State[w][a]
  /\ DOMAIN got.db[a].slots
       = DOMAIN Held(d, a) \cup (IF State[w][a].root = EMPTY_TRIE_ROOT THEN {} ELSE {slots[i] : i \in 1 .. Len(slots)})
  /\ \A b \in DOMAIN d : b # a => got.db[b] = d[b]

NoSpace(got, K, A) ==
  got.err = "budget" /\ (Cardinality(K) > MAX_PROOF_STORAGE_KEYS \/ Cardinality(A) > MAX_CALL_ACCOUNTS)

LEMMA NothingTaken ==
  ASSUME NEW acc, NEW held, NEW es, Len(es) = 0
  PROVE  TakeIn(acc, es, held).err = "" /\ TakeIn(acc, es, held).slots = held
<1> DEFINE s0 == [err |-> "", slots |-> held]
           g == CHOOSE h : h = [n \in 0 .. Len(es) |-> IF n = 0 THEN s0 ELSE Entry(acc, es, h[n - 1], es[n])]
<1> DEFINE st == TakeIn(acc, es, held)
<1>1. st = g[Len(es)]
  BY DEF TakeIn
<1> SUFFICES st.err = "" /\ st.slots = held
  OBVIOUS
<1> HIDE DEF st
<1>2. Len(es) = 0
  OBVIOUS
<1>3. \E h : h = [n \in 0 .. Len(es) |-> IF n = 0 THEN s0 ELSE Entry(acc, es, h[n - 1], es[n])]
  <2>1. \E h : IsTaken(h, 0, acc, es, held)
    BY TakenExists
  <2> QED BY <1>2, <2>1 DEF IsTaken
<1>4. g = [n \in 0 .. Len(es) |-> IF n = 0 THEN s0 ELSE Entry(acc, es, g[n - 1], es[n])]
  BY <1>3
<1> HIDE DEF g, s0
<1>5. g[0] = s0
  BY <1>2, <1>4
<1>6. st = s0
  BY <1>1, <1>2, <1>5
<1> QED BY ONLY <1>6 DEF s0

\* The true reply is loaded, or there is no room for it.
LEMMA TruthLoaded ==
  ASSUME NEW w \in Worlds, NEW d, DbSound(w, d), NEW a \in Accounts, NEW acc, acc = State[w][a],
         NEW slots \in Seq(Slots), NEW t, t = Truth(w, a, slots), NEW got, got = load_proven_account(d, a, acc, t),
         NEW K, IsFiniteSet(K), DOMAIN Held(d, a) \subseteq K, \A i \in 1 .. Len(slots) : slots[i] \in K,
         NEW A, IsFiniteSet(A), DOMAIN d \subseteq A, a \in A
  PROVE  FitsIn(w, d, a, slots, got) \/ NoSpace(got, K, A)
<1> DEFINE es == IF acc.root = EMPTY_TRIE_ROOT THEN <<>> ELSE t.entries
           held == Held(d, a)
           st == TakeIn(acc, es, held)
           rec == [info |-> acc, slots |-> st.slots]
           new == Put(d, a, rec)
           asked == {slots[i] : i \in 1 .. Len(slots)}
           good == [err |-> "", db |-> new]
<1>1. SlotsSound(w, a, held)
  <2>1. CASE a \in DOMAIN d
    BY <2>1 DEF Held, DbSound
  <2>2. CASE a \notin DOMAIN d
    BY <2>2, NothingHeld DEF Held
  <2> QED BY <2>1, <2>2
<1>2. \/ /\ st.err = "" /\ DOMAIN st.slots = DOMAIN held \cup (IF acc.root = EMPTY_TRIE_ROOT THEN {} ELSE asked)
      \/ st.err = "budget" /\ Cardinality(K) > MAX_PROOF_STORAGE_KEYS
  <2>1. CASE acc.root = EMPTY_TRIE_ROOT
    <3>1. st = TakeIn(acc, es, held) /\ Len(es) = 0
      BY <2>1
    <3>2. st.err = "" /\ st.slots = held
      <4>1. PICK x : x = st
        OBVIOUS
      <4>2. PICK e : e = es
        OBVIOUS
      <4>3. PICK h : h = held
        OBVIOUS
      <4>4. x = TakeIn(acc, e, h) /\ Len(e) = 0
        BY ONLY <3>1, <4>1, <4>2, <4>3
      <4>5. x.err = "" /\ x.slots = h
        BY ONLY <4>4, NothingTaken
      <4> QED BY ONLY <4>1, <4>3, <4>5
    <3> QED BY <2>1, <3>2
  <2>2. CASE acc.root # EMPTY_TRIE_ROOT
    <3> DEFINE te == t.entries
    <3>1. st = TakeIn(acc, te, held) /\ te = Truth(w, a, slots).entries
      BY <2>2
    <3>2. DOMAIN held \subseteq K
      OBVIOUS
    <3> HIDE DEF te, held, st
    <3>3. Taken(st, Len(slots), held, slots, K)
      BY <1>1, <3>1, <3>2, TruthTaken
    <3> QED BY <2>2, <3>3 DEF Taken
  <2> QED BY <2>1, <2>2
<1>3. verify_account_code(acc, t.code)
  BY TruthIs DEF verify_account_code
<1>4. \/ Full(d, a) /\ got = Bad("budget")
      \/ ~Full(d, a) /\ got = IF st.err # "" THEN Bad(st.err) ELSE good
  <2> DEFINE full == Full(d, a)
             ok == verify_account_code(acc, t.code)
             bad1 == Bad("proof")
             bad2 == Bad("budget")
             rest == IF st.err # "" THEN Bad(st.err) ELSE good
  <2>1. got = CASE ~ok -> bad1 [] ok /\ full -> bad2 [] OTHER -> rest
    BY Zenon DEF load_proven_account
  <2>2. full \in BOOLEAN /\ ok
    BY <1>3 DEF Full
  <2>3. SUFFICES (full /\ got = bad2) \/ (~full /\ got = rest)
    BY Zenon
  <2> HIDE DEF full, ok, bad1, bad2, rest
  <2> QED BY ONLY <2>1, <2>2
<1>5. Bad("budget").err = "budget" /\ good.err = "" /\ good.db = new
  BY DEF Bad
<1> HIDE DEF good
<1>6. CASE Full(d, a) /\ got = Bad("budget")
  <2>1. a \notin DOMAIN d /\ Cardinality(DOMAIN d) >= MAX_CALL_ACCOUNTS
    BY <1>6 DEF Full
  <2>2. Cardinality(A) > MAX_CALL_ACCOUNTS
    <3> DEFINE S == DOMAIN d
    <3>1. S \in SUBSET A /\ a \notin S /\ Cardinality(S) >= MAX_CALL_ACCOUNTS
      BY <2>1
    <3> HIDE DEF S
    <3> QED BY ONLY <3>1, a \in A, IsFiniteSet(A), NoRoom, CallNats
  <2> QED BY ONLY <1>5, <1>6, <2>2 DEF NoSpace
<1>7. CASE ~Full(d, a) /\ got = IF st.err # "" THEN Bad(st.err) ELSE good
  <2>1. CASE st.err = "budget" /\ Cardinality(K) > MAX_PROOF_STORAGE_KEYS
    <3>1. got = Bad("budget")
      <4> HIDE DEF st
      <4> QED BY ONLY <1>7, <2>1
    <3> QED BY ONLY <1>5, <2>1, <3>1 DEF NoSpace
  <2>2. CASE st.err = "" /\ DOMAIN st.slots = DOMAIN held \cup (IF acc.root = EMPTY_TRIE_ROOT THEN {} ELSE asked)
    <3>1. got = good
      <4> HIDE DEF st
      <4> QED BY ONLY <1>7, <2>2
    <3> HIDE DEF st, held, asked
    <3>2. rec.info = acc /\ rec.slots = st.slots
      OBVIOUS
    <3> HIDE DEF rec
    <3>3. /\ DOMAIN new = DOMAIN d \cup {a} /\ new[a] = rec
          /\ \A b \in DOMAIN d : b # a => new[b] = d[b]
      BY ONLY TRUE DEF new, Put
    <3> HIDE DEF new
    <3>4. got.err = "" /\ got.db = new
      BY ONLY <1>5, <3>1
    <3> QED BY <2>2, <3>2, <3>3, <3>4 DEF FitsIn, held, asked
  <2> QED BY <1>2, <2>1, <2>2
<1> QED BY <1>4, <1>6, <1>7

\* No more slots than are asked for.
LEMMA AskedFew ==
  ASSUME NEW slots \in Seq(Slots)
  PROVE  /\ ToSet(slots) = {slots[i] : i \in 1 .. Len(slots)}
         /\ Cardinality(ToSet(slots)) \in Nat /\ Cardinality(ToSet(slots)) <= Len(slots)
<1> DEFINE n == Len(slots)
           S == {slots[i] : i \in 1 .. n}
           f == [i \in 1 .. n |-> slots[i]]
<1>1. n \in Nat /\ DOMAIN slots = 1 .. n
  OBVIOUS
<1>2. ToSet(slots) = S
  BY <1>1 DEF ToSet
<1>3. f \in Surjection(1 .. n, S)
  BY DEF Surjection
<1>4. IsFiniteSet(1 .. n) /\ Cardinality(1 .. n) = n
  BY <1>1, FS_Interval
<1> HIDE DEF S, f, n
<1>5. IsFiniteSet(S) /\ Cardinality(S) <= Cardinality(1 .. n)
  BY <1>3, <1>4, FS_Surjection
<1> QED BY <1>2, <1>4, <1>5, FS_CardinalityType DEF n, S

\* fetch_and_load of the true reply.
LEMMA TruthFetched ==
  ASSUME NEW w \in Worlds, NEW d, DbSound(w, d), NEW a \in Accounts,
         NEW slots \in Seq(Slots), Len(slots) <= MAX_PROOF_STORAGE_KEYS,
         NEW got, got = fetch_and_load(StateRoot[w], d, a, ToSet(slots), Truth(w, a, slots)),
         NEW K, IsFiniteSet(K), DOMAIN Held(d, a) \subseteq K, \A i \in 1 .. Len(slots) : slots[i] \in K,
         NEW A, IsFiniteSet(A), DOMAIN d \subseteq A, a \in A
  PROVE  FitsIn(w, d, a, slots, got) \/ NoSpace(got, K, A)
<1> DEFINE t == Truth(w, a, slots)
           root == StateRoot[w]
           acc == verify_eth_get_proof(root, a, t)
           n == Cardinality(ToSet(slots))
           x == State[w][a]
           load == load_proven_account(d, a, acc[1], t)
<1>1. acc = <<x>>
  BY TruthAccepted
<1>2. n \in Nat /\ n <= MAX_PROOF_STORAGE_KEYS
  <2>1. n \in Nat /\ n <= Len(slots) /\ Len(slots) \in Nat /\ MAX_PROOF_STORAGE_KEYS \in Nat
    BY AskedFew, CallNats
  <2> HIDE DEF n
  <2> QED BY <2>1
<1>3. got = CASE n > MAX_PROOF_STORAGE_KEYS -> Bad("budget")
              [] n <= MAX_PROOF_STORAGE_KEYS /\ acc = <<>> -> Bad("proof")
              [] OTHER -> load
  BY DEF fetch_and_load
<1>4. got = load /\ acc[1] = x
  <2> HIDE DEF acc, n, load, x
  <2>1. acc # <<>> /\ acc[1] = x
    BY ONLY <1>1
  <2>2. ~(n > MAX_PROOF_STORAGE_KEYS)
    BY <1>2, CallNats
  <2> QED BY ONLY <1>3, <2>1, <2>2
<1>5. got = load_proven_account(d, a, x, t)
  BY <1>4
<1> HIDE DEF x, t
<1>6. x = State[w][a] /\ t = Truth(w, a, slots)
  BY DEF x, t
<1> QED BY <1>5, <1>6, TruthLoaded

-----------------------------------------------------------------------------
(* The reads of a run, and the one it stops at. *)

\* What op reads is in the database d.
Loaded(d, op) ==
  /\ op.a \in DOMAIN d
  /\ op.op = "slot" => d[op.a].info.root = EMPTY_TRIE_ROOT \/ op.s \in DOMAIN d[op.a].slots

\* Why a read of op stops a run.
Why(d, r, op, st) ==
  /\ st = "missing" => op \in Missed /\ ~Loaded(d, op)
  /\ st = "unsupported" => op.op \in {"account", "native"} /\ precompile_kind(op.a, evm_spec_at(r.time)) = "Unsupported"
  /\ st = "nohash" => op.op = "hash" /\ ~Expired(op.n) /\ op.n \notin Known

\* A call of a precompile does not see what it holds.
LEMMA CalleeIs ==
  ASSUME NEW bal
  PROVE  Callee(Got(Native(bal))) = Got([code |-> "native"])
<1>1. Native(bal).code = "native"
  BY DEF Native, empty_account
<1>2. Got(Native(bal)).st = "" /\ Got(Native(bal)).val = Native(bal)
  BY DEF Got
<1> QED BY <1>1, <1>2 DEF Callee

\* A read of the chain's state comes back.
LEMMA ChainReads ==
  ASSUME NEW w, NEW f, NEW op \in Read
  PROVE  ReadWorld(w, f, op).st = ""
<1>g. \A v : Got(v).st = ""
  BY DEF Got
<1>1. CASE op \in [op : {"account"}, a : Named]
  <2>1. op.op = "account" /\ (op.a \in Precompiles \/ op.a \in Accounts) /\ ~(op.a \in Precompiles /\ op.a \in Accounts)
    <3>1. op.op = "account" /\ op.a \in Named
      BY <1>1
    <3> QED BY <3>1, CallConstants DEF Named
  <2>2. ReadWorld(w, f, op) = Got(Native(f[op.a])) \/ ReadWorld(w, f, op) = Got(State[w][op.a])
    BY <2>1 DEF ReadWorld
  <2> QED BY <1>g, <2>2
<1>2. CASE op \in [op : {"slot"}, a : Accounts, s : Slots]
  <2>1. op.op = "slot"
    BY <1>2
  <2>2. ReadWorld(w, f, op) = Got(w[op.a].store[op.s])
    BY <2>1 DEF ReadWorld
  <2> QED BY <1>g, <2>2
<1>3. CASE op \in [op : {"hash"}, n : Nat]
  <2>1. op.op = "hash"
    BY <1>3
  <2>2. ReadWorld(w, f, op) = Got(HashOf(IF Expired(op.n) THEN 0 ELSE op.n))
    BY <2>1 DEF ReadWorld
  <2> QED BY <1>g, <2>2
<1>4. CASE op \in [op : {"native"}, a : Precompiles]
  <2>1. op.op = "native"
    BY <1>4
  <2>2. ReadWorld(w, f, op) = Callee(Got(Native(f[op.a])))
    BY <2>1 DEF ReadWorld
  <2> QED BY <1>g, <2>2, CalleeIs
<1> QED BY <1>1, <1>2, <1>3, <1>4 DEF Read

LEMMA WhyStopped ==
  ASSUME NEW w \in Worlds, NEW d, DbSound(w, d), NEW r, NEW op \in Read,
         NEW got, got = ReadDb(d, evm_spec_at(r.time), op)
  PROVE  Why(d, r, op, got.st)
<1> DEFINE spec == evm_spec_at(r.time)
<1>g. \A v : Got(v).st = ""
  BY DEF Got
<1>m. /\ Miss("missing").st = "missing" /\ Miss("unsupported").st = "unsupported"
      /\ Miss("nohash").st = "nohash"
  BY DEF Miss
<1>0. got.st = "missing" => op \in Missed
  BY ReadsAgree
<1> HIDE DEF spec
<1>1. CASE op \in [op : {"account"}, a : Named]
  <2> DEFINE a == op.a
             kind == precompile_kind(a, spec)
  <2>1. op.op = "account" /\ got = basic(d, a, spec)
    <3>1. op.op = "account"
      BY <1>1
    <3> QED BY <3>1 DEF ReadDb, spec
  <2>2. kind \in {"Account", "Local", "Unsupported"}
    BY DEF precompile_kind
  <2>4. got = CASE kind = "Unsupported" -> Miss("unsupported")
                [] kind = "Local" -> Got(Native(0))
                [] kind = "Account" /\ a \in DOMAIN d -> Got(d[a].info)
                [] kind = "Account" /\ a \notin DOMAIN d -> Miss("missing")
    BY <2>1 DEF basic
  <2>5. /\ got.st = "missing" => a \notin DOMAIN d
        /\ got.st = "unsupported" => kind = "Unsupported"
        /\ got.st # "nohash"
    <3> HIDE DEF kind, a
    <3>1. CASE kind = "Unsupported"
      <4>1. got = Miss("unsupported")
        BY ONLY <2>4, <3>1
      <4> QED BY <1>m, <3>1, <4>1
    <3>2. CASE kind = "Local"
      <4>1. got = Got(Native(0))
        BY ONLY <2>4, <3>2
      <4> QED BY <1>g, <4>1
    <3>3. CASE kind = "Account" /\ a \in DOMAIN d
      <4>1. got = Got(d[a].info)
        BY ONLY <2>4, <3>3
      <4> QED BY <1>g, <4>1
    <3>4. CASE kind = "Account" /\ a \notin DOMAIN d
      <4>1. got = Miss("missing")
        BY ONLY <2>4, <3>4
      <4> QED BY <1>m, <3>4, <4>1
    <3> QED BY ONLY <2>2, <3>1, <3>2, <3>3, <3>4
  <2> QED BY <1>0, <2>1, <2>5 DEF Why, Loaded, spec
<1>2. CASE op \in [op : {"slot"}, a : Accounts, s : Slots]
  <2> DEFINE a == op.a
             s == op.s
  <2>1. op.op = "slot" /\ got = storage(d, a, s)
    <3>1. op.op = "slot"
      BY <1>2
    <3> QED BY <3>1 DEF ReadDb
  <2>2. /\ got.st = "missing" => a \notin DOMAIN d \/ (d[a].info.root # EMPTY_TRIE_ROOT /\ s \notin DOMAIN d[a].slots)
        /\ got.st \notin {"unsupported", "nohash"}
    <3> HIDE DEF a, s
    <3>1. CASE a \notin DOMAIN d
      <4>1. got = Miss("missing")
        BY <2>1, <3>1 DEF storage
      <4> QED BY <1>m, <3>1, <4>1
    <3>2. CASE a \in DOMAIN d /\ s \in DOMAIN d[a].slots
      <4>1. got = Got(d[a].slots[s])
        BY <2>1, <3>2 DEF storage, Held
      <4> QED BY <1>g, <4>1
    <3>3. CASE a \in DOMAIN d /\ s \notin DOMAIN d[a].slots
      <4>1. got = IF d[a].info.root = EMPTY_TRIE_ROOT THEN Got(0) ELSE Miss("missing")
        BY <2>1, <3>3 DEF storage, Held
      <4>2. CASE d[a].info.root = EMPTY_TRIE_ROOT
        <5>1. got = Got(0)
          BY <4>1, <4>2
        <5> QED BY <1>g, <5>1
      <4>3. CASE d[a].info.root # EMPTY_TRIE_ROOT
        <5>1. got = Miss("missing")
          BY <4>1, <4>3
        <5> QED BY <1>m, <3>3, <4>3, <5>1
      <4> QED BY <4>2, <4>3
    <3> QED BY <3>1, <3>2, <3>3
  <2> QED BY <1>0, <2>1, <2>2 DEF Why, Loaded
<1>3. CASE op \in [op : {"hash"}, n : Nat]
  <2> DEFINE n == op.n
             gone == Expired(n)
  <2>1. op.op = "hash"
    BY <1>3
  <2>2. got = CASE gone -> Got(HashOf(0)) [] ~gone /\ n \in Known -> Got(HashOf(n))
                [] ~gone /\ n \notin Known -> Miss("nohash")
    BY <2>1 DEF ReadDb, block_hash
  <2>4. gone \in BOOLEAN
    BY DEF Expired
  <2>5. got.st \notin {"missing", "unsupported"} /\ (got.st = "nohash" => ~gone /\ n \notin Known)
    <3> HIDE DEF gone, n
    <3>1. CASE gone
      <4>1. got = Got(HashOf(0))
        BY ONLY <2>2, <3>1
      <4> QED BY <1>g, <4>1
    <3>2. CASE ~gone /\ n \in Known
      <4>1. got = Got(HashOf(n))
        BY ONLY <2>2, <3>2
      <4> QED BY <1>g, <4>1
    <3>3. CASE ~gone /\ n \notin Known
      <4>1. got = Miss("nohash")
        BY ONLY <2>2, <3>3
      <4> QED BY <1>m, <3>3, <4>1
    <3> QED BY <2>4, <3>1, <3>2, <3>3
  <2> QED BY <2>1, <2>5 DEF Why
<1>4. CASE op \in [op : {"native"}, a : Precompiles]
  <2> DEFINE a == op.a
             kind == precompile_kind(a, spec)
             b == basic(d, a, spec)
  <2>1. op.op = "native" /\ a \in Precompiles
    BY <1>4
  <2>2. kind \in {"Local", "Unsupported"}
    BY <2>1 DEF precompile_kind
  <2>3. got = Callee(b)
    BY <2>1 DEF ReadDb, spec
  <2>4. /\ kind = "Unsupported" => b = Miss("unsupported")
        /\ kind = "Local" => b = Got(Native(0))
    BY DEF basic
  <2>5. CASE kind = "Unsupported"
    <3>1. got = Miss("unsupported")
      BY <1>m, <2>3, <2>4, <2>5 DEF Callee
    <3> QED BY <1>m, <2>1, <2>5, <3>1 DEF Why, spec
  <2>6. CASE kind = "Local"
    <3>1. got.st = ""
      BY <1>g, <2>3, <2>4, <2>6, CalleeIs
    <3> QED BY <3>1 DEF Why
  <2> QED BY <2>2, <2>5, <2>6
<1> QED BY <1>1, <1>2, <1>3, <1>4 DEF Read

\* What a run has read it goes on having read.
LEMMA AfterSeen ==
  ASSUME NEW m, DOMAIN m = VmFields, NEW op, NEW gas, NEW st, NEW cost, NEW val
  PROVE  /\ AfterStop(m, op).seen = m.seen /\ AfterRevert(m, op).seen = m.seen /\ AfterHalt(m).seen = m.seen
         /\ AfterGas(m, gas).seen = m.seen /\ AfterMiss(m, op, st).seen = m.seen
         /\ AfterRead(m, op, cost, val).seen = m.seen \cup {op}
<1>1. AfterStop(m, op).seen = m.seen /\ AfterRevert(m, op).seen = m.seen /\ AfterHalt(m).seen = m.seen
  BY DEF AfterStop, AfterRevert, AfterHalt, VmFields
<1>2. AfterGas(m, gas).seen = m.seen /\ AfterMiss(m, op, st).seen = m.seen
  BY DEF AfterGas, AfterMiss, VmFields
<1>3. AfterRead(m, op, cost, val).seen = m.seen \cup {op}
  BY DEF AfterRead, VmFields
<1> QED BY <1>1, <1>2, <1>3

LEMMA SeenGrows ==
  ASSUME NEW r \in CallRequest, NEW gas, NEW m, DOMAIN m = VmFields, NEW got, NEW x, x = StepVm(r, gas, m, got)
  PROVE  m.seen \subseteq x.seen
<1> DEFINE op == NextOp(r, m.hist)
<1>1. StepCase(gas, m, op, got, x)
  BY StepCases
<1>2. op.op \in {"account", "native", "slot", "hash", "gas", "stop", "revert", "invalid"}
  BY NextOpTyped
<1> HIDE DEF op
<1> DEFINE st == got.st
           val == got.val
           cost == Cost(m)
<1>3. \/ x = m \/ x = AfterStop(m, op) \/ x = AfterRevert(m, op) \/ x = AfterHalt(m) \/ x = AfterGas(m, gas)
      \/ x = AfterMiss(m, op, st) \/ x = AfterRead(m, op, cost, val)
  BY ONLY <1>1, <1>2 DEF StepCase, Reading
<1> HIDE DEF st, val, cost
<1>4. x.seen = m.seen \/ x.seen = m.seen \cup {op}
  <2>1. /\ AfterStop(m, op).seen = m.seen /\ AfterRevert(m, op).seen = m.seen /\ AfterHalt(m).seen = m.seen
        /\ AfterGas(m, gas).seen = m.seen /\ AfterMiss(m, op, st).seen = m.seen
        /\ AfterRead(m, op, cost, val).seen = m.seen \cup {op}
    BY ONLY DOMAIN m = VmFields, AfterSeen
  <2> QED BY ONLY <1>3, <2>1, Zenon
<1> QED BY <1>4

\* Where p has stopped: at a read that q makes on the chain.
Trail(d, r, p, q) == p.st \in Stopped => p.op \in q.seen /\ Why(d, r, p.op, p.st)

LEMMA StepTrail ==
  ASSUME NEW w \in Worlds, NEW d, DbSound(w, d), NEW r \in CallRequest, NEW gas \in Nat,
         NEW p, NEW q, VmOK(p, gas), VmOK(q, gas), Alike(p, q), Trail(d, r, p, q),
         NEW x, x = StepDb(d, r, gas, p), NEW y, y = StepWorld(w, NoFunds, r, gas, q)
  PROVE  Trail(d, r, x, y)
<1> DEFINE op == NextOp(r, p.hist)
           g1 == ReadDb(d, evm_spec_at(r.time), op)
           g2 == ReadWorld(w, NoFunds, op)
           oq == NextOp(r, q.hist)
           gq == ReadWorld(w, NoFunds, oq)
<1>1. x = StepVm(r, gas, p, g1) /\ y = StepVm(r, gas, q, gq)
  BY DEF StepDb, StepWorld
<1>2. op.op \in Reading => op \in Read
  BY NextOpTyped DEF Reading
<1>3. op.op \in Reading => Why(d, r, op, g1.st) /\ g2.st = ""
  <2> HIDE DEF op
  <2> QED BY <1>2, WhyStopped, ChainReads
<1>4. p = q => oq = op /\ gq = g2
  OBVIOUS
<1>5. op = NextOp(r, p.hist) /\ oq = NextOp(r, q.hist)
  OBVIOUS
<1> HIDE DEF op, oq, g1, g2, gq
<1>6. DOMAIN p = VmFields /\ DOMAIN q = VmFields
  BY DEF VmOK
<1>7. Outcome(x, p, op, g1)
  BY ONLY r \in CallRequest, gas \in Nat, VmOK(p, gas), <1>1, <1>5, StepOK
<1>8. StepCase(gas, p, op, g1, x) /\ StepCase(gas, q, oq, gq, y)
  BY <1>1, <1>5, StepCases
<1>9. q.seen \subseteq y.seen
  BY ONLY r \in CallRequest, <1>1, <1>6, SeenGrows
<1> SUFFICES ASSUME x.st \in Stopped
             PROVE  x.op \in y.seen /\ Why(d, r, x.op, x.st)
  BY DEF Trail
<1>10. CASE p.st # ""
  <2>1. x = p
    BY ONLY <1>8, <1>10 DEF StepCase
  <2> QED BY <1>9, <2>1 DEF Trail
<1>11. CASE p.st = ""
  <2>1. p = q
    BY <1>11 DEF Alike, Stopped
  <2>2. op.op \in Reading /\ x.st = g1.st /\ x.op = op
    <3>1. x # p
      BY <1>11 DEF Stopped
    <3> QED BY <1>7, <3>1 DEF Outcome, Stopped
  <2>3. g1.st # ""
    BY <2>2 DEF Stopped
  <2>4. ~Over(p, gas)
    <3> SUFFICES ASSUME Over(p, gas)
                 PROVE  FALSE
      OBVIOUS
    <3>1. x = AfterHalt(p)
      BY ONLY <1>8, <1>11, <2>2, Over(p, gas) DEF StepCase
    <3>2. x.st = "halt"
      BY ONLY <1>6, <3>1 DEF AfterHalt, VmFields
    <3> QED BY <3>2 DEF Stopped
  <2> DEFINE val == g2.val
             cost == Cost(p)
  <2>5. y = AfterRead(p, op, cost, val)
    <3>1. StepCase(gas, p, op, g2, y)
      BY <1>4, <1>8, <2>1
    <3>2. g2.st = ""
      BY <1>3, <2>2
    <3> QED BY ONLY <1>11, <2>2, <2>4, <3>1, <3>2 DEF StepCase
  <2> HIDE DEF val, cost
  <2>6. y.seen = p.seen \cup {op}
    BY ONLY <1>6, <2>5 DEF AfterRead, VmFields
  <2> QED BY <1>3, <2>2, <2>6
<1> QED BY <1>10, <1>11

\* A run that stops, stops at a read that the run on the chain makes.
LEMMA RunsTrail ==
  ASSUME NEW w \in Worlds, NEW d, DbSound(w, d), NEW r \in CallRequest, NEW gas \in Nat
  PROVE  Trail(d, r, transact_call(d, r, gas), OnChain(w, NoFunds, r, gas))
<1>1. PICK g : /\ transact_call(d, r, gas) = g[MaxOps] /\ g[0] = Start(r, gas)
               /\ \A n \in 1 .. MaxOps : g[n] = StepDb(d, r, gas, g[n - 1])
  BY RunSteps
<1>2. PICK h : /\ OnChain(w, NoFunds, r, gas) = h[MaxOps] /\ h[0] = Start(r, gas)
               /\ \A n \in 1 .. MaxOps : h[n] = StepWorld(w, NoFunds, r, gas, h[n - 1])
  BY ChainSteps
<1> DEFINE Good(n) == VmOK(g[n], gas) /\ VmOK(h[n], gas) /\ Alike(g[n], h[n]) /\ Trail(d, r, g[n], h[n])
           Off == {n \in 0 .. MaxOps : ~Good(n)}
<1>3. Good(0)
  <2> DEFINE m == Start(r, gas)
  <2>1. VmOK(m, gas) /\ m.st \in {"", "invalid"}
    BY StartOK
  <2> HIDE DEF m
  <2>2. Alike(m, m) /\ Trail(d, r, m, m)
    BY <2>1 DEF Alike, Trail, Stopped
  <2>3. g[0] = m /\ h[0] = m
    BY <1>1, <1>2 DEF m
  <2> QED BY <2>1, <2>2, <2>3
<1>4. Off = {}
  <2> SUFFICES ASSUME Off # {}
               PROVE  FALSE
    OBVIOUS
  <2>1. PICK x \in Off : \A y \in Off : x <= y
    <3>1. Off \in SUBSET Nat
      OBVIOUS
    <3> HIDE DEF Off
    <3> QED BY <3>1, LeastExists
  <2>2. x \in 0 .. MaxOps /\ ~Good(x)
    BY <2>1
  <2>3. x # 0
    BY <1>3, <2>2
  <2>4. x - 1 \in 0 .. MaxOps /\ x \in 1 .. MaxOps /\ ~(x <= x - 1)
    BY CallNats, <2>2, <2>3
  <2>5. Good(x - 1)
    BY <2>1, <2>4
  <2> DEFINE p == g[x - 1]
             q == h[x - 1]
             u == g[x]
             v == h[x]
  <2>6. VmOK(p, gas) /\ VmOK(q, gas) /\ Alike(p, q) /\ Trail(d, r, p, q)
    BY <2>5
  <2>7. u = StepDb(d, r, gas, p) /\ v = StepWorld(w, NoFunds, r, gas, q)
    BY <1>1, <1>2, <2>4
  <2>8. ~(VmOK(u, gas) /\ VmOK(v, gas) /\ Alike(u, v) /\ Trail(d, r, u, v))
    BY <2>2
  <2> HIDE DEF p, q, u, v
  <2>9. VmOK(u, gas) /\ VmOK(v, gas) /\ Alike(u, v)
    BY <2>6, <2>7, StepAlike
  <2>10. Trail(d, r, u, v)
    BY <2>6, <2>7, StepTrail
  <2> QED BY <2>8, <2>9, <2>10
<1>5. Good(MaxOps)
  <2>1. MaxOps \in 0 .. MaxOps
    BY CallNats
  <2> HIDE DEF Good
  <2> QED BY <1>4, <2>1
<1> QED BY <1>1, <1>2, <1>5

-----------------------------------------------------------------------------
(* What a call needs, and what its rounds have gathered. *)

\* All that the fetch f of the seeding brings is in d.
Brought(d, f) == f.a \in Accounts => \A op \in Missed : Covers(f, op) => Loaded(d, op)

\* What was missing at some read and is there by now.
Gathered(w, r, d) == {op \in Later(w, NoFunds, r) : Loaded(d, op)}

\* What is in d was needed.
OnlyNeeded(w, r, d) ==
  DOMAIN d \subseteq Needed(w, NoFunds, r) /\ \A a \in DOMAIN d : DOMAIN d[a].slots \subseteq NeededOf(w, NoFunds, r, a)

\* A run on the chain reads nothing but accounts, slots and hashes.
LEMMA SeenRead ==
  ASSUME NEW w \in Worlds, NEW r \in CallRequest, NEW gas \in Nat
  PROVE  OnChain(w, NoFunds, r, gas).seen \subseteq Read
<1>1. PICK h : /\ OnChain(w, NoFunds, r, gas) = h[MaxOps] /\ h[0] = Start(r, gas)
               /\ \A n \in 1 .. MaxOps : h[n] = StepWorld(w, NoFunds, r, gas, h[n - 1])
  BY ChainSteps
<1> DEFINE Good(n) == VmOK(h[n], gas) /\ h[n].seen \subseteq Read
           Off == {n \in 0 .. MaxOps : ~Good(n)}
<1>2. Good(0)
  <2> DEFINE m == Start(r, gas)
  <2>1. VmOK(m, gas) /\ m.seen = {}
    BY StartOK DEF Start
  <2> HIDE DEF m
  <2>2. h[0] = m
    BY <1>1 DEF m
  <2> QED BY <2>1, <2>2
<1>3. ASSUME NEW p, VmOK(p, gas), p.seen \subseteq Read, NEW x, x = StepWorld(w, NoFunds, r, gas, p)
      PROVE  VmOK(x, gas) /\ x.seen \subseteq Read
  <2> DEFINE op == NextOp(r, p.hist)
             got == ReadWorld(w, NoFunds, op)
             st == got.st
             val == got.val
             cost == Cost(p)
  <2>1. x = StepVm(r, gas, p, got)
    BY <1>3 DEF StepWorld
  <2>2. /\ op.op \in {"account", "native", "slot", "hash", "gas", "stop", "revert", "invalid"}
        /\ op.op \in Reading => op \in Read
    BY NextOpTyped DEF Reading
  <2>3. op = NextOp(r, p.hist)
    OBVIOUS
  <2> HIDE DEF op, got
  <2>4. VmOK(x, gas)
    BY ONLY r \in CallRequest, gas \in Nat, VmOK(p, gas), <2>1, <2>3, StepOK, <1>3
  <2>5. StepCase(gas, p, op, got, x)
    BY <2>1, <2>3, StepCases
  <2>6. \/ x = p \/ x = AfterStop(p, op) \/ x = AfterRevert(p, op) \/ x = AfterHalt(p) \/ x = AfterGas(p, gas)
        \/ x = AfterMiss(p, op, st) \/ (x = AfterRead(p, op, cost, val) /\ op.op \in Reading)
    BY ONLY <2>2, <2>5 DEF StepCase, Reading
  <2> HIDE DEF st, val, cost
  <2>7. /\ AfterStop(p, op).seen = p.seen /\ AfterRevert(p, op).seen = p.seen /\ AfterHalt(p).seen = p.seen
        /\ AfterGas(p, gas).seen = p.seen /\ AfterMiss(p, op, st).seen = p.seen
        /\ AfterRead(p, op, cost, val).seen = p.seen \cup {op}
    <3>1. DOMAIN p = VmFields
      BY <1>3 DEF VmOK
    <3> QED BY ONLY <3>1, AfterSeen
  <2>8. x.seen = p.seen \/ (x.seen = p.seen \cup {op} /\ op.op \in Reading)
    BY ONLY <2>6, <2>7, Zenon
  <2> QED BY <1>3, <2>2, <2>4, <2>8
<1>4. Off = {}
  <2> SUFFICES ASSUME Off # {}
               PROVE  FALSE
    OBVIOUS
  <2>1. PICK x \in Off : \A y \in Off : x <= y
    <3>1. Off \in SUBSET Nat
      OBVIOUS
    <3> HIDE DEF Off
    <3> QED BY <3>1, LeastExists
  <2>2. x \in 0 .. MaxOps /\ ~Good(x)
    BY <2>1
  <2>3. x # 0
    BY <1>2, <2>2
  <2>4. x - 1 \in 0 .. MaxOps /\ x \in 1 .. MaxOps /\ ~(x <= x - 1)
    BY CallNats, <2>2, <2>3
  <2>5. Good(x - 1)
    BY <2>1, <2>4
  <2>6. h[x] = StepWorld(w, NoFunds, r, gas, h[x - 1])
    BY <1>1, <2>4
  <2> QED BY <1>3, <2>2, <2>5, <2>6
<1>5. Good(MaxOps)
  <2>1. MaxOps \in 0 .. MaxOps
    BY CallNats
  <2> HIDE DEF Good
  <2> QED BY <1>4, <2>1
<1> QED BY <1>1, <1>5

\* There are finitely many reads that may be missing.
LEMMA MissedFinite == IsFiniteSet(Missed)
<1> DEFINE A == [op : {"account"}, a : Accounts]
           S == [op : {"slot"}, a : Accounts, s : Slots]
           P == Accounts \X Slots
           f == [a \in Accounts |-> [op |-> "account", a |-> a]]
           g == [p \in P |-> [op |-> "slot", a |-> p[1], s |-> p[2]]]
<1>1. f \in Surjection(Accounts, A)
  <2>1. f \in [Accounts -> A]
    OBVIOUS
  <2>2. \A o \in A : \E a \in Accounts : f[a] = o
    <3> SUFFICES ASSUME NEW o \in A
                 PROVE  \E a \in Accounts : f[a] = o
      OBVIOUS
    <3>1. o.a \in Accounts /\ o = [op |-> "account", a |-> o.a]
      OBVIOUS
    <3> QED BY <3>1
  <2> HIDE DEF f, A
  <2> QED BY <2>1, <2>2 DEF Surjection
<1>2. g \in Surjection(P, S)
  <2>1. g \in [P -> S]
    OBVIOUS
  <2>2. \A o \in S : \E p \in P : g[p] = o
    <3> SUFFICES ASSUME NEW o \in S
                 PROVE  \E p \in P : g[p] = o
      OBVIOUS
    <3>1. o.a \in Accounts /\ o.s \in Slots /\ o = [op |-> "slot", a |-> o.a, s |-> o.s]
      OBVIOUS
    <3>2. <<o.a, o.s>> \in P
      BY <3>1
    <3>3. g[<<o.a, o.s>>] = o
      BY <3>1, <3>2
    <3> QED BY <3>2, <3>3
  <2> HIDE DEF g, P, S
  <2> QED BY <2>1, <2>2 DEF Surjection
<1>3. IsFiniteSet(P)
  BY KeysApart, FS_Product
<1> HIDE DEF f, g, A, S, P
<1>4. IsFiniteSet(A) /\ IsFiniteSet(S)
  BY <1>1, <1>2, <1>3, KeysApart, FS_Surjection
<1>5. IsFiniteSet(A \cup S)
  BY <1>4, FS_Union
<1> QED BY <1>5 DEF Missed, A, S

\* What needs a proof is what a run may miss.
LEMMA ProvedMissed ==
  ASSUME NEW w \in Worlds, NEW r \in CallRequest
  PROVE  /\ Proved(w, NoFunds, r) \subseteq Missed
         /\ \A op \in Missed : op \in Reads(w, NoFunds, r) => op \in Proved(w, NoFunds, r)
<1>1. Proved(w, NoFunds, r) \subseteq Missed
  <2> SUFFICES ASSUME NEW op \in Proved(w, NoFunds, r)
               PROVE  op \in Missed
    OBVIOUS
  <2>1. op \in Reads(w, NoFunds, r) /\ op.op # "hash" /\ op.a \in Accounts
    BY DEF Proved
  <2>2. PICK g \in 0 .. call_gas(r) : op \in OnChain(w, NoFunds, r, g).seen
    BY <2>1 DEF Reads
  <2>3. g \in Nat
    BY GasOfCall
  <2>4. op \in Read
    BY <2>2, <2>3, SeenRead
  <2>5. CASE op \in [op : {"account"}, a : Named]
    <3>1. op \in [op : {"account"}, a : Accounts]
      BY <2>1, <2>5
    <3> QED BY <3>1 DEF Missed
  <2>6. CASE op \in [op : {"slot"}, a : Accounts, s : Slots]
    BY <2>6 DEF Missed
  <2>7. CASE op \in [op : {"hash"}, n : Nat]
    BY <2>1, <2>7
  <2>8. CASE op \in [op : {"native"}, a : Precompiles]
    BY <2>1, <2>8, CallConstants
  <2> QED BY <2>4, <2>5, <2>6, <2>7, <2>8 DEF Read
<1>2. \A op \in Missed : op.op # "hash" /\ op.a \in Accounts
  BY DEF Missed
<1> QED BY <1>1, <1>2 DEF Proved

LEMMA NeedsFinite ==
  ASSUME NEW w \in Worlds, NEW r \in CallRequest
  PROVE  /\ Later(w, NoFunds, r) \subseteq Missed /\ IsFiniteSet(Later(w, NoFunds, r)) /\ IsFiniteSet(Needed(w, NoFunds, r))
         /\ \A a : IsFiniteSet(NeededOf(w, NoFunds, r, a))
<1>1. Later(w, NoFunds, r) \subseteq Missed
  BY ProvedMissed DEF Later
<1>2. IsFiniteSet(Later(w, NoFunds, r))
  BY <1>1, MissedFinite, FS_Subset
<1>3. Needed(w, NoFunds, r) \subseteq Accounts /\ \A a : NeededOf(w, NoFunds, r, a) \subseteq Slots
  BY DEF Needed, NeededOf
<1> QED BY <1>1, <1>2, <1>3, KeysApart, FS_Subset

\* What was in the database is still there, and what was asked for is.
LEMMA FitsKeeps ==
  ASSUME NEW w \in Worlds, NEW d, DbSound(w, d), NEW a \in Accounts, NEW slots \in Seq(Slots),
         NEW got, FitsIn(w, d, a, slots, got), NEW new, new = got.db
  PROVE  /\ \A op \in Missed : Loaded(d, op) => Loaded(new, op)
         /\ \A op \in Missed : op.a = a /\ (op.op = "slot" => op.s \in ToSet(slots)) => Loaded(new, op)
<1> DEFINE asked == {slots[i] : i \in 1 .. Len(slots)}
           root == State[w][a].root
<1>1. /\ DOMAIN new = DOMAIN d \cup {a} /\ new[a].info = State[w][a]
      /\ DOMAIN new[a].slots = DOMAIN Held(d, a) \cup (IF root = EMPTY_TRIE_ROOT THEN {} ELSE asked)
      /\ \A b \in DOMAIN d : b # a => new[b] = d[b]
  BY DEF FitsIn
<1>2. ToSet(slots) = asked
  BY AskedFew
<1>3. \A b \in DOMAIN d : d[b].info = State[w][b]
  BY DEF DbSound
<1>4. a \in DOMAIN d => Held(d, a) = d[a].slots
  BY DEF Held
<1> HIDE DEF asked, root
<1>5. ASSUME NEW op \in Missed, Loaded(d, op)
      PROVE  Loaded(new, op)
  <2>1. CASE op.a # a
    BY <1>1, <1>5, <2>1 DEF Loaded
  <2>2. CASE op.a = a
    <3>1. a \in DOMAIN d /\ (op.op = "slot" => d[a].info.root = EMPTY_TRIE_ROOT \/ op.s \in DOMAIN d[a].slots)
      BY <1>5, <2>2 DEF Loaded
    <3>2. new[a].info = d[a].info /\ DOMAIN d[a].slots \subseteq DOMAIN new[a].slots
      BY <1>1, <1>3, <1>4, <3>1
    <3>3. a \in DOMAIN new
      BY <1>1
    <3>4. op.op = "slot" => new[a].info.root = EMPTY_TRIE_ROOT \/ op.s \in DOMAIN new[a].slots
      BY <3>1, <3>2
    <3> QED BY <2>2, <3>3, <3>4 DEF Loaded
  <2> QED BY <2>1, <2>2
<1>6. ASSUME NEW op \in Missed, op.a = a, op.op = "slot" => op.s \in ToSet(slots)
      PROVE  Loaded(new, op)
  <2>1. a \in DOMAIN new
    BY <1>1
  <2>2. CASE root = EMPTY_TRIE_ROOT
    <3>1. new[a].info.root = EMPTY_TRIE_ROOT
      BY <1>1, <2>2 DEF root
    <3> QED BY <1>6, <2>1, <3>1 DEF Loaded
  <2>3. CASE root # EMPTY_TRIE_ROOT
    <3>1. asked \subseteq DOMAIN new[a].slots
      BY <1>1, <2>3
    <3>2. op.op = "slot" => op.s \in DOMAIN new[a].slots
      BY <1>2, <1>6, <3>1
    <3> QED BY <1>6, <2>1, <3>2 DEF Loaded
  <2> QED BY <2>2, <2>3
<1> QED BY <1>5, <1>6

LEMMA FitsNeeded ==
  ASSUME NEW w \in Worlds, NEW r, NEW d, NEW a \in Accounts, NEW slots \in Seq(Slots),
         NEW got, FitsIn(w, d, a, slots, got), OnlyNeeded(w, r, d), a \in Needed(w, NoFunds, r),
         \A i \in 1 .. Len(slots) : slots[i] \in NeededOf(w, NoFunds, r, a)
  PROVE  OnlyNeeded(w, r, got.db)
<1> DEFINE new == got.db
           asked == {slots[i] : i \in 1 .. Len(slots)}
           root == State[w][a].root
           K == NeededOf(w, NoFunds, r, a)
<1>1. /\ DOMAIN new = DOMAIN d \cup {a}
      /\ DOMAIN new[a].slots = DOMAIN Held(d, a) \cup (IF root = EMPTY_TRIE_ROOT THEN {} ELSE asked)
      /\ \A b \in DOMAIN d : b # a => new[b] = d[b]
  BY DEF FitsIn
<1>2. asked \subseteq K
  OBVIOUS
<1>3. DOMAIN Held(d, a) \subseteq K
  <2>1. CASE a \in DOMAIN d
    BY <2>1 DEF Held, OnlyNeeded
  <2>2. CASE a \notin DOMAIN d
    <3>1. Held(d, a) = <<>>
      BY <2>2 DEF Held
    <3>2. DOMAIN <<>> = {}
      OBVIOUS
    <3> QED BY <3>1, <3>2
  <2> QED BY <2>1, <2>2
<1> HIDE DEF asked, root, new, K
<1>4. DOMAIN new[a].slots \subseteq K
  BY <1>1, <1>2, <1>3
<1>5. \A b \in DOMAIN new : DOMAIN new[b].slots \subseteq NeededOf(w, NoFunds, r, b)
  BY <1>1, <1>4 DEF OnlyNeeded, K
<1>6. DOMAIN new \subseteq Needed(w, NoFunds, r)
  BY <1>1 DEF OnlyNeeded
<1> QED BY <1>5, <1>6 DEF OnlyNeeded, new

\* What an honest provider's reply on a needed account and needed slots leads to.
LEMMA Supplied ==
  ASSUME NEW w \in Worlds, NEW r \in CallRequest, NEW d, DbSound(w, d), OnlyNeeded(w, r, d), NEW a \in Accounts,
         NEW slots \in Seq(Slots), Len(slots) <= MAX_PROOF_STORAGE_KEYS, a \in Needed(w, NoFunds, r),
         \A i \in 1 .. Len(slots) : slots[i] \in NeededOf(w, NoFunds, r, a),
         NEW got, got = fetch_and_load(StateRoot[w], d, a, ToSet(slots), Truth(w, a, slots))
  PROVE  \/ FitsIn(w, d, a, slots, got) /\ OnlyNeeded(w, r, got.db)
         \/ got.err = "budget" /\ ~WithinLimits(w, NoFunds, r)
<1> DEFINE K == NeededOf(w, NoFunds, r, a)
           A == Needed(w, NoFunds, r)
<1>1. IsFiniteSet(K) /\ IsFiniteSet(A)
  BY NeedsFinite
<1>2. DOMAIN d \subseteq A
  BY DEF OnlyNeeded
<1>3. DOMAIN Held(d, a) \subseteq K
  <2>1. CASE a \in DOMAIN d
    BY <2>1 DEF Held, OnlyNeeded
  <2>2. CASE a \notin DOMAIN d
    <3>1. Held(d, a) = <<>>
      BY <2>2 DEF Held
    <3>2. DOMAIN <<>> = {}
      OBVIOUS
    <3> QED BY <3>1, <3>2
  <2> QED BY <2>1, <2>2
<1>4. a \in A /\ \A i \in 1 .. Len(slots) : slots[i] \in K
  OBVIOUS
<1> HIDE DEF K, A
<1>5. FitsIn(w, d, a, slots, got) \/ NoSpace(got, K, A)
  BY <1>1, <1>2, <1>3, <1>4, TruthFetched
<1>6. CASE FitsIn(w, d, a, slots, got)
  <2>1. OnlyNeeded(w, r, got.db)
    BY ONLY w \in Worlds, a \in Accounts, slots \in Seq(Slots), <1>6, OnlyNeeded(w, r, d), <1>4, FitsNeeded
       DEF K, A
  <2> QED BY <1>6, <2>1
<1>7. CASE NoSpace(got, K, A)
  <2>1. Cardinality(K) \in Nat /\ Cardinality(A) \in Nat
    BY <1>1, FS_CardinalityType
  <2>2. ~(Cardinality(K) <= MAX_PROOF_STORAGE_KEYS) \/ ~(Cardinality(A) <= MAX_CALL_ACCOUNTS)
    <3>1. Cardinality(K) > MAX_PROOF_STORAGE_KEYS \/ Cardinality(A) > MAX_CALL_ACCOUNTS
      BY <1>7 DEF NoSpace
    <3> QED BY <2>1, <3>1, CallNats
  <2>3. ~WithinLimits(w, NoFunds, r)
    BY <1>4, <2>2 DEF WithinLimits, K, A
  <2> QED BY <1>7, <2>3 DEF NoSpace
<1> QED BY <1>5, <1>6, <1>7

\* One more read gathered.
LEMMA OneMore ==
  ASSUME NEW w \in Worlds, NEW r \in CallRequest, NEW d, NEW op \in Later(w, NoFunds, r), ~Loaded(d, op)
  PROVE  /\ Cardinality(Gathered(w, r, d)) \in Nat /\ Cardinality(Later(w, NoFunds, r)) \in Nat
         /\ Cardinality(Gathered(w, r, d)) + 1 <= Cardinality(Later(w, NoFunds, r))
         /\ \A new : /\ \A o \in Missed : Loaded(d, o) => Loaded(new, o)
                     /\ Loaded(new, op)
                     => /\ Cardinality(Gathered(w, r, new)) \in Nat
                        /\ Cardinality(Gathered(w, r, d)) + 1 <= Cardinality(Gathered(w, r, new))
<1> DEFINE G == Gathered(w, r, d)
           L == Later(w, NoFunds, r)
<1>1. L \subseteq Missed /\ IsFiniteSet(L)
  BY NeedsFinite
<1>2. G \subseteq L /\ op \notin G
  BY DEF Gathered
<1>3. IsFiniteSet(G) /\ Cardinality(G) \in Nat /\ Cardinality(L) \in Nat
  BY <1>1, <1>2, FS_Subset, FS_CardinalityType
<1>4. Cardinality(G \cup {op}) = Cardinality(G) + 1
  BY <1>2, <1>3, FS_AddElement
<1>5. G \cup {op} \subseteq L
  BY <1>2
<1>6. Cardinality(G) + 1 <= Cardinality(L)
  <2> HIDE DEF G, L
  <2>1. Cardinality(G \cup {op}) <= Cardinality(L)
    BY <1>1, <1>5, FS_Subset
  <2> QED BY <1>4, <2>1
<1>7. ASSUME NEW new, \A o \in Missed : Loaded(d, o) => Loaded(new, o), Loaded(new, op)
      PROVE  /\ Cardinality(Gathered(w, r, new)) \in Nat
             /\ Cardinality(G) + 1 <= Cardinality(Gathered(w, r, new))
  <2> DEFINE H == Gathered(w, r, new)
  <2>1. H \subseteq L
    BY DEF Gathered
  <2>2. G \cup {op} \subseteq H
    BY <1>1, <1>7 DEF Gathered
  <2> HIDE DEF G, L, H
  <2>3. IsFiniteSet(H) /\ Cardinality(H) \in Nat
    BY <1>1, <2>1, FS_Subset, FS_CardinalityType
  <2>4. Cardinality(G \cup {op}) <= Cardinality(H)
    BY <2>2, <2>3, FS_Subset
  <2> QED BY <1>4, <2>3, <2>4 DEF H
<1> QED BY <1>3, <1>6, <1>7

-----------------------------------------------------------------------------
(* The invariant of a call an honest provider serves. *)

\* What holds of a call whose provider has told the truth: nothing is loaded that is not needed,
\* what the seeding has done with is there, and every round so far has gathered a read.
HonestInv ==
  honest =>
    /\ OnlyNeeded(world, req, db)
    /\ pc = "seed" =>
         /\ access_list_within_caps(req.list)
         /\ ToSet(queue) \subseteq ToSet(Seeds(req))
         /\ \A f \in ToSet(Seeds(req)) : f \in ToSet(queue) \/ Brought(db, f)
    /\ pc \in {"run", "fetch"} => \A f \in ToSet(Seeds(req)) : Brought(db, f)
    /\ pc \in {"open", "seed"} => rounds = 0
    /\ pc = "run" => rounds <= Cardinality(Gathered(world, req, db))
    /\ pc = "fetch" => /\ want \in Later(world, NoFunds, req) /\ ~Loaded(db, want)
                       /\ rounds <= Cardinality(Gathered(world, req, db)) + 1
    /\ pc = "done" => Served(world, NoFunds, req, ans.st)

\* The members of a queue.
LEMMA QueueSplit ==
  ASSUME NEW q \in Seq(Fetched), q # <<>>
  PROVE  /\ Head(q) \in ToSet(q) /\ ToSet(Tail(q)) \subseteq ToSet(q)
         /\ \A f \in ToSet(q) : f = Head(q) \/ f \in ToSet(Tail(q))
<1> DEFINE n == Len(q)
           t == Tail(q)
<1>1. n \in Nat /\ n # 0 /\ DOMAIN q = 1 .. n /\ Head(q) = q[1]
  OBVIOUS
<1>2. Len(t) = n - 1 /\ DOMAIN t = 1 .. n - 1 /\ \A i \in 1 .. n - 1 : t[i] = q[i + 1]
  BY <1>1
<1>3. ToSet(q) = {q[i] : i \in 1 .. n} /\ ToSet(t) = {t[i] : i \in 1 .. n - 1}
  BY <1>1, <1>2 DEF ToSet
<1> SUFFICES /\ q[1] \in ToSet(q) /\ ToSet(t) \subseteq ToSet(q)
             /\ \A f \in ToSet(q) : f = q[1] \/ f \in ToSet(t)
  BY <1>1
<1> HIDE DEF n, t
<1>4. 1 \in 1 .. n /\ \A i \in 1 .. n - 1 : i + 1 \in 1 .. n
  BY <1>1
<1>5. ToSet(t) \subseteq ToSet(q) /\ q[1] \in ToSet(q)
  BY <1>2, <1>3, <1>4
<1>6. \A i \in 1 .. n : i = 1 \/ (i - 1 \in 1 .. n - 1 /\ (i - 1) + 1 = i)
  BY <1>1
<1>7. \A i \in 1 .. n : q[i] = q[1] \/ q[i] \in ToSet(t)
  BY <1>2, <1>3, <1>6
<1> QED BY <1>3, <1>5, <1>7

\* A fetch of the seeding asks for no more than the cap.
LEMMA SeedsFew ==
  ASSUME NEW r \in CallRequest, access_list_within_caps(r.list), NEW f \in ToSet(Seeds(r))
  PROVE  f \in Fetched /\ Len(f.slots) <= MAX_PROOF_STORAGE_KEYS
<1> DEFINE F == {e \in Fetched : Len(e.slots) <= MAX_PROOF_STORAGE_KEYS}
           unless(a, seen) == IF a \in seen THEN <<>> ELSE <<Fetch(a, <<>>)>>
           s1 == unless(r.to, {})
           s2 == unless(r.from, {r.to})
           s3 == unless(r.coinbase, {r.to, r.from})
           s4 == r.list
<1>1. r.to \in Named /\ r.from \in Named /\ r.coinbase \in Named /\ s4 \in Seq(Fetched)
  BY DEF CallRequest
<1>2. \A a \in Named : Fetch(a, <<>>) \in F
  <2> SUFFICES ASSUME NEW a \in Named
               PROVE  Fetch(a, <<>>) \in F
    OBVIOUS
  <2>1. Fetch(a, <<>>) \in Fetched /\ Fetch(a, <<>>).slots = <<>>
    BY DEF Fetch, Fetched
  <2>2. Len(<<>>) <= MAX_PROOF_STORAGE_KEYS
    BY CallNats
  <2> QED BY <2>1, <2>2
<1>3. s4 \in Seq(F)
  <2>1. \A i \in DOMAIN s4 : Len(s4[i].slots) <= MAX_PROOF_STORAGE_KEYS
    BY DEF access_list_within_caps
  <2>2. Len(s4) \in Nat /\ DOMAIN s4 = 1 .. Len(s4) /\ \A i \in 1 .. Len(s4) : s4[i] \in Fetched
    BY <1>1
  <2>3. \A i \in 1 .. Len(s4) : s4[i] \in F
    BY <2>1, <2>2
  <2>4. s4 = [i \in 1 .. Len(s4) |-> s4[i]]
    BY <1>1
  <2> DEFINE n == Len(s4)
  <2> HIDE DEF F, s4
  <2>5. s4 \in [1 .. n -> F]
    BY <2>3, <2>4
  <2> QED BY <2>2, <2>5
<1> HIDE DEF F
<1>4. \A a \in Named : <<Fetch(a, <<>>)>> \in Seq(F)
  BY <1>2
<1>5. <<>> \in Seq(F)
  OBVIOUS
<1>6. \A seen : \A a \in Named : unless(a, seen) \in Seq(F)
  BY <1>4, <1>5
<1>7. s1 \in Seq(F) /\ s2 \in Seq(F) /\ s3 \in Seq(F)
  <2> HIDE DEF unless
  <2> QED BY <1>1, <1>6
<1>8. Seeds(r) = ((s1 \o s2) \o s3) \o s4
  BY DEF Seeds
<1> HIDE DEF s1, s2, s3, s4
<1>9. Seeds(r) \in Seq(F)
  BY <1>3, <1>7, <1>8, ConcatProperties
<1>10. f \in F
  BY <1>9 DEF ToSet
<1> QED BY <1>10 DEF F

\* What a fetch of the seeding asks for is needed.
LEMMA SeedsNeeded ==
  ASSUME NEW w, NEW r, NEW f \in ToSet(Seeds(r)), NEW a \in Accounts, a = f.a,
         NEW slots \in Seq(Slots), slots = f.slots
  PROVE  a \in Needed(w, NoFunds, r) /\ \A i \in 1 .. Len(slots) : slots[i] \in NeededOf(w, NoFunds, r, a)
<1>1. a \in Needed(w, NoFunds, r)
  BY DEF Needed
<1>2. ASSUME NEW i \in 1 .. Len(slots)
      PROVE  slots[i] \in NeededOf(w, NoFunds, r, a)
  <2>1. slots[i] \in Slots /\ i \in DOMAIN slots
    OBVIOUS
  <2>2. slots[i] \in ToSet(slots)
    BY <2>1 DEF ToSet
  <2> QED BY <2>1, <2>2 DEF NeededOf
<1> QED BY <1>1, <1>2

LEMMA InitHonest == Init => HonestInv
<1> SUFFICES ASSUME Init
             PROVE  HonestInv
  OBVIOUS
<1>1. pc = "open" /\ db = <<>> /\ rounds = 0
  BY DEF Init
<1>2. OnlyNeeded(world, req, db)
  <2>1. DOMAIN db = {}
    BY <1>1
  <2> QED BY <2>1 DEF OnlyNeeded
<1> QED BY <1>1, <1>2 DEF HonestInv

LEMMA EndsServed ==
  ASSUME NEW w, NEW r, NEW st, st \notin {"proof", "omitted", "upstream", "unsupported", "nohash", "budget"}
  PROVE  Served(w, NoFunds, r, st)
BY DEF Served

LEMMA OpenHonest == CallInv /\ HonestInv /\ Open => HonestInv'
<1> SUFFICES ASSUME CallInv, HonestInv, Open, honest
             PROVE  HonestInv'
  BY DEF Open, HonestInv
<1>1. UNCHANGED <<world, req, db, want, rounds, search, honest>> /\ pc = "open"
  BY DEF Open
<1>2. OnlyNeeded(world, req, db) /\ rounds = 0
  BY <1>1 DEF HonestInv
<1>3. \/ pc' = "done" /\ ans' = Ans("invalid", 0)
      \/ pc' = "seed" /\ queue' = Seeds(req) /\ access_list_within_caps(req.list)
  BY DEF Open, Fail
<1>4. CASE pc' = "done" /\ ans' = Ans("invalid", 0)
  <2>1. ans'.st = "invalid"
    BY <1>4, AnsFields
  <2>2. Served(world, NoFunds, req, ans'.st)
    BY <2>1, EndsServed
  <2> QED BY <1>1, <1>2, <1>4, <2>2 DEF HonestInv
<1>5. CASE pc' = "seed" /\ queue' = Seeds(req) /\ access_list_within_caps(req.list)
  BY <1>1, <1>2, <1>5 DEF HonestInv
<1> QED BY <1>3, <1>4, <1>5

LEMMA NoReplyHonest == NoReply => HonestInv'
BY DEF NoReply, HonestInv

LEMMA SkipHonest == CallInv /\ HonestInv /\ Skip => HonestInv'
<1> SUFFICES ASSUME CallInv, HonestInv, Skip, honest
             PROVE  HonestInv'
  BY DEF Skip, HonestInv
<1> DEFINE f == Head(queue)
<1>1. /\ UNCHANGED <<world, req, pc, db, want, rounds, search, ans, honest>>
      /\ pc = "seed" /\ queue # <<>> /\ queue' = Tail(queue) /\ ~Plain(f.a)
  BY DEF Skip
<1>2. queue \in Seq(Fetched)
  BY DEF CallInv
<1>3. /\ ToSet(queue') \subseteq ToSet(queue)
      /\ \A e \in ToSet(queue) : e = f \/ e \in ToSet(queue')
  BY <1>1, <1>2, QueueSplit
<1> HIDE DEF f
<1>4. Brought(db, f)
  <2>1. f.a \in Precompiles
    BY <1>1 DEF Plain, precompile_kind
  <2>2. f.a \notin Accounts
    BY <2>1, CallConstants
  <2> QED BY <2>2 DEF Brought
<1>5. /\ OnlyNeeded(world, req, db) /\ rounds = 0 /\ access_list_within_caps(req.list)
      /\ ToSet(queue) \subseteq ToSet(Seeds(req))
      /\ \A e \in ToSet(Seeds(req)) : e \in ToSet(queue) \/ Brought(db, e)
  BY <1>1 DEF HonestInv
<1>6. \A e \in ToSet(Seeds(req)) : e \in ToSet(queue') \/ Brought(db, e)
  BY <1>3, <1>4, <1>5
<1>7. ToSet(queue') \subseteq ToSet(Seeds(req))
  BY <1>3, <1>5
<1> QED BY <1>1, <1>5, <1>6, <1>7 DEF HonestInv

LEMMA StartRunHonest == CallInv /\ HonestInv /\ StartRun => HonestInv'
<1> SUFFICES ASSUME CallInv, HonestInv, StartRun, honest
             PROVE  HonestInv'
  BY DEF StartRun, HonestInv
<1>1. UNCHANGED <<world, req, queue, db, want, rounds, honest>> /\ pc = "seed" /\ queue = <<>>
  BY DEF StartRun
<1>2. \/ pc' = "done" /\ ans' = Ans("halt", 0)
      \/ pc' = "run"
  BY DEF StartRun, Fail
<1>3. /\ OnlyNeeded(world, req, db) /\ rounds = 0
      /\ \A e \in ToSet(Seeds(req)) : e \in ToSet(queue) \/ Brought(db, e)
  BY <1>1 DEF HonestInv
<1>4. ToSet(queue) = {}
  BY <1>1 DEF ToSet
<1>5. \A e \in ToSet(Seeds(req)) : Brought(db, e)
  BY <1>3, <1>4
<1>6. rounds <= Cardinality(Gathered(world, req, db))
  <2>1. world \in Worlds /\ req \in CallRequest
    BY DEF CallInv
  <2>2. Gathered(world, req, db) \subseteq Later(world, NoFunds, req) /\ IsFiniteSet(Later(world, NoFunds, req))
    BY <2>1, NeedsFinite DEF Gathered
  <2>3. Cardinality(Gathered(world, req, db)) \in Nat
    BY <2>2, FS_Subset, FS_CardinalityType
  <2> QED BY <1>3, <2>3
<1>7. CASE pc' = "done" /\ ans' = Ans("halt", 0)
  <2>1. ans'.st = "halt"
    BY <1>7, AnsFields
  <2>2. Served(world, NoFunds, req, ans'.st)
    BY <2>1, EndsServed
  <2> QED BY <1>1, <1>3, <1>7, <2>2 DEF HonestInv
<1>8. CASE pc' = "run"
  BY <1>1, <1>3, <1>5, <1>6, <1>8 DEF HonestInv
<1> QED BY <1>2, <1>7, <1>8

\* What is brought stays.
LEMMA StaysBrought ==
  ASSUME NEW d, NEW new, \A op \in Missed : Loaded(d, op) => Loaded(new, op), NEW f, Brought(d, f)
  PROVE  Brought(new, f)
BY DEF Brought

LEMMA SeedHonest == CallInv /\ HonestInv /\ Seed => HonestInv'
<1> SUFFICES ASSUME CallInv, HonestInv, Seed, honest'
             PROVE  HonestInv'
  BY DEF HonestInv
<1> DEFINE f == Head(queue)
<1>1. /\ UNCHANGED <<world, req, want, rounds, search>> /\ queue' = Tail(queue)
      /\ pc = "seed" /\ queue # <<>> /\ Plain(f.a)
  BY DEF Seed
<1>2. PICK r \in Replies(f.a, f.slots) :
        \E got \in {fetch_and_load(StateRoot[world], db, f.a, ToSet(f.slots), r)} :
          /\ honest' = (honest /\ r = Truth(world, f.a, f.slots))
          /\ \/ got.err # "" /\ Fail(got.err) /\ UNCHANGED db
             \/ got.err = "" /\ db' = got.db /\ UNCHANGED <<pc, ans>>
  BY DEF Seed
<1> DEFINE a == f.a
           slots == f.slots
           got == fetch_and_load(StateRoot[world], db, a, ToSet(slots), Truth(world, a, slots))
<1>3. /\ honest
      /\ \/ got.err # "" /\ Fail(got.err) /\ UNCHANGED db
         \/ got.err = "" /\ db' = got.db /\ UNCHANGED <<pc, ans>>
  <2>1. honest /\ r = Truth(world, f.a, f.slots)
    BY <1>2
  <2> QED BY <1>2, <2>1
<1>4. world \in Worlds /\ req \in CallRequest /\ queue \in Seq(Fetched) /\ DbSound(world, db)
  BY DEF CallInv
<1>5. /\ f \in ToSet(queue) /\ ToSet(queue') \subseteq ToSet(queue)
      /\ \A e \in ToSet(queue) : e = f \/ e \in ToSet(queue')
  BY <1>1, <1>4, QueueSplit
<1>6. /\ OnlyNeeded(world, req, db) /\ rounds = 0 /\ access_list_within_caps(req.list)
      /\ ToSet(queue) \subseteq ToSet(Seeds(req))
      /\ \A e \in ToSet(Seeds(req)) : e \in ToSet(queue) \/ Brought(db, e)
  BY <1>1, <1>3 DEF HonestInv
<1> HIDE DEF f
<1>7. f \in Fetched /\ Len(f.slots) <= MAX_PROOF_STORAGE_KEYS /\ f \in ToSet(Seeds(req))
  BY <1>4, <1>5, <1>6, SeedsFew
<1>8. a \in Accounts /\ slots \in Seq(Slots)
  <2>1. f.a \in Named /\ f.slots \in Seq(Slots)
    BY <1>7 DEF Fetched
  <2>2. f.a \notin Precompiles
    BY <1>1 DEF Plain, precompile_kind
  <2> QED BY <2>1, <2>2 DEF Named
<1>9. a \in Needed(world, NoFunds, req) /\ \A i \in 1 .. Len(slots) : slots[i] \in NeededOf(world, NoFunds, req, a)
  BY <1>7, <1>8, SeedsNeeded
<1>10. Len(slots) <= MAX_PROOF_STORAGE_KEYS
  BY <1>7
<1> HIDE DEF a, slots
<1>11. \/ FitsIn(world, db, a, slots, got) /\ OnlyNeeded(world, req, got.db)
       \/ got.err = "budget" /\ ~WithinLimits(world, NoFunds, req)
  BY <1>4, <1>6, <1>8, <1>9, <1>10, Supplied
<1> HIDE DEF got
<1>12. CASE got.err = "budget" /\ ~WithinLimits(world, NoFunds, req)
  <2>1. pc' = "done" /\ ans' = Ans("budget", 0) /\ db' = db
    BY <1>3, <1>12 DEF Fail
  <2>2. ans'.st = "budget"
    BY <2>1, AnsFields
  <2>3. Served(world, NoFunds, req, ans'.st)
    BY <1>12, <2>2 DEF Served
  <2> QED BY <1>1, <1>6, <2>1, <2>3 DEF HonestInv
<1>13. CASE FitsIn(world, db, a, slots, got) /\ OnlyNeeded(world, req, got.db)
  <2>1. got.err = ""
    BY <1>13 DEF FitsIn
  <2>2. db' = got.db /\ pc' = "seed" /\ ans' = ans
    BY <1>1, <1>3, <2>1
  <2>3. /\ \A op \in Missed : Loaded(db, op) => Loaded(db', op)
        /\ \A op \in Missed : op.a = a /\ (op.op = "slot" => op.s \in ToSet(slots)) => Loaded(db', op)
    BY <1>4, <1>8, <1>13, <2>2, FitsKeeps
  <2>4. Brought(db', f)
    <3>1. \A op : Covers(f, op) => op.a = a /\ (op.op = "slot" => op.s \in ToSet(slots))
      BY DEF Covers, a, slots
    <3> QED BY <2>3, <3>1 DEF Brought
  <2>5. \A e \in ToSet(Seeds(req)) : e \in ToSet(queue') \/ Brought(db', e)
    <3>1. \A e : Brought(db, e) => Brought(db', e)
      BY <2>3, StaysBrought
    <3> QED BY <1>5, <1>6, <2>4, <3>1
  <2>6. ToSet(queue') \subseteq ToSet(Seeds(req))
    BY <1>5, <1>6
  <2>7. OnlyNeeded(world, req, db')
    BY <1>13, <2>2
  <2> QED BY <1>1, <1>6, <2>2, <2>5, <2>6, <2>7 DEF HonestInv
<1> QED BY <1>11, <1>12, <1>13

LEMMA FetchMissingHonest == CallInv /\ HonestInv /\ FetchMissing => HonestInv'
<1> SUFFICES ASSUME CallInv, HonestInv, FetchMissing, honest'
             PROVE  HonestInv'
  BY DEF HonestInv
<1> DEFINE a == want.a
           slots == IF want.op = "slot" THEN <<want.s>> ELSE <<>>
           t == Truth(world, a, slots)
           got == fetch_and_load(StateRoot[world], db, a, ToSet(slots), t)
           shown == want.op = "slot" => slot_is_proven(got.db, a, want.s)
<1>1. UNCHANGED <<world, req, queue, want, rounds, search>> /\ pc = "fetch"
  BY DEF FetchMissing
<1>2. /\ honest
      /\ \/ got.err # "" /\ Fail(got.err) /\ UNCHANGED db
         \/ /\ got.err = "" /\ db' = got.db
            /\ shown => pc' = "run" /\ UNCHANGED ans
  <2>1. PICK r \in Replies(a, slots) :
          \E g \in {fetch_and_load(StateRoot[world], db, a, ToSet(slots), r)} :
            /\ honest' = (honest /\ r = Truth(world, a, slots))
            /\ \/ g.err # "" /\ Fail(g.err) /\ UNCHANGED db
               \/ /\ g.err = "" /\ db' = g.db
                  /\ IF want.op = "slot" => slot_is_proven(g.db, a, want.s)
                     THEN pc' = "run" /\ UNCHANGED ans ELSE Fail("omitted")
    BY DEF FetchMissing
  <2> HIDE DEF a, slots
  <2>2. honest /\ r = t
    BY <2>1
  <2> QED BY <2>1, <2>2
<1>3. world \in Worlds /\ req \in CallRequest /\ DbSound(world, db) /\ want \in Missed /\ rounds \in Nat
  BY <1>1, CallNats DEF CallInv
<1>4. /\ OnlyNeeded(world, req, db) /\ \A e \in ToSet(Seeds(req)) : Brought(db, e)
      /\ want \in Later(world, NoFunds, req) /\ ~Loaded(db, want)
      /\ rounds <= Cardinality(Gathered(world, req, db)) + 1
  BY <1>1, <1>2 DEF HonestInv
<1>5. a \in Accounts /\ slots \in Seq(Slots) /\ Len(slots) <= MAX_PROOF_STORAGE_KEYS
      /\ (want.op = "slot" => slots = <<want.s>> /\ want.s \in Slots) /\ (want.op # "slot" => slots = <<>>)
  <2>1. want.a \in Accounts /\ (want.op = "slot" => want.s \in Slots)
    BY <1>3 DEF Missed
  <2>2. CASE want.op = "slot"
    <3>1. slots = <<want.s>> /\ Len(<<want.s>>) = 1
      BY <2>2
    <3>2. 1 <= MAX_PROOF_STORAGE_KEYS
      BY CallNats
    <3> QED BY <2>1, <2>2, <3>1, <3>2
  <2>3. CASE want.op # "slot"
    <3>1. slots = <<>> /\ Len(<<>>) = 0
      BY <2>3
    <3> QED BY <2>1, <2>3, <3>1, CallNats
  <2> QED BY <2>2, <2>3
<1>6. want \in Proved(world, NoFunds, req)
  BY <1>4 DEF Later
<1> HIDE DEF slots
<1>7. a \in Needed(world, NoFunds, req) /\ \A i \in 1 .. Len(slots) : slots[i] \in NeededOf(world, NoFunds, req, a)
  <2>1. a \in Needed(world, NoFunds, req)
    BY <1>5, <1>6 DEF Needed
  <2>2. CASE want.op = "slot"
    <3>1. want.s \in NeededOf(world, NoFunds, req, a)
      BY <1>5, <1>6, <2>2 DEF NeededOf
    <3> DEFINE K == NeededOf(world, NoFunds, req, a)
               s == want.s
    <3>2. slots = <<s>> /\ s \in K
      BY <1>5, <2>2, <3>1
    <3> HIDE DEF K, s
    <3>3. \A i \in 1 .. Len(slots) : slots[i] \in K
      BY ONLY <3>2
    <3> QED BY <2>1, <3>3 DEF K
  <2>3. CASE want.op # "slot"
    <3>1. Len(slots) = 0
      BY <1>5, <2>3
    <3>2. \A i \in 1 .. Len(slots) : FALSE
      BY <3>1, NoneBelow
    <3> QED BY <2>1, <3>2
  <2> QED BY <2>2, <2>3
<1> HIDE DEF a
<1>8. \/ FitsIn(world, db, a, slots, got) /\ OnlyNeeded(world, req, got.db)
      \/ got.err = "budget" /\ ~WithinLimits(world, NoFunds, req)
  BY <1>3, <1>4, <1>5, <1>7, Supplied
<1> HIDE DEF got
<1>9. CASE got.err = "budget" /\ ~WithinLimits(world, NoFunds, req)
  <2>1. pc' = "done" /\ ans' = Ans("budget", 0) /\ db' = db
    BY <1>2, <1>9 DEF Fail
  <2>2. ans'.st = "budget"
    BY <2>1, AnsFields
  <2>3. Served(world, NoFunds, req, ans'.st)
    BY <1>9, <2>2 DEF Served
  <2> QED BY <1>1, <1>4, <2>1, <2>3 DEF HonestInv
<1>10. CASE FitsIn(world, db, a, slots, got) /\ OnlyNeeded(world, req, got.db)
  <2>1. got.err = ""
    BY <1>10 DEF FitsIn
  <2> DEFINE new == got.db
  <2>2. /\ \A op \in Missed : Loaded(db, op) => Loaded(new, op)
        /\ \A op \in Missed : op.a = a /\ (op.op = "slot" => op.s \in ToSet(slots)) => Loaded(new, op)
    BY <1>3, <1>5, <1>10, FitsKeeps
  <2>3. Loaded(new, want)
    <3>1. want.a = a
      BY DEF a
    <3>2. want.op = "slot" => want.s \in ToSet(slots)
      <4>1. ToSet(slots) = {slots[i] : i \in 1 .. Len(slots)}
        BY <1>5, AskedFew
      <4> DEFINE s == want.s
      <4>2. want.op = "slot" => slots = <<s>>
        BY <1>5
      <4> HIDE DEF s
      <4>3. slots = <<s>> => s \in {slots[i] : i \in 1 .. Len(slots)}
        OBVIOUS
      <4> QED BY <4>1, <4>2, <4>3 DEF s
    <3> QED BY <1>3, <2>2, <3>1, <3>2
  <2>4. shown
    BY <2>3 DEF Loaded, slot_is_proven, a
  <2>5. db' = new /\ pc' = "run" /\ ans' = ans
    BY <1>2, <2>1, <2>4
  <2>6. \A e \in ToSet(Seeds(req)) : Brought(new, e)
    BY <1>4, <2>2, StaysBrought
  <2>7. rounds <= Cardinality(Gathered(world, req, new))
    <3> HIDE DEF new
    <3>1. /\ Cardinality(Gathered(world, req, db)) \in Nat /\ Cardinality(Gathered(world, req, new)) \in Nat
          /\ Cardinality(Gathered(world, req, db)) + 1 <= Cardinality(Gathered(world, req, new))
      BY <1>3, <1>4, <2>2, <2>3, OneMore
    <3> QED BY <1>3, <1>4, <3>1
  <2> QED BY <1>1, <1>10, <2>5, <2>6, <2>7 DEF HonestInv
<1> QED BY <1>8, <1>9, <1>10

\* A run is never made with more gas than the call may have.
LEMMA RunGas ==
  ASSUME NEW w \in Worlds, NEW r \in CallRequest, NEW s, SearchOK(w, r, "run", s)
  PROVE  s.gas \in Nat /\ s.gas \in 0 .. call_gas(r)
<1> DEFINE lo == s.lo
           hi == s.hi
           gas == s.gas
           G == call_gas(r)
<1>1. gas \in Nat /\ lo \in Nat /\ hi \in Nat /\ G \in Nat
  BY GasOfCall DEF SearchOK, SearchFields
<1>2. CASE hi = 0
  <2>1. gas = G
    BY <1>2 DEF SearchOK
  <2> HIDE DEF G, gas
  <2> QED BY <1>1, <2>1 DEF gas, G
<1>3. CASE hi # 0
  <2>1. gas = lo + (hi - lo) \div 2 /\ hi \in EnoughAt(w, r) /\ lo < hi
    BY <1>3 DEF SearchOK, Bracket
  <2>2. hi <= G
    BY <2>1 DEF EnoughAt
  <2> HIDE DEF lo, hi, gas, G
  <2>3. gas <= hi
    BY <1>1, <2>1
  <2>4. gas \in 0 .. G
    BY <1>1, <2>2, <2>3
  <2> QED BY <1>1, <2>4 DEF gas, G
<1> QED BY <1>2, <1>3

\* Where a run with nothing untrue loaded stops: at a read the call makes on the chain.
LEMMA StopsAtRead ==
  ASSUME NEW w \in Worlds, NEW r \in CallRequest, NEW d, DbSound(w, d), NEW gas \in Nat, gas \in 0 .. call_gas(r),
         NEW m, m = transact_call(d, r, gas), m.st \in Stopped
  PROVE  m.op \in Reads(w, NoFunds, r) /\ Why(d, r, m.op, m.st)
<1>1. Trail(d, r, m, OnChain(w, NoFunds, r, gas))
  BY RunsTrail
<1>2. m.op \in OnChain(w, NoFunds, r, gas).seen /\ Why(d, r, m.op, m.st)
  BY <1>1 DEF Trail
<1> QED BY <1>2 DEF Reads

\* A read that is missing once the seeding is done is one of those that take a round.
LEMMA MissingIsLater ==
  ASSUME NEW w \in Worlds, NEW r \in CallRequest, NEW d, \A f \in ToSet(Seeds(r)) : Brought(d, f),
         NEW op \in Missed, op \in Reads(w, NoFunds, r), ~Loaded(d, op)
  PROVE  op \in Later(w, NoFunds, r)
<1>1. op \in Proved(w, NoFunds, r) /\ op.a \in Accounts
  BY ProvedMissed DEF Missed
<1>2. ASSUME NEW f \in ToSet(Seeds(r)), Covers(f, op)
      PROVE  FALSE
  <2>1. f.a \in Accounts
    BY <1>1, <1>2 DEF Covers
  <2> QED BY <1>2, <2>1 DEF Brought
<1> QED BY <1>1, <1>2 DEF Later

LEMMA ExecuteHonest == CallInv /\ HonestInv /\ Execute => HonestInv'
<1> SUFFICES ASSUME CallInv, HonestInv, Execute, honest
             PROVE  HonestInv'
  BY DEF Execute, HonestInv
<1> DEFINE m == transact_call(db, req, search.gas)
           st == m.st
           op == m.op
<1>1. /\ UNCHANGED <<world, req, queue, db, honest>> /\ pc = "run"
      /\ \/ st = "missing" /\ rounds >= MAX_PROOF_ROUNDS /\ Fail("budget")
         \/ st = "missing" /\ rounds' = rounds + 1 /\ want' = op /\ pc' = "fetch"
         \/ st \in {"nohash", "unsupported"} /\ Fail(st)
         \/ /\ st \in {"success", "revert", "halt", "invalid"} /\ UNCHANGED rounds
            /\ Finish(m) \/ Probe(Narrowed(search, m))
  BY DEF Execute
<1>2. /\ world \in Worlds /\ req \in CallRequest /\ DbSound(world, db) /\ rounds \in Nat
      /\ SearchOK(world, req, "run", search)
  BY <1>1, CallNats DEF CallInv
<1>3. search.gas \in Nat /\ search.gas \in 0 .. call_gas(req)
  BY <1>2, RunGas
<1>4. /\ OnlyNeeded(world, req, db) /\ \A f \in ToSet(Seeds(req)) : Brought(db, f)
      /\ rounds <= Cardinality(Gathered(world, req, db))
  BY <1>1 DEF HonestInv
<1>5. st \in Stopped => op \in Reads(world, NoFunds, req) /\ Why(db, req, op, st)
  <2> DEFINE gas == search.gas
  <2>1. m = transact_call(db, req, gas) /\ gas \in Nat /\ gas \in 0 .. call_gas(req)
    BY <1>3
  <2> HIDE DEF gas, m
  <2> QED BY <1>2, <2>1, StopsAtRead
<1> HIDE DEF m, st, op
<1>6. ASSUME st = "missing"
      PROVE  /\ op \in Later(world, NoFunds, req) /\ ~Loaded(db, op)
             /\ Cardinality(Gathered(world, req, db)) \in Nat /\ Cardinality(Later(world, NoFunds, req)) \in Nat
             /\ Cardinality(Gathered(world, req, db)) + 1 <= Cardinality(Later(world, NoFunds, req))
  <2>1. op \in Missed /\ ~Loaded(db, op) /\ op \in Reads(world, NoFunds, req)
    BY <1>5, <1>6 DEF Stopped, Why
  <2>2. op \in Later(world, NoFunds, req)
    BY <1>2, <1>4, <2>1, MissingIsLater
  <2> QED BY <1>2, <2>1, <2>2, OneMore
<1>7. CASE st = "missing" /\ rounds >= MAX_PROOF_ROUNDS /\ Fail("budget")
  <2>1. pc' = "done" /\ ans' = Ans("budget", 0)
    BY <1>7 DEF Fail
  <2>2. ans'.st = "budget"
    BY <2>1, AnsFields
  <2>3. ~(Cardinality(Later(world, NoFunds, req)) <= MAX_PROOF_ROUNDS)
    BY <1>2, <1>4, <1>6, <1>7, CallNats
  <2>4. Served(world, NoFunds, req, ans'.st)
    BY <2>2, <2>3 DEF Served, WithinLimits
  <2> QED BY <1>1, <1>4, <2>1, <2>4 DEF HonestInv
<1>8. CASE st = "missing" /\ rounds' = rounds + 1 /\ want' = op /\ pc' = "fetch"
  <2>1. rounds' <= Cardinality(Gathered(world, req, db)) + 1
    BY <1>2, <1>4, <1>6, <1>8
  <2> QED BY <1>1, <1>4, <1>6, <1>8, <2>1 DEF HonestInv
<1>9. CASE st \in {"nohash", "unsupported"} /\ Fail(st)
  <2>1. pc' = "done" /\ ans' = Ans(st, 0)
    BY <1>9 DEF Fail
  <2>2. ans'.st = st
    BY <2>1, AnsFields
  <2>3. op \in Reads(world, NoFunds, req) /\ Why(db, req, op, st)
    BY <1>5, <1>9 DEF Stopped
  <2>4. Served(world, NoFunds, req, st)
    BY <1>9, <2>3 DEF Served, Why
  <2> QED BY <1>1, <1>4, <2>1, <2>2, <2>4 DEF HonestInv
<1>10. CASE st \in {"success", "revert", "halt", "invalid"} /\ UNCHANGED rounds /\ Finish(m)
  <2>1. pc' = "done" /\ ans' = Ans(st, IF st \in {"success", "revert"} THEN m.out ELSE 0)
    BY <1>10 DEF Finish, st
  <2>2. ans'.st = st
    BY <2>1, AnsFields
  <2>3. Served(world, NoFunds, req, ans'.st)
    BY <1>10, <2>2, EndsServed
  <2> QED BY <1>1, <1>4, <2>1, <2>3 DEF HonestInv
<1>11. CASE UNCHANGED rounds /\ Probe(Narrowed(search, m))
  <2> DEFINE z == Narrowed(search, m)
  <2>1. UNCHANGED <<pc, ans>> \/ (pc' = "done" /\ ans' = Ans("success", z.hi))
    BY <1>11 DEF Probe
  <2> HIDE DEF z
  <2>2. CASE UNCHANGED <<pc, ans>>
    BY <1>1, <1>4, <1>11, <2>2 DEF HonestInv
  <2>3. CASE pc' = "done" /\ ans' = Ans("success", z.hi)
    <3>1. ans'.st = "success"
      BY <2>3, AnsFields
    <3>2. Served(world, NoFunds, req, ans'.st)
      BY <3>1, EndsServed
    <3> QED BY <1>1, <1>4, <2>3, <3>2 DEF HonestInv
  <2> QED BY <2>1, <2>2, <2>3
<1> QED BY <1>1, <1>7, <1>8, <1>9, <1>10, <1>11

-----------------------------------------------------------------------------
(* The balances of the precompiles. *)

\* op looks at the account of a precompile that holds something.
Funded(f, op) == op.op = "account" /\ op.a \in Precompiles /\ f[op.a] # 0

\* Any other read comes back with the same as if no precompile held anything.
LEMMA ReadsBlind ==
  ASSUME NEW w, NEW f, NEW op \in Read, ~Funded(f, op)
  PROVE  ReadWorld(w, f, op) = ReadWorld(w, NoFunds, op)
<1>0. \A p \in Precompiles : NoFunds[p] = 0
  BY DEF NoFunds
<1>1. CASE op \in [op : {"account"}, a : Named]
  <2>1. op.op = "account" /\ (op.a \in Precompiles \/ op.a \in Accounts) /\ ~(op.a \in Precompiles /\ op.a \in Accounts)
    <3>1. op.op = "account" /\ op.a \in Named
      BY <1>1
    <3> QED BY <3>1, CallConstants DEF Named
  <2>2. CASE op.a \in Precompiles
    <3>1. f[op.a] = NoFunds[op.a]
      BY <1>0, <2>1, <2>2 DEF Funded
    <3> QED BY <2>1, <2>2, <3>1 DEF ReadWorld
  <2>3. CASE op.a \in Accounts
    <3>1. ReadWorld(w, f, op) = Got(State[w][op.a]) /\ ReadWorld(w, NoFunds, op) = Got(State[w][op.a])
      BY <2>1, <2>3 DEF ReadWorld
    <3> QED BY <3>1
  <2> QED BY <2>1, <2>2, <2>3
<1>2. CASE op \in [op : {"slot"}, a : Accounts, s : Slots]
  <2>1. op.op = "slot"
    BY <1>2
  <2> QED BY <2>1 DEF ReadWorld
<1>3. CASE op \in [op : {"hash"}, n : Nat]
  <2>1. op.op = "hash"
    BY <1>3
  <2> QED BY <2>1 DEF ReadWorld
<1>4. CASE op \in [op : {"native"}, a : Precompiles]
  <2>1. op.op = "native"
    BY <1>4
  <2>2. /\ ReadWorld(w, f, op) = Callee(Got(Native(f[op.a])))
        /\ ReadWorld(w, NoFunds, op) = Callee(Got(Native(NoFunds[op.a])))
    BY <2>1 DEF ReadWorld
  <2> QED BY <2>2, CalleeIs
<1> QED BY <1>1, <1>2, <1>3, <1>4 DEF Read

\* A step is the same whatever the precompiles hold, or it looks at what one of them holds.
LEMMA BlindStep ==
  ASSUME NEW w, NEW f, NEW r \in CallRequest, NEW gas, NEW p, DOMAIN p = VmFields,
         NEW x, x = StepWorld(w, f, r, gas, p), NEW y, y = StepWorld(w, NoFunds, r, gas, p)
  PROVE  x = y \/ \E op \in x.seen : Funded(f, op)
<1> DEFINE op == NextOp(r, p.hist)
           g1 == ReadWorld(w, f, op)
           g2 == ReadWorld(w, NoFunds, op)
<1>1. x = StepVm(r, gas, p, g1) /\ y = StepVm(r, gas, p, g2)
  BY DEF StepWorld
<1>2. op.op \in Reading => op \in Read
  BY NextOpTyped DEF Reading
<1>3. op = NextOp(r, p.hist)
  OBVIOUS
<1>4. op \in Read => g1.st = "" /\ (Funded(f, op) \/ g1 = g2)
  <2> HIDE DEF op
  <2> QED BY ChainReads, ReadsBlind
<1> HIDE DEF op, g1, g2
<1>5. CASE op.op \notin Reading
  BY ONLY r \in CallRequest, <1>1, <1>3, <1>5, StepBlind
<1>6. CASE op.op \in Reading /\ g1 = g2
  BY <1>1, <1>6
<1>7. CASE op.op \in Reading /\ Funded(f, op)
  <2>1. StepCase(gas, p, op, g1, x) /\ StepCase(gas, p, op, g2, y)
    BY <1>1, <1>3, StepCases
  <2>2. CASE p.st # ""
    <3>1. x = p /\ y = p
      BY ONLY <2>1, <2>2 DEF StepCase
    <3> QED BY <3>1
  <2>3. CASE p.st = "" /\ Over(p, gas)
    <3>1. x = AfterHalt(p) /\ y = AfterHalt(p)
      BY ONLY <1>7, <2>1, <2>3 DEF StepCase
    <3> QED BY <3>1
  <2>4. CASE p.st = "" /\ ~Over(p, gas)
    <3> DEFINE cost == Cost(p)
               val == g1.val
    <3>1. x = AfterRead(p, op, cost, val)
      BY ONLY <1>2, <1>4, <1>7, <2>1, <2>4 DEF StepCase
    <3> HIDE DEF cost, val
    <3>2. AfterRead(p, op, cost, val).seen = p.seen \cup {op}
      BY ONLY DOMAIN p = VmFields DEF AfterRead, VmFields
    <3>3. x.seen = p.seen \cup {op}
      BY ONLY <3>1, <3>2
    <3> QED BY <1>7, <3>3
  <2> QED BY <2>2, <2>3, <2>4
<1> QED BY <1>2, <1>4, <1>5, <1>6, <1>7

\* A run at some gas that looks at nothing a precompile holds is the run in which none holds anything.
LEMMA BlindRun ==
  ASSUME NEW w \in Worlds, NEW f, NEW r \in CallRequest, NEW gas \in Nat,
         \A op \in OnChain(w, f, r, gas).seen : ~Funded(f, op)
  PROVE  OnChain(w, f, r, gas) = OnChain(w, NoFunds, r, gas)
<1>1. PICK h : /\ OnChain(w, f, r, gas) = h[MaxOps] /\ h[0] = Start(r, gas)
               /\ \A n \in 1 .. MaxOps : h[n] = StepWorld(w, f, r, gas, h[n - 1])
  BY ChainSteps
<1>2. PICK k : /\ OnChain(w, NoFunds, r, gas) = k[MaxOps] /\ k[0] = Start(r, gas)
               /\ \A n \in 1 .. MaxOps : k[n] = StepWorld(w, NoFunds, r, gas, k[n - 1])
  BY ChainSteps
<1>3. ASSUME NEW p, VmOK(p, gas), NEW x, x = StepWorld(w, f, r, gas, p)
      PROVE  VmOK(x, gas) /\ p.seen \subseteq x.seen
  <2> DEFINE op == NextOp(r, p.hist)
             got == ReadWorld(w, f, op)
  <2>1. x = StepVm(r, gas, p, got) /\ op = NextOp(r, p.hist)
    BY <1>3 DEF StepWorld
  <2> HIDE DEF op, got
  <2>2. VmOK(x, gas)
    BY ONLY r \in CallRequest, gas \in Nat, <1>3, <2>1, StepOK
  <2>3. DOMAIN p = VmFields
    BY <1>3 DEF VmOK
  <2>4. p.seen \subseteq x.seen
    BY ONLY r \in CallRequest, <2>1, <2>3, SeenGrows
  <2> QED BY <2>2, <2>4
<1>4. \A n \in 0 .. MaxOps : VmOK(h[n], gas)
  <2> DEFINE Off == {n \in 0 .. MaxOps : ~VmOK(h[n], gas)}
  <2> SUFFICES ASSUME Off # {}
               PROVE  FALSE
    OBVIOUS
  <2>1. PICK x \in Off : \A y \in Off : x <= y
    <3>1. Off \in SUBSET Nat
      OBVIOUS
    <3> HIDE DEF Off
    <3> QED BY <3>1, LeastExists
  <2>2. x \in 0 .. MaxOps /\ ~VmOK(h[x], gas)
    BY <2>1
  <2>3. x # 0
    BY <1>1, <2>2, StartOK
  <2>4. x - 1 \in 0 .. MaxOps /\ x \in 1 .. MaxOps /\ ~(x <= x - 1)
    BY CallNats, <2>2, <2>3
  <2>5. VmOK(h[x - 1], gas)
    BY <2>1, <2>4
  <2>6. h[x] = StepWorld(w, f, r, gas, h[x - 1])
    BY <1>1, <2>4
  <2> QED BY <1>3, <2>2, <2>5, <2>6
<1>5. \A n \in 0 .. MaxOps : h[n].seen \subseteq h[MaxOps].seen
  <2> DEFINE N == MaxOps
             Off == {i \in 0 .. N : ~(h[N - i].seen \subseteq h[N].seen)}
  <2> SUFFICES ASSUME NEW n \in 0 .. N, ~(h[n].seen \subseteq h[N].seen)
               PROVE  FALSE
    OBVIOUS
  <2>0. N - n \in Off
    <3>1. N - n \in 0 .. N /\ N - (N - n) = n
      BY CallNats
    <3> QED BY <3>1
  <2>1. PICK x \in Off : \A y \in Off : x <= y
    <3>1. Off \in SUBSET Nat /\ Off # {}
      BY <2>0
    <3> HIDE DEF Off
    <3> QED BY <3>1, LeastExists
  <2>2. x \in 0 .. N /\ ~(h[N - x].seen \subseteq h[N].seen)
    BY <2>1
  <2>3. x # 0
    <3>1. N - 0 = N
      BY CallNats
    <3> QED BY <2>2, <3>1
  <2> DEFINE i == N - x
  <2>4. /\ x - 1 \in 0 .. N /\ ~(x <= x - 1) /\ i \in 0 .. N /\ i + 1 \in 1 .. N
        /\ N - (x - 1) = i + 1 /\ (i + 1) - 1 = i
    BY CallNats, <2>2, <2>3
  <2> HIDE DEF i
  <2>5. h[i + 1].seen \subseteq h[N].seen
    BY <2>1, <2>4
  <2>6. h[i + 1] = StepWorld(w, f, r, gas, h[i])
    BY <1>1, <2>4
  <2>7. VmOK(h[i], gas)
    BY <1>4, <2>4
  <2>8. h[i].seen \subseteq h[i + 1].seen
    BY <1>3, <2>6, <2>7
  <2>9. ~(h[i].seen \subseteq h[N].seen)
    BY <2>2 DEF i
  <2> QED BY ONLY <2>5, <2>8, <2>9
<1>6. \A n \in 0 .. MaxOps : h[n] = k[n]
  <2> DEFINE Off == {n \in 0 .. MaxOps : h[n] # k[n]}
  <2> SUFFICES ASSUME Off # {}
               PROVE  FALSE
    OBVIOUS
  <2>1. PICK x \in Off : \A y \in Off : x <= y
    <3>1. Off \in SUBSET Nat
      OBVIOUS
    <3> HIDE DEF Off
    <3> QED BY <3>1, LeastExists
  <2>2. x \in 0 .. MaxOps /\ h[x] # k[x]
    BY <2>1
  <2>3. x # 0
    BY <1>1, <1>2, <2>2
  <2>4. x - 1 \in 0 .. MaxOps /\ x \in 1 .. MaxOps /\ ~(x <= x - 1)
    BY CallNats, <2>2, <2>3
  <2>5. h[x - 1] = k[x - 1]
    BY <2>1, <2>4
  <2>6. h[x] = StepWorld(w, f, r, gas, h[x - 1]) /\ k[x] = StepWorld(w, NoFunds, r, gas, h[x - 1])
    BY <1>1, <1>2, <2>4, <2>5
  <2>7. DOMAIN h[x - 1] = VmFields
    BY <1>4, <2>4 DEF VmOK
  <2>8. \A op \in h[x].seen : ~Funded(f, op)
    BY <1>1, <1>5, <2>2
  <2> QED BY ONLY r \in CallRequest, <2>2, <2>6, <2>7, <2>8, BlindStep
<1>7. MaxOps \in 0 .. MaxOps
  BY CallNats
<1> QED BY <1>1, <1>2, <1>6, <1>7

\* A request that looks at nothing a precompile holds runs, at any gas, as if none held anything.
LEMMA Unfunded ==
  ASSUME NEW w \in Worlds, NEW f, NEW r \in CallRequest, \A op \in Reads(w, f, r) : ~Funded(f, op)
  PROVE  /\ \A g \in 0 .. call_gas(r) : OnChain(w, f, r, g) = OnChain(w, NoFunds, r, g)
         /\ Reads(w, f, r) = Reads(w, NoFunds, r)
<1>1. \A g \in 0 .. call_gas(r) : OnChain(w, f, r, g) = OnChain(w, NoFunds, r, g)
  <2> SUFFICES ASSUME NEW g \in 0 .. call_gas(r)
               PROVE  OnChain(w, f, r, g) = OnChain(w, NoFunds, r, g)
    OBVIOUS
  <2>1. g \in Nat
    BY GasOfCall
  <2>2. \A op \in OnChain(w, f, r, g).seen : op \in Reads(w, f, r)
    BY DEF Reads
  <2> QED BY <2>1, <2>2, BlindRun
<1>2. Reads(w, f, r) = Reads(w, NoFunds, r)
  BY <1>1 DEF Reads
<1> QED BY <1>1, <1>2

\* So it needs the same.
LEMMA UnfundedServed ==
  ASSUME NEW w \in Worlds, NEW f, NEW r \in CallRequest, \A op \in Reads(w, f, r) : ~Funded(f, op), NEW st
  PROVE  Served(w, NoFunds, r, st) => Served(w, f, r, st)
<1>1. Reads(w, f, r) = Reads(w, NoFunds, r)
  BY Unfunded
<1>2. Proved(w, f, r) = Proved(w, NoFunds, r)
  BY <1>1 DEF Proved
<1>3. /\ Later(w, f, r) = Later(w, NoFunds, r) /\ Needed(w, f, r) = Needed(w, NoFunds, r)
      /\ \A a : NeededOf(w, f, r, a) = NeededOf(w, NoFunds, r, a)
  BY <1>2, Zenon DEF Later, Needed, NeededOf
<1>4. WithinLimits(w, f, r) <=> WithinLimits(w, NoFunds, r)
  BY <1>3, Zenon DEF WithinLimits
<1> QED BY <1>1, <1>4, Zenon DEF Served

\* An answered call has the result of the chain's own run at the gas the chain would allow, and
\* an estimate is gas at which the call succeeds, the least such when its course does not depend
\* on its gas, unless the run looks at the balance of a precompile that holds one
\* (eth_call_verified, estimate_gas_search, ProofDb::basic).
THEOREM ResultsAlwaysTrue == Spec => []ResultTrue
<1>1. CallInv => ResultTrue
  <2> SUFFICES ASSUME CallInv, ~LooksAtFunds
               PROVE  AnswersTrue /\ EstimateExact
    BY DEF ResultTrue
  <2> DEFINE f == Funds[world]
             top == call_gas(req)
  <2>1. pc = "done" => AnswerOK(world, req, ans)
    BY DEF CallInv
  <2>2. world \in Worlds /\ req \in CallRequest
    BY DEF CallInv
  <2>3. \A op \in Reads(world, f, req) : ~Funded(f, op)
    BY DEF LooksAtFunds, Funded
  <2> HIDE DEF f
  <2>4. \A g \in 0 .. top : OnChain(world, f, req, g) = OnChain(world, NoFunds, req, g)
    BY <2>2, <2>3, Unfunded
  <2>5. top \in Nat /\ TX_GAS \in Nat
    BY <2>2, GasOfCall, CallNats
  <2>6. top \in 0 .. top /\ \A g \in TX_GAS .. top : g \in 0 .. top
    BY <2>5
  <2> HIDE DEF top
  <2>7. Enough = EnoughAt(world, req)
    BY <2>4, <2>6 DEF Enough, EnoughAt, f, top
  <2>8. Steady <=> SteadyAt(world, req)
    <3>1. \A g \in EnoughAt(world, req) : OnChain(world, f, req, g) = OnChain(world, NoFunds, req, g)
      BY <2>4, <2>6 DEF EnoughAt, top
    <3> QED BY <2>7, <3>1, Zenon DEF Steady, SteadyAt, f
  <2>9. AnswersTrue
    <3>1. OnChain(world, f, req, top) = OnChain(world, NoFunds, req, top)
      BY <2>4, <2>6
    <3> QED BY <2>1, <3>1 DEF AnswersTrue, AnswerOK, f, top
  <2>10. EstimateExact
    BY <2>1, <2>7, <2>8 DEF EstimateExact, AnswerOK
  <2> QED BY <2>9, <2>10
<1> QED BY CallInvariant, <1>1, PTL

\* With a provider that tells the truth no call is refused for its proofs, none is told that a
\* precompile or a block hash is wanting unless it reads one, and none runs out of budget unless
\* it needs more rounds, accounts or slots than the limits allow (fetch_and_load,
\* transact_call_proven), unless it looks at the balance of a precompile that holds one and so
\* takes another course than the chain.
THEOREM HonestAlwaysServed == Spec => []HonestIsServed
<1>1. Init => CallInv /\ HonestInv
  BY InitInv, InitHonest
<1>2. CallInv /\ HonestInv /\ [Next]_vars => CallInv' /\ HonestInv'
  <2>1. CallInv /\ [Next]_vars => CallInv'
    BY OpenInv, NoReplyInv, SkipInv, SeedInv, StartRunInv, FetchMissingInv, ExecuteInv, StutterInv
       DEF Next
  <2>2. HonestInv /\ UNCHANGED vars => HonestInv'
    BY DEF HonestInv, vars
  <2> QED BY <2>1, <2>2, OpenHonest, NoReplyHonest, SkipHonest, SeedHonest, StartRunHonest,
             FetchMissingHonest, ExecuteHonest DEF Next
<1>3. CallInv /\ HonestInv => HonestIsServed
  <2> SUFFICES ASSUME CallInv, HonestInv, pc = "done", honest, ~LooksAtFunds
               PROVE  Served(world, Funds[world], req, ans.st)
    BY DEF HonestIsServed
  <2>1. Served(world, NoFunds, req, ans.st)
    BY DEF HonestInv
  <2>2. world \in Worlds /\ req \in CallRequest
    BY DEF CallInv
  <2> DEFINE f == Funds[world]
  <2>3. \A op \in Reads(world, f, req) : ~Funded(f, op)
    BY DEF LooksAtFunds, Funded
  <2> HIDE DEF f
  <2>4. Served(world, f, req, ans.st)
    BY <2>1, <2>2, <2>3, UnfundedServed
  <2> QED BY <2>4 DEF f
<1> QED BY <1>1, <1>2, <1>3, PTL DEF Spec
=============================================================================
