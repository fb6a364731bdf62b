--------------------------- MODULE UpstreamProofs ---------------------------
(***************************************************************************)
(* What holds of the upstream client for every size of batch, every number *)
(* of attempts and every height: a request fails only when no provider it  *)
(* may ask could have answered it, a block's raw transactions come in the  *)
(* order of its hashes, and the headers of a sync are one provider's       *)
(* unbroken range.                                                         *)
(***************************************************************************)
EXTENDS Upstream, SequenceTheorems, FiniteSetTheorems, NaturalsInduction, WellFoundedInduction, TLAPS

-----------------------------------------------------------------------------
(* The inductive invariant. *)

Fields == {"at", "kind", "from", "to", "prov", "mode", "groups", "posts", "out", "unsupported", "answer", "seen"}

HeaderModes == {"parallel", "serial", "single"}

\* Ways of asking for headers that are never the last.
SideBySide == {"parallel", "serial"}

RawModes == {"batched", "one_by_one"}

ModesOf ==
  [sync |-> {"number"} \cup HeaderModes, raws |-> {"hashes"} \cup RawModes, receipts |-> {"receipts"},
   proof |-> {"by_number", "hash", "retry"}, send |-> {"send"}]

Askable == {p \in Providers : p = "backup" => backup}

\* A provider that need not have an answer to r.
Unfit(p, r) == health[p] = "flaky" \/ (r.kind = "sync" /\ r.seen[p] < r.to)

ReqShape(r) ==
  /\ DOMAIN r = Fields
  /\ r.at \in {"busy", "done"}
  /\ r.kind \in DOMAIN ModesOf
  /\ r.mode \in ModesOf[r.kind]
  /\ r.prov \in Askable
  /\ r.to \in Nat
  /\ r.mode \in HeaderModes => r.from = Synced + 1 /\ Synced < r.to
  /\ \A p \in Providers : r.seen[p] \in Nat /\ r.seen[p] <= tips[p]

\* The providers that r has given up on.
Tried(r) ==
  /\ r.prov = "backup" => Unfit("primary", r)
  /\ r.mode \in {"hash", "retry"} => \A p \in Askable : health[p] = "flaky"

\* The raw transactions of the first k groups.
Cut(mode, k) == IF mode = "batched" THEN Min({k * RAW_TX_BATCH, TxCount}) ELSE k

RawGroups(mode) == Groups(mode, 1, 0)

\* Where r is in the groups of raw transactions: what it has is what comes before them.
RawsAt(r, k) ==
  /\ Len(r.groups) = Len(RawGroups(r.mode)) - k + 1
  /\ \A j \in 1 .. Len(r.groups) : r.groups[j] = RawGroups(r.mode)[k + j - 1]
  /\ r.out = SubSeq(Hashes, 1, Cut(r.mode, k - 1))

\* The groups that are left, where a post of them must not fail or must not be out of place.
GroupsSound(r) ==
  /\ r.mode \notin SideBySide => /\ r.groups \in Seq(Range(r.groups)) /\ r.groups # <<>>
                                 /\ \A k \in DOMAIN r.groups : r.groups[k] = <<r.groups[k][1]>>
  /\ r.mode = "single" => \A k \in DOMAIN r.groups : r.groups[k][1][1] \in Synced .. r.to
  /\ r.mode \in RawModes => \E k \in 1 .. Len(RawGroups(r.mode)) : RawsAt(r, k)
  /\ r.mode \notin HeaderModes \cup RawModes => Len(r.groups) = 1 /\ r.out = <<>>

\* How a post of r can have ended.
Ended(r, keys, res) ==
  \/ res = Waiting
  \/ res = Fail /\ (r.mode \notin Batches \cup {"hash"} => Unfit(r.prov, r))
  \/ /\ res.st = "ok"
     /\ r.mode = "number" => res.vals = <<res.vals[1]>> /\ res.vals[1][1] \in Nat
     /\ r.mode \in RawModes => res.vals = keys

PostsSound(r) ==
  /\ r.mode \notin SideBySide => r.posts = <<r.posts[1]>> /\ r.posts[1].keys = r.groups[1][1]
  /\ \A i \in DOMAIN r.posts :
       /\ DOMAIN r.posts[i] = {"keys", "tries", "res"}
       /\ Ended(r, r.posts[i].keys, r.posts[i].res)

AnswerSound(r) ==
  /\ r.answer = Fail => \A p \in Askable : Unfit(p, r)
  /\ r.kind = "raws" /\ r.answer.st = "ok" => r.answer.vals = Hashes

ReqSound(r) ==
  /\ ReqShape(r)
  /\ r.at = "busy" => Tried(r) /\ GroupsSound(r) /\ PostsSound(r)
  /\ r.at = "done" => AnswerSound(r)

Shapes == backup \in BOOLEAN /\ health \in [Providers -> {"good", "nobatch", "flaky"}] /\ tips \in [Providers -> Nat]

UpstreamInv == Shapes /\ (req = Idle \/ ReqSound(req))


-----------------------------------------------------------------------------
(* Sequences and batches. *)

LEMMA ConstantTypes ==
  /\ Synced \in Nat /\ MaxTip \in Nat /\ TxCount \in Nat /\ RAW_TX_BATCH \in Nat
  /\ Synced >= 1 /\ TxCount >= 1 /\ RAW_TX_BATCH >= 1
<1>1. Synced \in Nat \ {0} /\ MaxTip \in Nat \ {0} /\ TxCount \in Nat \ {0} /\ RAW_TX_BATCH \in Nat \ {0}
  BY UpstreamConstants, Zenon
<1> QED BY <1>1

LEMMA LeastOfTwo ==
  ASSUME NEW a \in Int, NEW b \in Int
  PROVE  Min({a, b}) = IF a <= b THEN a ELSE b
<1>1. CASE a <= b
  BY <1>1 DEF Min
<1>2. CASE ~(a <= b)
  BY <1>2 DEF Min
<1> QED BY <1>1, <1>2

\* One sequence is all there is of it.
LEMMA FlattenOne ==
  ASSUME NEW x
  PROVE  FlattenSeq(<<x>>) = x
<1> DEFINE s == <<x>>
           Step(f) == [i \in 1 .. 1 |-> IF i = 1 THEN x ELSE f[i - 1] \o s[i]]
           g == CHOOSE f : f = [i \in 1 .. 1 |-> IF i = 1 THEN x ELSE f[i - 1] \o s[i]]
<1>1. [i \in 1 .. 1 |-> x] = Step([i \in 1 .. 1 |-> x])
  OBVIOUS
<1>2. \E f : f = Step(f)
  BY <1>1
<1>3. g = Step(g)
  BY <1>2
<1>4. g[1] = x
  <2>1. Step(g)[1] = x
    OBVIOUS
  <2> HIDE DEF Step, g
  <2> QED BY <1>3, <2>1
<1>5. Len(s) = 1 /\ s[1] = x
  OBVIOUS
<1>6. FlattenSeq(s) = g[1]
  BY <1>5 DEF FlattenSeq
<1> QED BY <1>4, <1>6

\* The batches of a list of len, size at a time.
LEMMA HowManyBatches ==
  ASSUME NEW len \in Nat, len >= 1, NEW size \in Nat, size >= 1, NEW n, n = (len + size - 1) \div size
  PROVE  n \in Nat /\ n >= 1 /\ n * size >= len /\ (n - 1) * size < len
OBVIOUS

LEMMA BatchBefore ==
  ASSUME NEW size \in Nat, size >= 1, NEW n \in Nat, NEW k \in Nat, k <= n - 1
  PROVE  k * size \in Nat /\ k * size <= (n - 1) * size /\ (k + 1) * size = k * size + size
OBVIOUS

LEMMA HashesFacts ==
  /\ Hashes \in Seq({<<i>> : i \in Nat}) /\ Len(Hashes) = TxCount /\ DOMAIN Hashes = 1 .. TxCount
  /\ \A i \in 1 .. TxCount : Hashes[i] = <<i>> /\ Hashes[i] # Null
<1>1. Hashes = [i \in 1 .. TxCount |-> <<i>>]
  BY DEF Hashes
<1>2. Hashes \in Seq({<<i>> : i \in Nat}) /\ Len(Hashes) = TxCount
  BY <1>1, ConstantTypes
<1>3. \A i \in 1 .. TxCount : Hashes[i] = <<i>> /\ <<i>> # <<>>
  BY <1>1
<1> QED BY <1>1, <1>2, <1>3 DEF Null

\* Two pieces of the hashes, one after the other.
LEMMA HashesJoin ==
  ASSUME NEW a \in Nat, NEW b \in Nat, a <= b, b <= TxCount
  PROVE  SubSeq(Hashes, 1, a) \o SubSeq(Hashes, a + 1, b) = SubSeq(Hashes, 1, b)
<1> DEFINE S == {<<i>> : i \in Nat}
           x == SubSeq(Hashes, 1, a)
           y == SubSeq(Hashes, a + 1, b)
           z == SubSeq(Hashes, 1, b)
<1>1. \A i \in 1 .. TxCount : Hashes[i] \in S
  BY HashesFacts, ConstantTypes
<1>2. x \in Seq(S) /\ Len(x) = a /\ \A i \in 1 .. a : x[i] = Hashes[i]
  <2>1. \A i \in 1 .. a : Hashes[i] \in S
    BY <1>1, ConstantTypes
  <2> HIDE DEF S
  <2>2. SubSeq(Hashes, 1, a) \in Seq(S)
    BY <2>1
  <2> QED BY <2>2
<1>3. y \in Seq(S) /\ Len(y) = b - a /\ \A i \in 1 .. b - a : y[i] = Hashes[a + i]
  <2>1. \A i \in a + 1 .. b : Hashes[i] \in S
    BY <1>1, ConstantTypes
  <2> HIDE DEF S
  <2>2. SubSeq(Hashes, a + 1, b) \in Seq(S)
    BY <2>1
  <2> QED BY <2>2
<1>4. z \in Seq(S) /\ Len(z) = b /\ \A i \in 1 .. b : z[i] = Hashes[i]
  <2>1. \A i \in 1 .. b : Hashes[i] \in S
    BY <1>1, ConstantTypes
  <2> HIDE DEF S
  <2>2. SubSeq(Hashes, 1, b) \in Seq(S)
    BY <2>1
  <2> QED BY <2>2
<1> HIDE DEF S, x, y, z
<1>5. /\ x \o y \in Seq(S) /\ Len(x \o y) = Len(x) + Len(y)
      /\ \A i \in 1 .. Len(x) + Len(y) : (x \o y)[i] = IF i <= Len(x) THEN x[i] ELSE y[i - Len(x)]
  BY <1>2, <1>3, ConcatProperties, Zenon
<1>6. Len(x) + Len(y) = b
  BY <1>2, <1>3
<1>7. \A i \in 1 .. b : (x \o y)[i] = z[i]
  <2> SUFFICES ASSUME NEW i \in 1 .. b
               PROVE  (x \o y)[i] = z[i]
    OBVIOUS
  <2>1. (x \o y)[i] = IF i <= a THEN x[i] ELSE y[i - a]
    BY <1>2, <1>5, <1>6
  <2>2. CASE i <= a
    BY <1>2, <1>4, <2>1, <2>2
  <2>3. CASE i > a
    <3>1. (x \o y)[i] = y[i - a]
      BY <2>1, <2>3
    <3>2. i - a \in 1 .. b - a /\ a + (i - a) = i
      BY <2>3
    <3>3. y[i - a] = Hashes[i]
      BY <1>3, <3>2
    <3>4. z[i] = Hashes[i]
      BY <1>4
    <3> QED BY <3>1, <3>3, <3>4, Zenon
  <2>4. i <= a \/ i > a
    OBVIOUS
  <2> QED BY <2>2, <2>3, <2>4, Zenon
<1>8. Len(x \o y) = Len(z) /\ \A i \in 1 .. Len(x \o y) : (x \o y)[i] = z[i]
  BY <1>4, <1>5, <1>6, <1>7
<1>9. x \o y = z
  BY <1>4, <1>5, <1>8, SeqEqual
<1> QED BY <1>9 DEF x, y, z

\* The groups of raw transactions are the hashes, cut where Cut says.
LEMMA CutsAreBatches ==
  ASSUME NEW mode \in RawModes, NEW n, n = Len(RawGroups(mode))
  PROVE  /\ n \in Nat /\ n >= 1 /\ DOMAIN RawGroups(mode) = 1 .. n /\ RawGroups(mode) \in Seq(Range(RawGroups(mode)))
         /\ Cut(mode, 0) = 0 /\ Cut(mode, n) = TxCount
         /\ \A k \in 1 .. n : /\ Cut(mode, k - 1) \in Nat /\ Cut(mode, k) \in Nat
                              /\ Cut(mode, k - 1) < Cut(mode, k) /\ Cut(mode, k) <= TxCount
                              /\ RawGroups(mode)[k] = <<SubSeq(Hashes, Cut(mode, k - 1) + 1, Cut(mode, k))>>
         /\ mode = "one_by_one" => n = TxCount /\ \A k \in 1 .. n : RawGroups(mode)[k] = <<<<Hashes[k]>>>>
<1> DEFINE G == RawGroups(mode)
<1>1. CASE mode = "one_by_one"
  <2>1. G = [i \in DOMAIN Hashes |-> <<<<Hashes[i]>>>>]
    BY <1>1 DEF RawGroups, Groups
  <2>2. DOMAIN G = 1 .. TxCount /\ \A k \in 1 .. TxCount : G[k] = <<<<Hashes[k]>>>>
    BY <2>1, HashesFacts
  <2>3. G \in [1 .. TxCount -> Range(G)]
    BY <2>1, <2>2 DEF Range
  <2> HIDE DEF G
  <2>4. G \in Seq(Range(G)) /\ Len(G) = TxCount
    BY <2>3, ConstantTypes
  <2>5. n = TxCount
    BY <2>4 DEF G
  <2>6. \A k \in Nat : Cut(mode, k) = k
    BY <1>1 DEF Cut
  <2>7. \A k \in 1 .. n : SubSeq(Hashes, k, k) = <<Hashes[k]>>
    <3> SUFFICES ASSUME NEW k \in 1 .. TxCount
                 PROVE  SubSeq(Hashes, k, k) = <<Hashes[k]>>
      BY <2>5
    <3> DEFINE S == {Hashes[k]}
               u == SubSeq(Hashes, k, k)
               w == <<Hashes[k]>>
    <3>1. k \in Int /\ k <= k /\ k - k + 1 = 1 /\ k + 1 - 1 = k /\ \A i \in k .. k : Hashes[i] \in S
      BY ConstantTypes
    <3>2. u \in Seq(S) /\ Len(u) = 1 /\ \A i \in 1 .. 1 : u[i] = Hashes[k + i - 1]
      <4> HIDE DEF S
      <4> QED BY <3>1, SubSeqProperties
    <3>3. u[1] = Hashes[k]
      <4> HIDE DEF u
      <4> QED BY <3>1, <3>2
    <3>4. w \in Seq(S) /\ Len(w) = 1 /\ w[1] = Hashes[k]
      OBVIOUS
    <3> HIDE DEF u, w, S
    <3>5. \A i \in 1 .. Len(u) : u[i] = w[i]
      BY <3>2, <3>3, <3>4
    <3>6. u = w
      BY <3>2, <3>4, <3>5, SeqEqual
    <3> QED BY <3>6 DEF u, w
  <2>8. \A k \in 1 .. n : k - 1 \in Nat /\ k \in Nat /\ k - 1 < k /\ k <= TxCount /\ (k - 1) + 1 = k
    BY <2>5, ConstantTypes
  <2>9. \A k \in 1 .. n : /\ Cut(mode, k - 1) \in Nat /\ Cut(mode, k) \in Nat
                          /\ Cut(mode, k - 1) < Cut(mode, k) /\ Cut(mode, k) <= TxCount
                          /\ G[k] = <<SubSeq(Hashes, Cut(mode, k - 1) + 1, Cut(mode, k))>>
    <3> SUFFICES ASSUME NEW k \in 1 .. n
                 PROVE  /\ Cut(mode, k - 1) \in Nat /\ Cut(mode, k) \in Nat
                        /\ Cut(mode, k - 1) < Cut(mode, k) /\ Cut(mode, k) <= TxCount
                        /\ G[k] = <<SubSeq(Hashes, Cut(mode, k - 1) + 1, Cut(mode, k))>>
      OBVIOUS
    <3>1. Cut(mode, k - 1) = k - 1 /\ Cut(mode, k) = k
      BY <2>6, <2>8
    <3>2. G[k] = <<SubSeq(Hashes, k, k)>>
      BY <2>2, <2>5, <2>7
    <3>3. Cut(mode, k - 1) + 1 = k
      BY <3>1, <2>8
    <3> QED BY <2>8, <3>1, <3>2, <3>3
  <2> QED BY <2>2, <2>4, <2>5, <2>6, <2>9, ConstantTypes DEF G
<1>2. CASE mode = "batched"
  <2> DEFINE size == RAW_TX_BATCH
             m == (TxCount + size - 1) \div size
             C(k) == SubSeq(Hashes, (k - 1) * size + 1, Min({k * size, TxCount}))
  <2>1. m \in Nat /\ m >= 1 /\ m * size >= TxCount /\ (m - 1) * size < TxCount
    BY ConstantTypes, HowManyBatches
  <2>2. G = [k \in 1 .. m |-> <<C(k)>>]
    <3>1. Chunks(Hashes, RAW_TX_BATCH) = [k \in 1 .. m |-> C(k)]
      BY HashesFacts DEF Chunks
    <3>2. G = [k \in DOMAIN Chunks(Hashes, RAW_TX_BATCH) |-> <<Chunks(Hashes, RAW_TX_BATCH)[k]>>]
      BY <1>2 DEF RawGroups, Groups
    <3> HIDE DEF m, C
    <3> QED BY <3>1, <3>2
  <2> HIDE DEF m
  <2>3. DOMAIN G = 1 .. m /\ \A k \in 1 .. m : G[k] = <<C(k)>>
    BY <2>2
  <2>4. G \in [1 .. m -> Range(G)]
    BY <2>2, <2>3 DEF Range
  <2> HIDE DEF G
  <2>5. G \in Seq(Range(G)) /\ Len(G) = m
    BY <2>1, <2>4
  <2>6. n = m
    BY <2>5 DEF G
  <2>7. \A k \in 1 .. m : /\ (k - 1) * size \in Nat /\ k * size \in Nat /\ k * size = (k - 1) * size + size
                          /\ (k - 1) * size < TxCount
    <3> SUFFICES ASSUME NEW k \in 1 .. m
                 PROVE  /\ (k - 1) * size \in Nat /\ k * size \in Nat /\ k * size = (k - 1) * size + size
                        /\ (k - 1) * size < TxCount
      OBVIOUS
    <3>1. k - 1 \in Nat /\ k - 1 <= m - 1 /\ (k - 1) + 1 = k
      BY <2>1
    <3>2. (k - 1) * size \in Nat /\ (k - 1) * size <= (m - 1) * size /\ ((k - 1) + 1) * size = (k - 1) * size + size
      BY <2>1, <3>1, ConstantTypes, BatchBefore
    <3> QED BY <2>1, <3>1, <3>2, ConstantTypes
  <2>8. \A k \in Nat : k * size \in Int => Cut(mode, k) = IF k * size <= TxCount THEN k * size ELSE TxCount
    BY <1>2, LeastOfTwo, ConstantTypes DEF Cut
  <2>9. Cut(mode, 0) = 0
    <3>1. 0 * size = 0
      BY ConstantTypes
    <3> QED BY <2>8, <3>1, ConstantTypes
  <2>10. Cut(mode, m) = TxCount
    <3>1. m * size \in Int
      BY <2>1, ConstantTypes
    <3> QED BY <2>1, <2>8, <3>1, ConstantTypes
  <2>11. \A k \in 1 .. n : /\ Cut(mode, k - 1) \in Nat /\ Cut(mode, k) \in Nat
                           /\ Cut(mode, k - 1) < Cut(mode, k) /\ Cut(mode, k) <= TxCount
                           /\ G[k] = <<SubSeq(Hashes, Cut(mode, k - 1) + 1, Cut(mode, k))>>
    <3> SUFFICES ASSUME NEW k \in 1 .. m
                 PROVE  /\ Cut(mode, k - 1) \in Nat /\ Cut(mode, k) \in Nat
                        /\ Cut(mode, k - 1) < Cut(mode, k) /\ Cut(mode, k) <= TxCount
                        /\ G[k] = <<SubSeq(Hashes, Cut(mode, k - 1) + 1, Cut(mode, k))>>
      BY <2>6
    <3> DEFINE a == (k - 1) * size
               b == k * size
    <3>1. a \in Nat /\ b \in Nat /\ b = a + size /\ a < TxCount
      BY <2>7
    <3>2. k - 1 \in Nat /\ k \in Nat
      OBVIOUS
    <3>3. Cut(mode, k - 1) = a
      <4>1. a \in Int /\ a <= TxCount
        BY <3>1, ConstantTypes
      <4> QED BY <2>8, <3>2, <4>1
    <3>4. Cut(mode, k) = IF b <= TxCount THEN b ELSE TxCount
      <4>1. b \in Int
        BY <3>1
      <4> QED BY <2>8, <3>2, <4>1
    <3>5. G[k] = <<SubSeq(Hashes, Cut(mode, k - 1) + 1, Cut(mode, k))>>
      <4>1. Cut(mode, k) = Min({k * size, TxCount})
        BY <1>2 DEF Cut
      <4> QED BY <2>3, <3>3, <4>1
    <3> HIDE DEF a, b
    <3>6. a < (IF b <= TxCount THEN b ELSE TxCount) /\ (IF b <= TxCount THEN b ELSE TxCount) <= TxCount
          /\ (IF b <= TxCount THEN b ELSE TxCount) \in Nat
      BY <3>1, ConstantTypes
    <3> QED BY <3>1, <3>3, <3>4, <3>5, <3>6
  <2> QED BY <1>2, <2>1, <2>3, <2>5, <2>6, <2>9, <2>10, <2>11 DEF G
<1> QED BY <1>1, <1>2 DEF RawModes

-----------------------------------------------------------------------------
(* A way of asking begins. *)

Plain == {"number", "hashes", "receipts", "by_number", "hash", "retry", "send"}

LEMMA Modes ==
  ASSUME NEW kind \in DOMAIN ModesOf, NEW mode \in ModesOf[kind]
  PROVE  /\ mode \in HeaderModes \cup RawModes \cup Plain
         /\ kind \in {"sync", "raws", "receipts", "proof", "send"}
         /\ kind = "sync" <=> mode \in {"number"} \cup HeaderModes
         /\ kind = "raws" <=> mode \in {"hashes"} \cup RawModes
         /\ kind = "proof" <=> mode \in {"by_number", "hash", "retry"}
         /\ kind = "receipts" <=> mode = "receipts"
         /\ kind = "send" <=> mode = "send"
<1>1. kind \in {"sync", "raws", "receipts", "proof", "send"}
  BY DEF ModesOf
<1>2. CASE kind = "sync"
  BY <1>2 DEF ModesOf, HeaderModes, RawModes, Plain
<1>3. CASE kind = "raws"
  BY <1>3 DEF ModesOf, HeaderModes, RawModes, Plain
<1>4. CASE kind = "receipts"
  BY <1>4 DEF ModesOf, HeaderModes, RawModes, Plain
<1>5. CASE kind = "proof"
  BY <1>5 DEF ModesOf, HeaderModes, RawModes, Plain
<1>6. CASE kind = "send"
  BY <1>6 DEF ModesOf, HeaderModes, RawModes, Plain
<1> QED BY <1>1, <1>2, <1>3, <1>4, <1>5, <1>6

\* Groups of one post each, of the keys that may be asked for.
Sound1(groups) ==
  groups \in Seq(Range(groups)) /\ groups # <<>> /\ \A k \in DOMAIN groups : groups[k] = <<groups[k][1]>>

LEMMA PlainGroups ==
  ASSUME NEW mode \in Plain, NEW from, NEW to, NEW g, g = Groups(mode, from, to)
  PROVE  Sound1(g) /\ Len(g) = 1
<1>1. g = <<<<<<0>>>>>>
  BY DEF Groups, Plain
<1> DEFINE x == <<<<0>>>>
<1>2. g = <<x>> /\ x = <<x[1]>>
  BY <1>1
<1> HIDE DEF x
<1>3. DOMAIN g = {1} /\ g[1] = x /\ Len(g) = 1 /\ g # <<>>
  BY <1>2
<1>4. g \in Seq({x}) /\ Range(g) = {x}
  <2>1. g \in Seq({x})
    BY <1>2
  <2> QED BY <1>3, <2>1 DEF Range
<1> QED BY <1>2, <1>3, <1>4 DEF Sound1

LEMMA SingleGroups ==
  ASSUME NEW from, from = Synced + 1, NEW to \in Nat, Synced < to, NEW g, g = Groups("single", from, to)
  PROVE  Sound1(g) /\ \A k \in DOMAIN g : g[k][1][1] \in Synced .. to
<1> DEFINE n == to - from + 1
<1>1. n \in Nat /\ n >= 1
  BY ConstantTypes
<1>2. g = [i \in 1 .. n |-> <<<<from + i - 1>>>>]
  BY DEF Groups
<1>3. \A k \in 1 .. n : from + k - 1 \in Synced .. to
  BY ConstantTypes
<1> HIDE DEF n
<1>4. DOMAIN g = 1 .. n /\ \A k \in 1 .. n : g[k] = <<<<from + k - 1>>>>
  BY <1>2
<1>5. \A k \in 1 .. n : g[k] = <<g[k][1]>> /\ g[k][1][1] = from + k - 1
  <2> SUFFICES ASSUME NEW k \in 1 .. n
               PROVE  g[k] = <<g[k][1]>> /\ g[k][1][1] = from + k - 1
    OBVIOUS
  <2> DEFINE z == from + k - 1
             y == <<z>>
  <2>1. g[k] = <<y>> /\ y[1] = z
    BY <1>4
  <2> HIDE DEF z, y
  <2>2. g[k][1] = y
    BY <2>1
  <2> QED BY <2>1, <2>2 DEF z
<1>6. g \in Seq(Range(g)) /\ g # <<>>
  <2>1. g \in [1 .. n -> Range(g)]
    BY <1>2, <1>4 DEF Range
  <2>2. g \in Seq(Range(g)) /\ Len(g) = n
    BY <1>1, <2>1
  <2> QED BY <1>1, <2>2
<1>7. \A k \in DOMAIN g : g[k][1][1] \in Synced .. to
  <2> SUFFICES ASSUME NEW k \in 1 .. n
               PROVE  g[k][1][1] \in Synced .. to
    BY <1>4
  <2>1. g[k][1][1] = from + k - 1
    BY <1>5
  <2>2. from + k - 1 \in Synced .. to
    BY <1>3
  <2> QED BY <2>1, <2>2, Zenon
<1>8. Sound1(g)
  BY <1>4, <1>5, <1>6 DEF Sound1
<1> QED BY <1>7, <1>8

LEMMA RawGroupsSound ==
  ASSUME NEW mode \in RawModes, NEW from, NEW to, NEW g, g = Groups(mode, from, to)
  PROVE  g = RawGroups(mode) /\ Sound1(g)
<1>1. g = RawGroups(mode)
  BY DEF RawGroups, RawModes, Groups
<1> DEFINE n == Len(RawGroups(mode))
<1>2. /\ n \in Nat /\ n >= 1 /\ DOMAIN g = 1 .. n /\ g \in Seq(Range(g))
      /\ \A k \in 1 .. n : g[k] = <<SubSeq(Hashes, Cut(mode, k - 1) + 1, Cut(mode, k))>>
  BY <1>1, CutsAreBatches
<1>3. \A k \in 1 .. n : g[k] = <<g[k][1]>>
  <2> SUFFICES ASSUME NEW k \in 1 .. n
               PROVE  g[k] = <<g[k][1]>>
    OBVIOUS
  <2> DEFINE x == SubSeq(Hashes, Cut(mode, k - 1) + 1, Cut(mode, k))
  <2>1. g[k] = <<x>>
    BY <1>2
  <2> HIDE DEF x, n
  <2> QED BY <2>1
<1>4. g # <<>>
  <2> HIDE DEF n
  <2> QED BY <1>2
<1> QED BY <1>1, <1>2, <1>3, <1>4 DEF Sound1

\* Posts that have just been made.
LEMMA NewPosts ==
  ASSUME NEW group, NEW posts, posts = Posts(group)
  PROVE  /\ \A i \in DOMAIN posts : DOMAIN posts[i] = {"keys", "tries", "res"} /\ posts[i].res = Waiting
         /\ \A keys : group = <<keys>> => posts = <<posts[1]>> /\ posts[1].keys = keys
<1>1. posts = [i \in DOMAIN group |-> [keys |-> group[i], tries |-> 1, res |-> Waiting]]
  BY DEF Posts
<1>2. \A i \in DOMAIN posts : DOMAIN posts[i] = {"keys", "tries", "res"} /\ posts[i].res = Waiting
  BY <1>1
<1>3. ASSUME NEW keys, group = <<keys>>
      PROVE  posts = <<posts[1]>> /\ posts[1].keys = keys
  <2>1. DOMAIN posts = {1} /\ posts[1].keys = keys
    BY <1>1, <1>3
  <2>2. posts = [i \in 1 .. 1 |-> posts[1]]
    BY <1>1, <1>3
  <2> QED BY <2>1, <2>2
<1> QED BY <1>2, <1>3

\* A request that begins to ask p in a mode stands as it should.
LEMMA BeginSound ==
  ASSUME NEW r, DOMAIN r = Fields, r.at = "busy", r.kind \in DOMAIN ModesOf, r.to \in Nat,
         \A p \in Providers : r.seen[p] \in Nat /\ r.seen[p] <= tips[p],
         NEW p \in Askable, NEW mode \in ModesOf[r.kind],
         mode \in HeaderModes => r.from = Synced + 1 /\ Synced < r.to,
         p = "backup" => Unfit("primary", r),
         mode \in {"hash", "retry"} => \A x \in Askable : health[x] = "flaky",
         NEW s, s = Begin(r, p, mode)
  PROVE  ReqSound(s)
<1> DEFINE g == Groups(mode, r.from, r.to)
<1>1. /\ DOMAIN s = Fields /\ s.at = "busy" /\ s.kind = r.kind /\ s.from = r.from /\ s.to = r.to
      /\ s.prov = p /\ s.mode = mode /\ s.groups = g /\ s.posts = Posts(g[1]) /\ s.out = <<>>
      /\ s.seen = r.seen
  <2>1. s = [r EXCEPT !.prov = p, !.mode = mode, !.groups = g, !.posts = Posts(g[1]), !.out = <<>>]
    BY DEF Begin
  <2> HIDE DEF g
  <2> QED BY <2>1 DEF Fields
<1>2. ReqShape(s)
  BY <1>1 DEF ReqShape
<1>3. Tried(s)
  BY <1>1 DEF Tried, Unfit
<1>4. mode \in HeaderModes \cup RawModes \cup Plain
  BY Modes
<1>5. mode \notin SideBySide => Sound1(g)
  <2>1. CASE mode = "single"
    BY <2>1, SingleGroups DEF HeaderModes
  <2>2. CASE mode \in RawModes
    BY <2>2, RawGroupsSound
  <2>3. CASE mode \in Plain
    BY <2>3, PlainGroups
  <2> QED BY <1>4, <2>1, <2>2, <2>3 DEF HeaderModes, SideBySide
<1>6. mode = "single" => \A k \in DOMAIN g : g[k][1][1] \in Synced .. r.to
  BY SingleGroups DEF HeaderModes
<1>7. mode \in RawModes => RawsAt(s, 1) /\ 1 \in 1 .. Len(RawGroups(mode))
  <2> SUFFICES ASSUME mode \in RawModes
               PROVE  RawsAt(s, 1) /\ 1 \in 1 .. Len(RawGroups(mode))
    OBVIOUS
  <2> DEFINE n == Len(RawGroups(mode))
  <2>1. g = RawGroups(mode)
    BY RawGroupsSound
  <2>2. n \in Nat /\ n >= 1 /\ Cut(mode, 0) = 0
    BY CutsAreBatches
  <2>3. SubSeq(Hashes, 1, 0) = <<>>
    BY SubSeqEmpty
  <2>4. 1 - 1 = 0 /\ n - 1 + 1 = n /\ (\A j \in 1 .. n : 1 + j - 1 = j) /\ 1 \in 1 .. n
    <3> HIDE DEF n
    <3> QED BY <2>2
  <2> HIDE DEF g
  <2>5. Len(s.groups) = n /\ \A j \in 1 .. Len(s.groups) : s.groups[j] = RawGroups(s.mode)[1 + j - 1]
    BY <1>1, <2>1, <2>4
  <2>6. s.out = SubSeq(Hashes, 1, Cut(s.mode, 1 - 1))
    BY <1>1, <2>2, <2>3, <2>4
  <2> QED BY <1>1, <2>4, <2>5, <2>6 DEF RawsAt
<1>8. mode \notin HeaderModes \cup RawModes => Len(g) = 1
  BY <1>4, PlainGroups
<1> HIDE DEF g
<1>9. GroupsSound(s)
  BY <1>1, <1>5, <1>6, <1>7, <1>8 DEF GroupsSound, Sound1
<1>10. PostsSound(s)
  <2>1. \A i \in DOMAIN s.posts : DOMAIN s.posts[i] = {"keys", "tries", "res"} /\ s.posts[i].res = Waiting
    BY <1>1, NewPosts
  <2>2. mode \notin SideBySide => s.posts = <<s.posts[1]>> /\ s.posts[1].keys = s.groups[1][1]
    <3> SUFFICES ASSUME mode \notin SideBySide
                 PROVE  s.posts = <<s.posts[1]>> /\ s.posts[1].keys = s.groups[1][1]
      OBVIOUS
    <3>1. 1 \in DOMAIN g
      BY <1>5 DEF Sound1
    <3>2. g[1] = <<g[1][1]>>
      BY <1>5, <3>1 DEF Sound1
    <3> DEFINE group == g[1]
               keys == g[1][1]
    <3>3. group = <<keys>> /\ s.posts = Posts(group) /\ s.groups[1][1] = keys
      BY <1>1, <3>2
    <3> HIDE DEF group, keys
    <3>4. s.posts = <<s.posts[1]>> /\ s.posts[1].keys = keys
      BY ONLY <3>3, NewPosts
    <3> QED BY <3>3, <3>4
  <2> QED BY <1>1, <2>1, <2>2 DEF PostsSound, Ended
<1> QED BY <1>1, <1>2, <1>3, <1>9, <1>10 DEF ReqSound

-----------------------------------------------------------------------------
(* A post ends. *)

LEMMA Results ==
  /\ Fail.st = "fail" /\ Waiting.st = "wait"
  /\ \A v : Got(v).st = "ok" /\ Got(v).vals = v /\ Got(v) # Fail /\ Got(v) # Waiting
BY DEF Fail, Waiting, Got

\* What a provider has is an answer to a single call, but for a block it has not got.
LEMMA ServedIsAnswer ==
  ASSUME tips \in [Providers -> Nat], NEW p \in Providers, NEW mode \in Plain \cup {"single", "one_by_one"}, NEW key,
         mode = "one_by_one" => key # Null, NEW v, v = Serve(p, mode, key)
  PROVE  /\ mode = "single" \/ FromCall(mode, key, v).st = "ok"
         /\ mode = "single" /\ key <= tips[p] => FromCall(mode, key, v).st = "ok"
         /\ mode = "number" => v[1] \in Nat
<1>1. CASE mode = "number"
  <2>1. v = <<tips[p], p>>
    BY <1>1 DEF Serve
  <2>2. v # Null /\ v[1] \in Nat
    BY <2>1 DEF Null
  <2> QED BY <1>1, <2>2, Results DEF FromCall
<1>2. CASE mode = "single"
  <2>1. key <= tips[p] => v = <<key, p>> /\ v # Null
    BY <1>2 DEF Serve, Null
  <2> QED BY <1>2, <2>1, Results DEF FromCall
<1>3. CASE mode = "one_by_one"
  <2>1. v = key
    BY <1>3 DEF Serve
  <2> QED BY <1>3, <2>1, Results DEF FromCall, CheckRawTx
<1>4. CASE mode \in Plain /\ mode # "number"
  <2>1. v = <<0, p>> /\ v # Null
    BY <1>4 DEF Serve, Plain, Null
  <2> QED BY <1>4, <2>1, Results DEF FromCall, Plain
<1> QED BY <1>1, <1>2, <1>3, <1>4

\* What a single call can end with.
LEMMA CallEnds ==
  ASSUME NEW mode \in Plain \cup {"single", "one_by_one"}, NEW key, NEW v
  PROVE  \/ FromCall(mode, key, v) = Fail
         \/ /\ FromCall(mode, key, v).st = "ok"
            /\ mode = "number" => FromCall(mode, key, v).vals = <<v>> /\ v # Null
            /\ mode = "one_by_one" => FromCall(mode, key, v).vals = <<key>>
<1>1. CASE mode \in {"number", "send", "single"}
  BY <1>1, Results DEF FromCall
<1>2. CASE mode = "one_by_one"
  <2>1. FromCall(mode, key, v) = IF v = Null \/ ~CheckRawTx(v, key) THEN Fail ELSE Got(<<v>>)
    BY <1>2 DEF FromCall
  <2>2. CASE v = Null \/ ~CheckRawTx(v, key)
    BY <2>1, <2>2
  <2>3. CASE v = key /\ v # Null
    <3>1. FromCall(mode, key, v) = Got(<<key>>)
      BY <2>1, <2>3 DEF CheckRawTx
    <3>2. Got(<<key>>).st = "ok" /\ Got(<<key>>).vals = <<key>>
      BY Results
    <3> QED BY <1>2, <3>1, <3>2
  <2> QED BY <2>2, <2>3 DEF CheckRawTx
<1>3. CASE mode \in {"hashes", "receipts", "by_number", "hash", "retry"}
  <2>1. \/ FromCall(mode, key, v) = Fail \/ FromCall(mode, key, v).st = "ok"
    BY <1>3, Results DEF FromCall
  <2> QED BY <1>3, <2>1
<1> QED BY <1>1, <1>2, <1>3 DEF Plain

LEMMA JudgedCall ==
  ASSUME Shapes, NEW r, ReqShape(r), NEW keys, r.mode \notin Batches,
         r.mode = "single" => keys[1] \in Synced .. r.to,
         r.mode = "one_by_one" => keys = <<keys[1]>> /\ keys[1] # Null,
         NEW reply \in CallReplies(r.prov, r.mode, keys[1])
  PROVE  Ended(r, keys, Judged(r.mode, keys, reply))
<1> DEFINE p == r.prov
           mode == r.mode
           key == keys[1]
           v == Serve(p, mode, key)
           res == Judged(mode, keys, reply)
           Says(x) == reply = Reply(<<Item(1, x)>>)
<1>1. /\ p \in Providers /\ mode \in Plain \cup {"single", "one_by_one"} /\ r.kind \in DOMAIN ModesOf
      /\ mode \in ModesOf[r.kind] /\ tips \in [Providers -> Nat]
  <2>1. r.kind \in DOMAIN ModesOf /\ mode \in ModesOf[r.kind] /\ p \in Providers
    BY DEF ReqShape, Askable
  <2>2. mode \in HeaderModes \cup RawModes \cup Plain
    BY <2>1, Modes
  <2> QED BY <2>1, <2>2 DEF HeaderModes, RawModes, Batches, Shapes
<1>2. ASSUME NEW x, Says(x)
      PROVE  res = FromCall(mode, key, x)
  <2>1. reply.how = "json" /\ reply.items[1].val = x
    <3>1. reply.how = "json" /\ reply.items = <<Item(1, x)>>
      BY <1>2 DEF Reply
    <3>2. Item(1, x).val = x
      BY DEF Item
    <3> QED BY <3>1, <3>2
  <2>2. mode # "batched" /\ mode \notin Batches
    BY DEF Batches
  <2> QED BY <2>1, <2>2 DEF Judged
<1>3. reply.how # "json" => res = Fail
  BY DEF Judged
<1>4. /\ Says(v) \/ Says(Null) \/ reply.how # "json"
      /\ Says(v) \/ mode = "hash" \/ health[p] = "flaky"
  <2>1. Lost.how # "json" /\ Bad.how # "json" /\ Unsupported.how # "json"
    BY DEF Lost, Bad, Unsupported
  <2>2. CASE mode = "hash"
    <3>1. reply \in {Reply(<<Item(1, v)>>)} \cup {Unsupported}
      BY <2>2 DEF CallReplies
    <3> HIDE DEF v
    <3> QED BY <2>1, <2>2, <3>1
  <2>3. CASE mode # "hash" /\ health[p] # "flaky"
    <3>1. reply \in {Reply(<<Item(1, v)>>)}
      BY <2>3 DEF CallReplies
    <3> HIDE DEF v
    <3> QED BY <3>1
  <2>4. CASE mode # "hash" /\ health[p] = "flaky"
    <3>1. reply \in {Reply(<<Item(1, v)>>)} \cup {Lost, Bad, Unsupported, Reply(<<Item(1, Null)>>)}
      BY <2>4 DEF CallReplies
    <3> HIDE DEF v
    <3> QED BY <2>1, <2>4, <3>1
  <2> QED BY <2>2, <2>3, <2>4
<1>5. ASSUME Says(v)
      PROVE  Ended(r, keys, res)
  <2>1. res = FromCall(mode, key, v)
    BY <1>2, <1>5
  <2>2. /\ mode = "single" \/ res.st = "ok"
        /\ mode = "single" /\ key <= tips[p] => res.st = "ok"
        /\ mode = "number" => v[1] \in Nat
    <3>1. (mode = "one_by_one" => key # Null) /\ v = Serve(p, mode, key)
      OBVIOUS
    <3> HIDE DEF p, mode, key, v, res
    <3> QED BY ONLY <1>1, <2>1, <3>1, ServedIsAnswer
  <2>3. \/ res = Fail
        \/ /\ res.st = "ok"
           /\ mode = "number" => res.vals = <<v>>
           /\ mode = "one_by_one" => res.vals = <<key>>
    BY <1>1, <2>1, CallEnds
  <2> HIDE DEF v, res
  <2>4. CASE res = Fail
    <3>1. mode = "single" /\ ~(key <= tips[p])
      BY <2>2, <2>4, Results
    <3>2. r.kind = "sync" /\ r.seen[p] < r.to
      <4>1. r.kind = "sync"
        BY <1>1, <3>1, Modes DEF HeaderModes
      <4>2. r.seen[p] \in Nat /\ r.seen[p] <= tips[p] /\ r.to \in Nat /\ tips[p] \in Nat /\ key \in Synced .. r.to
        BY <1>1, <3>1 DEF ReqShape
      <4>3. r.seen[p] < r.to
        <5> HIDE DEF key, p
        <5> QED BY <3>1, <4>2, ConstantTypes
      <4> QED BY <4>1, <4>3
    <3> QED BY <2>4, <3>2 DEF Ended, Unfit
  <2>5. CASE res # Fail
    <3>1. mode = "number" => res.vals = <<res.vals[1]>> /\ res.vals[1][1] \in Nat
      BY <2>2, <2>3, <2>5
    <3>2. mode \in RawModes => res.vals = keys
      BY <1>1, <2>3, <2>5 DEF RawModes, Plain
    <3> QED BY <2>3, <2>5, <3>1, <3>2 DEF Ended
  <2> QED BY <2>4, <2>5
<1>6. ASSUME ~Says(v)
      PROVE  Ended(r, keys, res)
  <2>1. mode = "hash" \/ health[p] = "flaky"
    BY <1>4, <1>6
  <2>2. res = Fail \/ (Says(Null) /\ res = FromCall(mode, key, Null))
    BY <1>2, <1>3, <1>4, <1>6
  <2> HIDE DEF res
  <2>3. \/ res = Fail
        \/ res.st = "ok" /\ mode # "number" /\ (mode = "one_by_one" => res.vals = <<key>>)
    BY <1>1, <2>2, CallEnds
  <2>4. CASE res = Fail
    BY <2>1, <2>4 DEF Ended, Unfit
  <2>5. CASE res # Fail
    <3>1. mode \in RawModes => res.vals = keys
      BY <1>1, <2>3, <2>5 DEF RawModes, Plain
    <3> QED BY <2>3, <2>5, <3>1 DEF Ended
  <2> QED BY <2>4, <2>5
<1> QED BY <1>5, <1>6


\* A function on 1 .. n for some n.
Listed(s) == s \in Seq(Range(s))

LEMMA ListOf ==
  ASSUME NEW n \in Nat, NEW f, f = [i \in 1 .. n |-> f[i]]
  PROVE  Listed(f) /\ Len(f) = n
<1>1. f \in [1 .. n -> Range(f)]
  <2>1. DOMAIN f = 1 .. n
    OBVIOUS
  <2>2. \A i \in 1 .. n : f[i] \in Range(f)
    BY <2>1 DEF Range
  <2> QED BY <2>2
<1> QED BY <1>1 DEF Listed

LEMMA ListedIs ==
  ASSUME NEW s, Listed(s)
  PROVE  Len(s) \in Nat /\ DOMAIN s = 1 .. Len(s) /\ s = [i \in 1 .. Len(s) |-> s[i]]
<1> DEFINE S == Range(s)
<1>1. s \in Seq(S)
  BY DEF Listed
<1> HIDE DEF S
<1> QED BY <1>1

\* Whatever a provider makes of a batch, it is a list.
LEMMA DamagedAreLists ==
  ASSUME NEW items, Listed(items), Len(items) >= 1, NEW mode, NEW s \in Damaged(items, mode)
  PROVE  Listed(s)
<1> DEFINE n == Len(items)
<1>1. n \in Nat /\ n >= 1 /\ DOMAIN items = 1 .. n /\ items = [i \in 1 .. n |-> items[i]]
  BY ListedIs
<1>2. CASE s = Front(items)
  <2> DEFINE S == Range(items)
             m == n - 1
  <2>1. items \in Seq(S)
    BY DEF Listed
  <2>2. s = SubSeq(items, 1, m)
    BY <1>2 DEF Front
  <2>3. m \in Nat /\ \A i \in 1 .. m : items[i] \in S
    <3>1. m \in Nat /\ \A i \in 1 .. m : i \in 1 .. n
      BY <1>1
    <3>2. \A i \in 1 .. n : items[i] \in S
      BY <1>1 DEF Range
    <3> QED BY <3>1, <3>2
  <2> HIDE DEF S, m, n
  <2>4. s \in Seq(S)
    BY <2>2, <2>3
  <2>5. Len(s) \in Nat /\ s = [i \in 1 .. Len(s) |-> s[i]]
    BY <2>4
  <2> QED BY <2>5, ListOf
<1>3. CASE s = [items EXCEPT ![1] = items[n]]
  <2> HIDE DEF n
  <2>1. s = [i \in 1 .. n |-> s[i]]
    BY <1>1, <1>3
  <2> QED BY <1>1, <2>1, ListOf
<1>4. CASE s = [items EXCEPT ![n].err = TRUE]
  <2> HIDE DEF n
  <2>1. s = [i \in 1 .. n |-> s[i]]
    BY <1>1, <1>4
  <2> QED BY <1>1, <2>1, ListOf
<1>5. CASE s = [items EXCEPT ![1].id = MaxTip + 1]
  <2> HIDE DEF n
  <2>1. s = [i \in 1 .. n |-> s[i]]
    BY <1>1, <1>5
  <2> QED BY <1>1, <2>1, ListOf
<1>6. CASE s = [items EXCEPT ![n].val = Null]
  <2> HIDE DEF n
  <2>1. s = [i \in 1 .. n |-> s[i]]
    BY <1>1, <1>6
  <2> QED BY <1>1, <2>1, ListOf
<1>7. CASE s = [i \in 1 .. n |-> Item(items[i].id, items[n + 1 - i].val)]
  <2> HIDE DEF n
  <2>1. s = [i \in 1 .. n |-> s[i]]
    BY <1>7
  <2> QED BY <1>1, <2>1, ListOf
<1> QED BY <1>2, <1>3, <1>4, <1>5, <1>6, <1>7 DEF Damaged

LEMMA BatchRepliesAreLists ==
  ASSUME NEW p, NEW mode, NEW keys, Listed(keys), Len(keys) >= 1, NEW reply \in BatchReplies(p, mode, keys)
  PROVE  reply.how = "json" => Listed(reply.items)
<1> DEFINE Asked(i) == Item(IF mode = "batched" THEN i - 1 ELSE keys[i], Serve(p, mode, keys[i]))
           items == [i \in DOMAIN keys |-> Asked(i)]
           n == Len(keys)
<1>1. n \in Nat /\ n >= 1 /\ DOMAIN keys = 1 .. n
  BY ListedIs
<1>2. Listed(items) /\ Len(items) = n /\ DOMAIN items = 1 .. n
  <2> HIDE DEF Asked, n
  <2>1. items = [i \in 1 .. n |-> items[i]]
    BY <1>1
  <2> QED BY <1>1, <2>1, ListOf
<1>3. ASSUME NEW s \in Orders(items)
      PROVE  Listed(s)
  <2>1. PICK perm : s = [i \in DOMAIN items |-> items[perm[i]]]
    BY <1>3 DEF Orders
  <2> HIDE DEF items, n
  <2>2. s = [i \in 1 .. n |-> s[i]]
    BY <1>2, <2>1
  <2> QED BY <1>1, <2>2, ListOf
<1>4. ASSUME NEW s \in Damaged(items, mode)
      PROVE  Listed(s)
  <2> HIDE DEF items
  <2> QED BY <1>1, <1>2, <1>4, DamagedAreLists
<1>5. \/ reply \in {Lost, Bad}
      \/ \E s \in Orders(items) \cup Damaged(items, mode) : reply = Reply(s)
  <2>1. reply \in {Reply(s) : s \in Orders(items)} \cup {Lost, Bad} \cup {Reply(s) : s \in Damaged(items, mode)}
    <3>1. CASE health[p] = "good"
      BY <3>1 DEF BatchReplies
    <3>2. CASE health[p] = "nobatch"
      BY <3>2 DEF BatchReplies
    <3>3. CASE health[p] # "good" /\ health[p] # "nobatch"
      BY <3>3 DEF BatchReplies
    <3> QED BY <3>1, <3>2, <3>3
  <2> HIDE DEF items
  <2> QED BY <2>1
<1> HIDE DEF items
<1>6. CASE reply \in {Lost, Bad}
  BY <1>6 DEF Lost, Bad
<1>7. ASSUME NEW s \in Orders(items) \cup Damaged(items, mode), reply = Reply(s)
      PROVE  Listed(reply.items)
  <2>1. reply.items = s
    BY <1>7 DEF Reply
  <2> QED BY <1>3, <1>4, <1>7, <2>1
<1> QED BY <1>5, <1>6, <1>7

LEMMA JudgedBatch ==
  ASSUME NEW r, r.mode \in Batches, NEW keys, r.mode = "batched" => Listed(keys) /\ Len(keys) >= 1,
         NEW reply \in BatchReplies(r.prov, r.mode, keys)
  PROVE  Ended(r, keys, Judged(r.mode, keys, reply))
<1> DEFINE res == Judged(r.mode, keys, reply)
           items == reply.items
<1> SUFFICES Ended(r, keys, res)
  OBVIOUS
<1>1. CASE res = Fail
  BY <1>1 DEF Ended
<1>2. CASE res # Fail /\ r.mode = "batched"
  <2>1. reply.how = "json" /\ res = RawsFromBatch(items, keys)
    BY <1>2 DEF Judged
  <2>2. /\ Len(items) = Len(keys) /\ \A i \in DOMAIN keys : CheckRawTx(ById(items)[i], keys[i])
        /\ res = Got(ById(items))
    <3> HIDE DEF res
    <3> QED BY <1>2, <2>1 DEF RawsFromBatch
  <2> DEFINE vals == ById(items)
  <2>3. Listed(items)
    BY <1>2, <2>1, BatchRepliesAreLists
  <2>4. vals = [i \in DOMAIN items |-> vals[i]]
    BY DEF ById
  <2>5. DOMAIN items = DOMAIN keys /\ keys = [i \in DOMAIN keys |-> keys[i]]
    <3> HIDE DEF items
    <3> QED BY <1>2, <2>2, <2>3, ListedIs
  <2>6. vals = keys
    <3>1. \A i \in DOMAIN keys : vals[i] = keys[i]
      BY <2>2 DEF CheckRawTx
    <3> HIDE DEF vals, items
    <3> QED BY <2>4, <2>5, <3>1
  <2> HIDE DEF vals
  <2>7. res.st = "ok" /\ res.vals = keys
    <3> HIDE DEF res
    <3> QED BY <2>2, <2>6, Results DEF vals
  <2> HIDE DEF res
  <2> QED BY <1>2, <2>7 DEF Ended
<1>3. CASE res # Fail /\ r.mode # "batched"
  <2>1. res = HeadersFromBatch(items, keys[1], keys[Len(keys)])
    BY <1>3 DEF Judged
  <2>2. res = Got(ById(items))
    <3> HIDE DEF res
    <3> QED BY <1>3, <2>1 DEF HeadersFromBatch
  <2>3. res.st = "ok"
    BY <2>2, Results
  <2> HIDE DEF res
  <2> QED BY <1>3, <2>3 DEF Ended, Batches, RawModes
<1> QED BY <1>1, <1>2, <1>3


\* What a request for raw transactions asks for next.
LEMMA RawKeys ==
  ASSUME NEW r, r.mode \in RawModes, NEW k \in 1 .. Len(RawGroups(r.mode)), RawsAt(r, k), NEW keys, keys = r.groups[1][1]
  PROVE  /\ keys = SubSeq(Hashes, Cut(r.mode, k - 1) + 1, Cut(r.mode, k))
         /\ Listed(keys) /\ Len(keys) >= 1
         /\ r.mode = "one_by_one" => keys = <<keys[1]>> /\ keys[1] # Null
<1> DEFINE mode == r.mode
           n == Len(RawGroups(mode))
           a == Cut(mode, k - 1)
           b == Cut(mode, k)
           x == SubSeq(Hashes, a + 1, b)
<1>1. /\ n \in Nat /\ n >= 1 /\ a \in Nat /\ b \in Nat /\ a < b /\ b <= TxCount
      /\ RawGroups(mode)[k] = <<x>>
      /\ mode = "one_by_one" => n = TxCount /\ RawGroups(mode)[k] = <<<<Hashes[k]>>>>
  <2>1. mode \in RawModes /\ n = Len(RawGroups(mode)) /\ k \in 1 .. n
    OBVIOUS
  <2> HIDE DEF mode, n
  <2>2. n \in Nat /\ n >= 1
    BY ONLY <2>1, CutsAreBatches
  <2>3. \A j \in 1 .. n : /\ Cut(mode, j - 1) \in Nat /\ Cut(mode, j) \in Nat
                          /\ Cut(mode, j - 1) < Cut(mode, j) /\ Cut(mode, j) <= TxCount
    BY ONLY <2>1, CutsAreBatches
  <2>4. \A j \in 1 .. n : RawGroups(mode)[j] = <<SubSeq(Hashes, Cut(mode, j - 1) + 1, Cut(mode, j))>>
    BY ONLY <2>1, CutsAreBatches
  <2>5. mode = "one_by_one" => n = TxCount /\ \A j \in 1 .. n : RawGroups(mode)[j] = <<<<Hashes[j]>>>>
    <3>1. mode = "one_by_one" => n = TxCount
      BY ONLY <2>1, CutsAreBatches
    <3>2. mode = "one_by_one" => RawGroups(mode) = [j \in 1 .. TxCount |-> <<<<Hashes[j]>>>>]
      BY HashesFacts DEF RawGroups, Groups
    <3> QED BY <3>1, <3>2
  <2> QED BY <2>1, <2>2, <2>3, <2>4, <2>5, Zenon
<1>2. r.groups[1] = RawGroups(mode)[k]
  <2>1. Len(r.groups) = n - k + 1 /\ \A j \in 1 .. Len(r.groups) : r.groups[j] = RawGroups(mode)[k + j - 1]
    BY DEF RawsAt
  <2>2. 1 \in 1 .. n - k + 1 /\ k + 1 - 1 = k
    <3>1. n \in Nat /\ k \in 1 .. n
      BY <1>1
    <3> HIDE DEF n
    <3> QED BY <3>1
  <2>3. r.groups[1] = RawGroups(mode)[k + 1 - 1]
    BY <2>1, <2>2
  <2> QED BY <2>2, <2>3
<1> HIDE DEF a, b, n
<1>3. keys = x
  <2> HIDE DEF x, mode
  <2> QED BY <1>1, <1>2
<1>4. Listed(x) /\ Len(x) >= 1
  <2> DEFINE S == {<<i>> : i \in Nat}
             m == b - a
  <2>1. \A i \in a + 1 .. b : Hashes[i] \in S
    BY <1>1, HashesFacts, ConstantTypes
  <2>2. m \in Nat /\ m >= 1 /\ a + 1 <= b /\ b - (a + 1) + 1 = m
    BY <1>1
  <2> HIDE DEF S
  <2>3. x \in Seq(S) /\ Len(x) = m
    BY <1>1, <2>1, <2>2
  <2> HIDE DEF x, m
  <2>4. x = [i \in 1 .. m |-> x[i]]
    BY <2>2, <2>3
  <2> QED BY <2>2, <2>4, ListOf
<1>5. mode = "one_by_one" => keys = <<keys[1]>> /\ keys[1] # Null
  <2> SUFFICES ASSUME mode = "one_by_one"
               PROVE  keys = <<keys[1]>> /\ keys[1] # Null
    OBVIOUS
  <2> DEFINE h == Hashes[k]
  <2>1. h # Null
    <3>1. k \in 1 .. TxCount
      BY <1>1 DEF n
    <3> QED BY <3>1, HashesFacts
  <2>2. r.groups[1] = <<<<h>>>>
    BY <1>1, <1>2
  <2> HIDE DEF h
  <2>3. keys = <<h>>
    BY <2>2
  <2> QED BY <2>1, <2>3
<1> HIDE DEF x
<1>6. Listed(keys) /\ Len(keys) >= 1
  BY <1>3, <1>4, Zenon
<1> QED BY <1>3, <1>5, <1>6 DEF x, a, b

\* The keys of a post of r are ones that its way of asking can answer.
LEMMA PostKeys ==
  ASSUME NEW r, ReqShape(r), GroupsSound(r), PostsSound(r), NEW i \in DOMAIN r.posts, NEW keys, keys = r.posts[i].keys
  PROVE  /\ r.mode = "single" => keys[1] \in Synced .. r.to
         /\ r.mode = "one_by_one" => keys = <<keys[1]>> /\ keys[1] # Null
         /\ r.mode = "batched" => Listed(keys) /\ Len(keys) >= 1
<1>1. r.mode \notin SideBySide => keys = r.groups[1][1]
  <2> SUFFICES ASSUME r.mode \notin SideBySide
               PROVE  keys = r.groups[1][1]
    OBVIOUS
  <2>1. r.posts = <<r.posts[1]>> /\ r.posts[1].keys = r.groups[1][1]
    BY DEF PostsSound
  <2>2. DOMAIN r.posts = {1}
    <3> DEFINE y == r.posts[1]
               t == r.posts
    <3>1. t = <<y>>
      BY <2>1
    <3> HIDE DEF y, t
    <3>2. DOMAIN t = {1}
      BY <3>1
    <3> QED BY <3>2 DEF t
  <2>3. i = 1
    BY <2>2
  <2> QED BY <2>1, <2>3
<1>2. r.mode = "single" => keys[1] \in Synced .. r.to
  <2> SUFFICES ASSUME r.mode = "single"
               PROVE  keys[1] \in Synced .. r.to
    OBVIOUS
  <2>1. r.groups \in Seq(Range(r.groups)) /\ r.groups # <<>>
    BY DEF GroupsSound, SideBySide
  <2>2. 1 \in DOMAIN r.groups
    <3> DEFINE g == r.groups
               S == Range(r.groups)
    <3>1. g \in Seq(S) /\ g # <<>>
      BY <2>1
    <3> HIDE DEF g, S
    <3>2. 1 \in DOMAIN g
      BY <3>1
    <3> QED BY <3>2 DEF g
  <2>3. r.groups[1][1][1] \in Synced .. r.to
    BY <2>2 DEF GroupsSound
  <2> QED BY <1>1, <2>3 DEF SideBySide
<1>3. ASSUME r.mode \in RawModes
      PROVE  /\ r.mode = "one_by_one" => keys = <<keys[1]>> /\ keys[1] # Null
             /\ Listed(keys) /\ Len(keys) >= 1
  <2>1. PICK k \in 1 .. Len(RawGroups(r.mode)) : RawsAt(r, k)
    BY <1>3 DEF GroupsSound
  <2>2. keys = r.groups[1][1]
    BY <1>1, <1>3 DEF RawModes, SideBySide
  <2> QED BY ONLY <1>3, <2>1, <2>2, RawKeys
<1> QED BY <1>2, <1>3 DEF RawModes

\* A reply leaves a request as it should be.
LEMMA ReceiveSound ==
  ASSUME Shapes, NEW r, ReqSound(r), r.at = "busy", NEW i \in DOMAIN r.posts, NEW keys, keys = r.posts[i].keys, NEW reply,
         r.mode \in Batches => reply \in BatchReplies(r.prov, r.mode, keys),
         r.mode \notin Batches => reply \in CallReplies(r.prov, r.mode, keys[1]),
         NEW s, NEW u,
         s = [r EXCEPT !.posts[i] = Posted(r.mode, r.posts[i], reply), !.unsupported = u]
  PROVE  ReqSound(s)
<1> DEFINE post == r.posts[i]
           new == Posted(r.mode, post, reply)
           res == Judged(r.mode, keys, reply)
<1>1. ReqShape(r) /\ Tried(r) /\ GroupsSound(r) /\ PostsSound(r)
  BY DEF ReqSound
<1>2. Ended(r, keys, res)
  <2>1. /\ r.mode = "single" => keys[1] \in Synced .. r.to
        /\ r.mode = "one_by_one" => keys = <<keys[1]>> /\ keys[1] # Null
        /\ r.mode = "batched" => Listed(keys) /\ Len(keys) >= 1
    BY ONLY <1>1, i \in DOMAIN r.posts, keys = r.posts[i].keys, PostKeys
  <2>2. CASE r.mode \in Batches
    BY <2>1, <2>2, JudgedBatch
  <2>3. CASE r.mode \notin Batches
    BY <1>1, <2>1, <2>3, JudgedCall
  <2> QED BY <2>2, <2>3
<1>3. DOMAIN post = {"keys", "tries", "res"} /\ Ended(r, post.keys, post.res)
  BY <1>1 DEF PostsSound
<1>4. DOMAIN new = {"keys", "tries", "res"} /\ new.keys = keys /\ Ended(r, keys, new.res)
  <2>1. new = [post EXCEPT !.tries = @ + 1] \/ new = [post EXCEPT !.res = res]
    BY DEF Posted
  <2> HIDE DEF new, res
  <2>2. post.keys = keys
    OBVIOUS
  <2> HIDE DEF post
  <2>3. CASE new = [post EXCEPT !.tries = @ + 1]
    <3>1. DOMAIN new = {"keys", "tries", "res"} /\ new.keys = keys /\ new.res = post.res
      BY <1>3, <2>2, <2>3
    <3> QED BY <1>3, <2>2, <3>1
  <2>4. CASE new = [post EXCEPT !.res = res]
    <3>1. DOMAIN new = {"keys", "tries", "res"} /\ new.keys = keys /\ new.res = res
      BY <1>3, <2>2, <2>4
    <3> QED BY <1>2, <3>1
  <2> QED BY <2>1, <2>3, <2>4
<1>5. DOMAIN r = Fields
  BY <1>1 DEF ReqShape
<1>6. /\ DOMAIN s = Fields /\ s.at = r.at /\ s.kind = r.kind /\ s.from = r.from /\ s.to = r.to /\ s.prov = r.prov
      /\ s.mode = r.mode /\ s.groups = r.groups /\ s.out = r.out /\ s.seen = r.seen
      /\ s.posts = [r.posts EXCEPT ![i] = new]
  <2> HIDE DEF new
  <2>1. s = [r EXCEPT !.posts[i] = new, !.unsupported = u]
    BY DEF new, post
  <2> QED BY <1>5, <2>1 DEF Fields
<1> HIDE DEF new, post
<1>7. ReqShape(s)
  BY <1>1, <1>6 DEF ReqShape
<1>8. Tried(s)
  BY <1>1, <1>6 DEF Tried, Unfit
<1>9. GroupsSound(s)
  BY <1>1, <1>6 DEF GroupsSound, RawsAt
<1>10. \A x, y : Ended(r, x, y) => Ended(s, x, y)
  BY <1>6 DEF Ended, Unfit
<1>11. DOMAIN s.posts = DOMAIN r.posts /\ \A j \in DOMAIN r.posts : s.posts[j] = IF j = i THEN new ELSE r.posts[j]
  BY <1>6
<1>12. \A j \in DOMAIN s.posts : DOMAIN s.posts[j] = {"keys", "tries", "res"} /\ Ended(s, s.posts[j].keys, s.posts[j].res)
  <2> SUFFICES ASSUME NEW j \in DOMAIN r.posts
               PROVE  DOMAIN s.posts[j] = {"keys", "tries", "res"} /\ Ended(s, s.posts[j].keys, s.posts[j].res)
    BY <1>11
  <2>1. CASE j = i
    <3>1. s.posts[j] = new
      BY <1>11, <2>1
    <3> QED BY <1>4, <1>10, <3>1
  <2>2. CASE j # i
    <3>1. s.posts[j] = r.posts[j]
      BY <1>11, <2>2
    <3>2. DOMAIN r.posts[j] = {"keys", "tries", "res"} /\ Ended(r, r.posts[j].keys, r.posts[j].res)
      BY <1>1 DEF PostsSound
    <3> QED BY <1>10, <3>1, <3>2
  <2> QED BY <2>1, <2>2
<1>13. s.mode \notin SideBySide => s.posts = <<s.posts[1]>> /\ s.posts[1].keys = s.groups[1][1]
  <2> SUFFICES ASSUME r.mode \notin SideBySide
               PROVE  s.posts = <<s.posts[1]>> /\ s.posts[1].keys = r.groups[1][1]
    BY <1>6
  <2> DEFINE t == r.posts
             w == s.posts
             z == r.posts[1]
             g == r.groups[1][1]
  <2>1. t = <<z>> /\ z.keys = g
    BY <1>1 DEF PostsSound
  <2>2. i \in DOMAIN t /\ w = [t EXCEPT ![i] = new] /\ keys = t[i].keys
    BY <1>6
  <2> HIDE DEF t, w, z, g
  <2>3. i = 1 /\ w = <<new>> /\ keys = g
    BY <2>1, <2>2
  <2>4. w = <<w[1]>> /\ w[1].keys = g
    BY <1>4, <2>3
  <2> QED BY <2>4 DEF w, g
<1>14. PostsSound(s)
  BY <1>12, <1>13 DEF PostsSound
<1> QED BY <1>6, <1>7, <1>8, <1>9, <1>14 DEF ReqSound


-----------------------------------------------------------------------------
(* A group has ended. *)

LEMMA AnswerFacts ==
  ASSUME NEW r, DOMAIN r = Fields, NEW res, NEW s, s = Answer(r, res)
  PROVE  /\ DOMAIN s = Fields /\ s.at = "done" /\ s.kind = r.kind /\ s.from = r.from /\ s.to = r.to /\ s.prov = r.prov
         /\ s.mode = r.mode /\ s.seen = r.seen /\ s.answer = res
BY DEF Answer, Fields

\* A request that is answered stands as it should.
LEMMA AnswerKeeps ==
  ASSUME NEW r, ReqShape(r), NEW res, res = Fail => \A p \in Askable : Unfit(p, r),
         r.kind = "raws" /\ res.st = "ok" => res.vals = Hashes, NEW s, s = Answer(r, res)
  PROVE  ReqSound(s)
<1>1. DOMAIN r = Fields
  BY DEF ReqShape
<1>2. /\ DOMAIN s = Fields /\ s.at = "done" /\ s.kind = r.kind /\ s.from = r.from /\ s.to = r.to /\ s.prov = r.prov
      /\ s.mode = r.mode /\ s.seen = r.seen /\ s.answer = res
  BY <1>1, AnswerFacts
<1>3. ReqShape(s)
  BY <1>2 DEF ReqShape
<1>4. AnswerSound(s)
  BY <1>2 DEF AnswerSound, Unfit
<1> QED BY <1>2, <1>3, <1>4 DEF ReqSound

\* A request one of whose posts has failed goes on as it should.
LEMMA FailedSound ==
  ASSUME Shapes, NEW r, ReqSound(r), r.at = "busy", NEW i \in DOMAIN r.posts, r.posts[i].res = Fail, NEW s, s = Failed(r)
  PROVE  ReqSound(s)
<1>1. ReqShape(r) /\ Tried(r) /\ PostsSound(r)
  BY DEF ReqSound
<1>2. /\ DOMAIN r = Fields /\ r.kind \in DOMAIN ModesOf /\ r.to \in Nat /\ r.prov \in Askable /\ r.mode \in ModesOf[r.kind]
      /\ r.mode \in HeaderModes => r.from = Synced + 1 /\ Synced < r.to
      /\ \A p \in Providers : r.seen[p] \in Nat /\ r.seen[p] <= tips[p]
  BY <1>1 DEF ReqShape
<1>3. /\ r.prov = "backup" => Unfit("primary", r)
      /\ r.mode \in {"hash", "retry"} => \A p \in Askable : health[p] = "flaky"
  BY <1>1 DEF Tried
<1>4. r.mode \notin Batches => Unfit(r.prov, r)
  <2>1. Ended(r, r.posts[i].keys, Fail)
    BY <1>1 DEF PostsSound
  <2>2. Fail # Waiting /\ Fail.st # "ok"
    BY Results
  <2>3. r.mode \notin Batches \cup {"hash"} => Unfit(r.prov, r)
    BY <2>1, <2>2 DEF Ended
  <2>4. r.mode = "hash" => Unfit(r.prov, r)
    BY <1>2, <1>3 DEF Unfit
  <2> QED BY <2>3, <2>4
<1>5. /\ r.mode \in HeaderModes \cup RawModes \cup Plain
      /\ r.kind = "sync" <=> r.mode \in {"number"} \cup HeaderModes
      /\ r.kind = "raws" <=> r.mode \in {"hashes"} \cup RawModes
      /\ r.kind = "proof" <=> r.mode \in {"by_number", "hash", "retry"}
  BY <1>2, Modes
<1>6. r.mode \notin Batches /\ ~(r.prov = "primary" /\ backup) => \A p \in Askable : Unfit(p, r)
  <2> SUFFICES ASSUME r.mode \notin Batches, ~(r.prov = "primary" /\ backup), NEW p \in Askable
               PROVE  Unfit(p, r)
    OBVIOUS
  <2>1. p \in {"primary", "backup"} /\ r.prov \in {"primary", "backup"} /\ (p = "backup" => backup)
    BY <1>2 DEF Askable, Providers
  <2>2. CASE r.prov = "backup"
    BY <1>3, <1>4, <2>1, <2>2
  <2>3. CASE r.prov = "primary"
    BY <1>4, <2>1, <2>3
  <2> QED BY <2>1, <2>2, <2>3
<1>7. "primary" \in Askable /\ (backup => "backup" \in Askable)
  BY DEF Askable, Providers
<1>8. DOMAIN Slower = Batches
  BY DEF Slower, Batches
<1>9. CASE r.mode \in DOMAIN Slower
  <2> DEFINE mode == Slower[r.mode]
  <2>1. /\ mode \in ModesOf[r.kind] /\ (mode \in HeaderModes => r.mode \in HeaderModes)
        /\ mode \notin {"hash", "retry"}
    <3>1. CASE r.mode = "parallel"
      <4>1. mode = "serial" /\ r.kind = "sync"
        BY <1>5, <3>1 DEF Slower, HeaderModes
      <4> QED BY <3>1, <4>1 DEF ModesOf, HeaderModes
    <3>2. CASE r.mode = "serial"
      <4>1. mode = "single" /\ r.kind = "sync"
        BY <1>5, <3>2 DEF Slower, HeaderModes
      <4> QED BY <3>2, <4>1 DEF ModesOf, HeaderModes
    <3>3. CASE r.mode = "batched"
      <4>1. mode = "one_by_one" /\ r.kind = "raws"
        BY <1>5, <3>3 DEF Slower, RawModes
      <4> QED BY <3>3, <4>1 DEF ModesOf, HeaderModes, RawModes
    <3> QED BY <1>8, <1>9, <3>1, <3>2, <3>3 DEF Batches
  <2>2. s = Begin(r, r.prov, mode)
    BY <1>9 DEF Failed
  <2> HIDE DEF mode
  <2> QED BY <1>2, <1>3, <2>1, <2>2, BeginSound
<1>10. CASE r.mode \notin Batches /\ r.prov = "primary" /\ backup
  <2> DEFINE mode == FirstMode(r)
  <2>1. /\ mode \in ModesOf[r.kind] /\ (mode \in HeaderModes => r.mode \in HeaderModes)
        /\ mode \in {"hash", "retry"} => r.mode \in {"hash", "retry"}
    <3>1. CASE r.mode \in HeaderModes
      <4>1. mode = "parallel" /\ r.kind = "sync"
        BY <1>5, <3>1 DEF FirstMode, HeaderModes
      <4> QED BY <3>1, <4>1 DEF ModesOf, HeaderModes
    <3>2. CASE r.mode \in {"hashes"} \cup RawModes
      <4>1. mode = "hashes" /\ r.kind = "raws"
        BY <1>5, <3>2 DEF FirstMode, HeaderModes, RawModes
      <4> QED BY <3>2, <4>1 DEF ModesOf, HeaderModes
    <3>3. CASE r.mode \notin HeaderModes /\ r.mode \notin {"hashes"} \cup RawModes
      <4>1. mode = r.mode
        BY <3>3 DEF FirstMode, HeaderModes, RawModes
      <4> QED BY <1>2, <4>1
    <3> QED BY <3>1, <3>2, <3>3
  <2>2. s = Begin(r, "backup", mode)
    BY <1>8, <1>10 DEF Failed
  <2> HIDE DEF mode
  <2>3. Unfit("primary", r)
    BY <1>4, <1>10
  <2> QED BY <1>2, <1>3, <1>7, <1>10, <2>1, <2>2, <2>3, BeginSound
<1>11. CASE r.mode \notin Batches /\ ~(r.prov = "primary" /\ backup) /\ r.mode \in {"by_number", "hash"}
  <2>1. r.kind = "proof"
    BY <1>5, <1>11
  <2>2. \A p \in Askable : health[p] = "flaky"
    BY <1>6, <1>11, <2>1 DEF Unfit
  <2>3. PICK mode \in {"hash", "retry"} : s = Begin(r, "primary", mode)
    BY <1>8, <1>11 DEF Failed
  <2>4. mode \in ModesOf[r.kind] /\ mode \notin HeaderModes
    BY <2>1, <2>3 DEF ModesOf, HeaderModes
  <2> QED BY <1>2, <1>7, <2>2, <2>3, <2>4, BeginSound
<1>12. CASE r.mode \notin Batches /\ ~(r.prov = "primary" /\ backup) /\ r.mode \notin {"by_number", "hash"}
  <2>1. s = Answer(r, Fail)
    BY <1>8, <1>12 DEF Failed
  <2>2. Fail.st # "ok"
    BY Results
  <2> QED BY <1>1, <1>6, <1>12, <2>1, <2>2, AnswerKeeps
<1> QED BY <1>8, <1>9, <1>10, <1>11, <1>12

\* A request all of whose groups have been answered goes on as it should.
LEMMA CompleteSound ==
  ASSUME Shapes, NEW r, ReqShape(r), Tried(r), r.at = "busy", r.mode = "number" => r.out[1][1] \in Nat,
         r.mode \in RawModes => r.out = Hashes, NEW s, s = Complete(r)
  PROVE  ReqSound(s)
<1>1. /\ DOMAIN r = Fields /\ r.kind \in DOMAIN ModesOf /\ r.to \in Nat /\ r.prov \in Askable /\ r.mode \in ModesOf[r.kind]
      /\ r.mode \in HeaderModes => r.from = Synced + 1 /\ Synced < r.to
      /\ \A p \in Providers : r.seen[p] \in Nat /\ r.seen[p] <= tips[p]
  BY DEF ReqShape
<1>2. r.prov = "backup" => Unfit("primary", r)
  BY DEF Tried
<1>3. /\ r.kind = "sync" <=> r.mode \in {"number"} \cup HeaderModes
      /\ r.kind = "raws" <=> r.mode \in {"hashes"} \cup RawModes
  BY <1>1, Modes
<1>4. "primary" \in Askable
  BY DEF Askable, Providers
<1>5. CASE r.mode = "number"
  <2> DEFINE h == r.out[1][1]
  <2>1. h \in Nat /\ r.kind = "sync"
    BY <1>3, <1>5
  <2>2. CASE h <= Synced
    <3> DEFINE q == [r EXCEPT !.to = h]
    <3>1. s = Answer(q, Got(<<>>))
      BY <1>5, <2>2 DEF Complete
    <3> HIDE DEF h
    <3>2. /\ DOMAIN q = Fields /\ q.at = r.at /\ q.kind = "sync" /\ q.prov = r.prov /\ q.mode = "number" /\ q.seen = r.seen
          /\ q.to = h
      BY <1>1, <1>5, <2>1 DEF Fields
    <3> HIDE DEF q
    <3>3. ReqShape(q)
      <4>1. q.mode \in ModesOf[q.kind] /\ q.mode \notin HeaderModes /\ q.kind \in DOMAIN ModesOf
        BY <3>2 DEF ModesOf, HeaderModes
      <4> QED BY <1>1, <2>1, <3>2, <4>1 DEF ReqShape
    <3>4. Got(<<>>) # Fail
      BY Results
    <3> QED BY <3>1, <3>2, <3>3, <3>4, AnswerKeeps
  <2>3. CASE ~(h <= Synced)
    <3> DEFINE q == [r EXCEPT !.from = Synced + 1, !.to = h]
    <3>1. s = Begin(q, "primary", "parallel")
      BY <1>5, <2>3 DEF Complete
    <3> HIDE DEF h
    <3>2. /\ DOMAIN q = Fields /\ q.at = "busy" /\ q.kind = "sync" /\ q.seen = r.seen /\ q.to = h /\ q.from = Synced + 1
      BY <1>1, <1>5, <2>1 DEF Fields
    <3> HIDE DEF q
    <3>3. Synced < q.to /\ q.to \in Nat
      BY <2>1, <2>3, <3>2, ConstantTypes
    <3>4. "parallel" \in ModesOf[q.kind] /\ q.kind \in DOMAIN ModesOf
      BY <3>2 DEF ModesOf, HeaderModes
    <3> QED BY <1>1, <1>4, <3>1, <3>2, <3>3, <3>4, BeginSound
  <2> QED BY <2>2, <2>3
<1>6. CASE r.mode = "hashes"
  <2>1. s = Begin(r, r.prov, "batched")
    BY <1>6 DEF Complete
  <2>2. "batched" \in ModesOf[r.kind] /\ "batched" \notin HeaderModes
    BY <1>3, <1>6 DEF ModesOf, HeaderModes, RawModes
  <2> QED BY <1>1, <1>2, <2>1, <2>2, BeginSound
<1>7. CASE r.mode \notin {"number", "hashes"}
  <2>1. s = Answer(r, Got(r.out))
    BY <1>7 DEF Complete
  <2>2. Got(r.out) # Fail /\ Got(r.out).vals = r.out
    BY Results
  <2>3. r.kind = "raws" => r.out = Hashes
    BY <1>3, <1>7
  <2> QED BY <2>1, <2>2, <2>3, AnswerKeeps
<1> QED BY <1>5, <1>6, <1>7


LEMMA TailFacts ==
  ASSUME NEW g, g \in Seq(Range(g)), g # <<>>, NEW t, t = Tail(g)
  PROVE  /\ Len(g) \in Nat /\ Len(g) >= 1 /\ DOMAIN g = 1 .. Len(g)
         /\ t \in Seq(Range(t)) /\ Len(t) = Len(g) - 1 /\ DOMAIN t = 1 .. Len(t)
         /\ \A j \in 1 .. Len(t) : t[j] = g[j + 1] /\ j + 1 \in 1 .. Len(g)
         /\ t = <<>> <=> Len(g) = 1
<1> DEFINE S == Range(g)
           n == Len(g)
           m == n - 1
<1>1. g \in Seq(S)
  OBVIOUS
<1> HIDE DEF S
<1>2. n \in Nat /\ n >= 1 /\ DOMAIN g = 1 .. n
  BY <1>1
<1>3. t \in Seq(S) /\ Len(t) = n - 1 /\ \A j \in 1 .. Len(t) : t[j] = g[j + 1]
  BY <1>1
<1> HIDE DEF n
<1>4. m \in Nat /\ DOMAIN t = 1 .. m /\ t = [j \in 1 .. m |-> t[j]] /\ Len(t) = m
  <2>1. m \in Nat /\ Len(t) = m
    BY <1>2, <1>3
  <2>2. t \in Seq(S)
    BY <1>3
  <2>3. DOMAIN t = 1 .. Len(t) /\ t = [j \in 1 .. Len(t) |-> t[j]]
    BY ONLY <2>2
  <2> HIDE DEF m
  <2> QED BY <2>1, <2>3, Zenon
<1>5. Listed(t)
  <2> HIDE DEF m
  <2> QED BY <1>4, ListOf
<1>6. t = <<>> <=> Len(g) = 1
  <2>1. t = <<>> => Len(t) = 0
    OBVIOUS
  <2>2. Len(t) = 0 => t = <<>>
    <3>1. t \in Seq(S)
      BY <1>3
    <3> QED BY ONLY <3>1, EmptySeq
  <2>3. Len(t) = 0 <=> n = 1
    <3> DEFINE y == Len(t)
    <3>1. y = n - 1
      BY <1>3
    <3> HIDE DEF y
    <3>2. y = 0 <=> n = 1
      BY <1>2, <3>1
    <3> QED BY <3>2 DEF y
  <2> QED BY <2>1, <2>2, <2>3 DEF n
<1>7. \A j \in 1 .. Len(t) : j + 1 \in 1 .. n
  BY <1>2, <1>3
<1> QED BY <1>2, <1>3, <1>4, <1>5, <1>6, <1>7 DEF n, m, Listed

\* What a group of one post adds to the results.
LEMMA JoinedOne ==
  ASSUME NEW r, r.posts = <<r.posts[1]>>
  PROVE  Joined(r) = r.out \o r.posts[1].res.vals
<1> DEFINE t == r.posts
           z == r.posts[1]
           v == z.res.vals
<1>1. t = <<z>>
  OBVIOUS
<1>2. [i \in DOMAIN t |-> t[i].res.vals] = <<v>>
  <2> DEFINE f == [i \in DOMAIN t |-> t[i].res.vals]
  <2> HIDE DEF t, z
  <2>1. DOMAIN t = 1 .. 1 /\ t[1] = z
    BY <1>1
  <2>2. DOMAIN f = 1 .. 1 /\ f[1] = v
    BY <2>1
  <2>3. f = [i \in 1 .. 1 |-> v]
    BY <2>1
  <2> QED BY <2>3
<1>3. FlattenSeq([i \in DOMAIN t |-> t[i].res.vals]) = v
  <2> HIDE DEF t, v
  <2> QED BY <1>2, FlattenOne
<1> QED BY <1>3 DEF Joined

\* The results of the first k groups, once the k-th has been joined.
LEMMA RawsJoined ==
  ASSUME NEW r, r.mode \in RawModes, NEW k \in 1 .. Len(RawGroups(r.mode)), RawsAt(r, k),
         r.posts = <<r.posts[1]>>, r.posts[1].res.vals = r.groups[1][1]
  PROVE  Joined(r) = SubSeq(Hashes, 1, Cut(r.mode, k))
<1> DEFINE mode == r.mode
           n == Len(RawGroups(mode))
           a == Cut(mode, k - 1)
           b == Cut(mode, k)
           keys == r.groups[1][1]
<1>1. a \in Nat /\ b \in Nat /\ a < b /\ b <= TxCount
  <2>1. mode \in RawModes /\ n = Len(RawGroups(mode)) /\ k \in 1 .. n
    OBVIOUS
  <2> HIDE DEF mode, n
  <2>2. \A j \in 1 .. n : /\ Cut(mode, j - 1) \in Nat /\ Cut(mode, j) \in Nat
                          /\ Cut(mode, j - 1) < Cut(mode, j) /\ Cut(mode, j) <= TxCount
    BY ONLY <2>1, CutsAreBatches
  <2> QED BY <2>1, <2>2, Zenon
<1>2. keys = SubSeq(Hashes, a + 1, b)
  BY RawKeys
<1>3. r.out = SubSeq(Hashes, 1, a)
  BY DEF RawsAt
<1>4. Joined(r) = r.out \o keys
  BY JoinedOne
<1>5. SubSeq(Hashes, 1, a) \o SubSeq(Hashes, a + 1, b) = SubSeq(Hashes, 1, b)
  <2> HIDE DEF a, b
  <2>1. a <= b
    BY <1>1
  <2> QED BY <1>1, <2>1, HashesJoin
<1> HIDE DEF a, b, keys
<1>6. Joined(r) = SubSeq(Hashes, 1, b)
  BY <1>2, <1>3, <1>4, <1>5, Zenon
<1> QED BY <1>6 DEF b

LEMMA AllHashes == SubSeq(Hashes, 1, TxCount) = Hashes
<1> DEFINE S == {<<i>> : i \in Nat}
           x == SubSeq(Hashes, 1, TxCount)
<1>1. Hashes \in Seq(S) /\ Len(Hashes) = TxCount
  BY HashesFacts
<1>2. \A i \in 1 .. TxCount : Hashes[i] \in S
  BY HashesFacts, ConstantTypes
<1> HIDE DEF S
<1>3. x \in Seq(S) /\ Len(x) = TxCount /\ \A i \in 1 .. TxCount : x[i] = Hashes[i]
  BY <1>2, ConstantTypes
<1> HIDE DEF x
<1>4. x = Hashes
  BY <1>1, <1>3, SeqEqual
<1> QED BY <1>4 DEF x

\* r with its first group's results, and where it goes from there.
Taken(r) == [r EXCEPT !.out = Joined(r), !.groups = Tail(@)]

Onward(q) == IF q.groups = <<>> THEN Complete(q) ELSE [q EXCEPT !.posts = Posts(q.groups[1])]

AllAnswered(r) == \A i \in DOMAIN r.posts : r.posts[i].res # Waiting /\ r.posts[i].res # Fail

\* A request all of whose posts have been answered goes on as it should.
LEMMA JoinSound ==
  ASSUME Shapes, NEW r, ReqSound(r), r.at = "busy",
         AllAnswered(r),
         NEW q, q = Taken(r), NEW s, s = Onward(q)
  PROVE  ReqSound(s)
<1> DEFINE mode == r.mode
           g == r.groups
           t == Tail(r.groups)
           out == Joined(r)
           v == r.posts[1].res.vals
<1>1. ReqShape(r) /\ Tried(r) /\ GroupsSound(r) /\ PostsSound(r)
  BY DEF ReqSound
<1>2. DOMAIN r = Fields /\ r.kind \in DOMAIN ModesOf /\ mode \in ModesOf[r.kind]
  BY <1>1 DEF ReqShape
<1>3. /\ DOMAIN q = Fields /\ q.at = "busy" /\ q.kind = r.kind /\ q.from = r.from /\ q.to = r.to /\ q.prov = r.prov
      /\ q.mode = mode /\ q.groups = t /\ q.out = out /\ q.seen = r.seen
  <2> HIDE DEF out
  <2>1. q = [r EXCEPT !.out = out, !.groups = t]
    BY DEF out, Taken
  <2> QED BY <1>2, <2>1 DEF Fields
<1>4. ReqShape(q) /\ Tried(q)
  BY <1>1, <1>3 DEF ReqShape, Tried, Unfit
<1>5. mode \in HeaderModes \cup RawModes \cup Plain
  BY <1>2, Modes
<1>6. mode \notin SideBySide => /\ g \in Seq(Range(g)) /\ g # <<>> /\ \A k \in DOMAIN g : g[k] = <<g[k][1]>>
                                /\ r.posts = <<r.posts[1]>> /\ r.posts[1].keys = g[1][1] /\ 1 \in DOMAIN r.posts
  <2> SUFFICES ASSUME mode \notin SideBySide
               PROVE  /\ g \in Seq(Range(g)) /\ g # <<>> /\ \A k \in DOMAIN g : g[k] = <<g[k][1]>>
                      /\ r.posts = <<r.posts[1]>> /\ r.posts[1].keys = g[1][1] /\ 1 \in DOMAIN r.posts
    OBVIOUS
  <2>1. g \in Seq(Range(g)) /\ g # <<>> /\ \A k \in DOMAIN g : g[k] = <<g[k][1]>>
    BY <1>1 DEF GroupsSound
  <2>2. r.posts = <<r.posts[1]>> /\ r.posts[1].keys = g[1][1]
    BY <1>1 DEF PostsSound
  <2>3. 1 \in DOMAIN r.posts
    <3> DEFINE x == r.posts
               z == r.posts[1]
    <3>1. x = <<z>>
      BY <2>2
    <3> HIDE DEF x, z
    <3>2. 1 \in DOMAIN x
      BY <3>1
    <3> QED BY <3>2 DEF x
  <2> QED BY <2>1, <2>2, <2>3
<1>7. mode \notin SideBySide => /\ (mode = "number" => v = <<v[1]>> /\ v[1][1] \in Nat)
                                /\ (mode \in RawModes => v = g[1][1])
  <2> SUFFICES ASSUME mode \notin SideBySide
               PROVE  /\ (mode = "number" => v = <<v[1]>> /\ v[1][1] \in Nat)
                      /\ (mode \in RawModes => v = g[1][1])
    OBVIOUS
  <2>1. Ended(r, g[1][1], r.posts[1].res) /\ r.posts[1].res # Waiting /\ r.posts[1].res # Fail
    BY <1>1, <1>6 DEF PostsSound, AllAnswered
  <2> QED BY <2>1 DEF Ended
<1>8. CASE t = <<>>
  <2>1. s = Complete(q)
    BY <1>3, <1>8 DEF Onward
  <2>2. mode = "number" => out[1][1] \in Nat
    <3> SUFFICES ASSUME mode = "number"
                 PROVE  out[1][1] \in Nat
      OBVIOUS
    <3>1. mode \notin SideBySide /\ mode \notin HeaderModes \cup RawModes
      BY DEF SideBySide, HeaderModes, RawModes
    <3>2. out = <<>> \o v
      <4>1. r.out = <<>>
        BY <1>1, <3>1 DEF GroupsSound
      <4> QED BY <1>6, <3>1, <4>1, JoinedOne
    <3>3. v = <<v[1]>> /\ v[1][1] \in Nat
      BY <1>7, <3>1
    <3> DEFINE w == v[1]
    <3>4. v = <<w>> /\ w[1] \in Nat
      BY <3>3
    <3> HIDE DEF v, w, out
    <3>5. out = <<w>>
      BY <3>2, <3>4
    <3> QED BY <3>4, <3>5
  <2>3. mode \in RawModes => out = Hashes
    <3> SUFFICES ASSUME mode \in RawModes
                 PROVE  out = Hashes
      OBVIOUS
    <3>1. mode \notin SideBySide
      BY DEF SideBySide, RawModes
    <3>2. PICK k \in 1 .. Len(RawGroups(mode)) : RawsAt(r, k)
      BY <1>1 DEF GroupsSound
    <3> DEFINE n == Len(RawGroups(mode))
    <3>3. n \in Nat /\ Cut(mode, n) = TxCount
      <4>1. mode \in RawModes /\ n = Len(RawGroups(mode))
        OBVIOUS
      <4> HIDE DEF mode, n
      <4> QED BY ONLY <4>1, CutsAreBatches
    <3>4. Len(g) = 1
      <4> HIDE DEF g
      <4>1. g \in Seq(Range(g)) /\ g # <<>> /\ Tail(g) = <<>>
        BY <1>6, <1>8, <3>1 DEF g
      <4> QED BY ONLY <4>1, TailFacts
    <3>5. Len(g) = n - k + 1
      BY <3>2 DEF RawsAt
    <3>6. k = n
      <4>1. k \in 1 .. n /\ n \in Nat /\ 1 = n - k + 1
        BY <3>2, <3>3, <3>4, <3>5
      <4> HIDE DEF n
      <4> QED BY ONLY <4>1
    <3>7. out = SubSeq(Hashes, 1, Cut(mode, k))
      BY <1>6, <1>7, <3>1, <3>2, RawsJoined
    <3> HIDE DEF out, n, mode
    <3> QED BY <3>3, <3>6, <3>7, AllHashes
  <2> QED BY <1>3, <1>4, <2>1, <2>2, <2>3, CompleteSound
<1>9. CASE t # <<>>
  <2>1. s = [q EXCEPT !.posts = Posts(t[1])]
    BY <1>3, <1>9 DEF Onward
  <2>2. /\ DOMAIN s = Fields /\ s.at = "busy" /\ s.kind = r.kind /\ s.from = r.from /\ s.to = r.to /\ s.prov = r.prov
        /\ s.mode = mode /\ s.groups = t /\ s.out = out /\ s.seen = r.seen /\ s.posts = Posts(t[1])
    <3> HIDE DEF t, out, mode
    <3> QED BY <1>3, <2>1 DEF Fields
  <2>3. ReqShape(s) /\ Tried(s)
    BY <1>1, <2>2 DEF ReqShape, Tried, Unfit
  <2>4. ASSUME mode \notin SideBySide
        PROVE  /\ Len(g) \in Nat /\ Len(g) >= 2 /\ DOMAIN g = 1 .. Len(g)
               /\ t \in Seq(Range(t)) /\ Len(t) = Len(g) - 1 /\ DOMAIN t = 1 .. Len(t) /\ 1 \in DOMAIN t
               /\ \A j \in 1 .. Len(t) : t[j] = g[j + 1] /\ j + 1 \in 1 .. Len(g)
    <3>1. g \in Seq(Range(g)) /\ g # <<>>
      BY <1>6, <2>4
    <3>2. t = Tail(g)
      OBVIOUS
    <3> HIDE DEF g, t
    <3>3. /\ Len(g) \in Nat /\ Len(g) >= 1 /\ DOMAIN g = 1 .. Len(g)
          /\ t \in Seq(Range(t)) /\ Len(t) = Len(g) - 1 /\ DOMAIN t = 1 .. Len(t)
          /\ \A j \in 1 .. Len(t) : t[j] = g[j + 1] /\ j + 1 \in 1 .. Len(g)
          /\ t = <<>> <=> Len(g) = 1
      <4>1. Len(g) \in Nat /\ Len(g) >= 1 /\ DOMAIN g = 1 .. Len(g)
        BY ONLY <3>1, <3>2, TailFacts
      <4>2. t \in Seq(Range(t)) /\ Len(t) = Len(g) - 1 /\ DOMAIN t = 1 .. Len(t)
        BY ONLY <3>1, <3>2, TailFacts
      <4>3. \A j \in 1 .. Len(t) : t[j] = g[j + 1] /\ j + 1 \in 1 .. Len(g)
        BY ONLY <3>1, <3>2, TailFacts
      <4>4. t = <<>> <=> Len(g) = 1
        BY ONLY <3>1, <3>2, TailFacts
      <4> QED BY <4>1, <4>2, <4>3, <4>4
    <3>4. Len(g) >= 2 /\ 1 \in 1 .. Len(t)
      BY <1>9, <3>3
    <3> QED BY <3>3, <3>4
  <2>5. mode \notin SideBySide => \A k \in DOMAIN t : t[k] = <<t[k][1]>>
    BY <1>6, <2>4
  <2>6. mode = "single" => \A k \in DOMAIN t : t[k][1][1] \in Synced .. r.to
    <3> SUFFICES ASSUME mode = "single", NEW k \in DOMAIN t
                 PROVE  t[k][1][1] \in Synced .. r.to
      OBVIOUS
    <3>1. t[k] = g[k + 1] /\ k + 1 \in DOMAIN g
      BY <2>4 DEF SideBySide
    <3>2. g[k + 1][1][1] \in Synced .. r.to
      BY <1>1, <3>1 DEF GroupsSound
    <3> QED BY <3>1, <3>2
  <2>7. mode \in RawModes => \E k \in 1 .. Len(RawGroups(mode)) : RawsAt(s, k)
    <3> SUFFICES ASSUME mode \in RawModes
                 PROVE  \E k \in 1 .. Len(RawGroups(mode)) : RawsAt(s, k)
      OBVIOUS
    <3>1. mode \notin SideBySide
      BY DEF SideBySide, RawModes
    <3>2. PICK k \in 1 .. Len(RawGroups(mode)) : RawsAt(r, k)
      BY <1>1 DEF GroupsSound
    <3> DEFINE n == Len(RawGroups(mode))
               c == k + 1
    <3>3. n \in Nat
      <4>1. mode \in RawModes /\ n = Len(RawGroups(mode))
        OBVIOUS
      <4> HIDE DEF mode, n
      <4> QED BY ONLY <4>1, CutsAreBatches
    <3>4. Len(g) = n - k + 1 /\ \A j \in 1 .. Len(g) : g[j] = RawGroups(mode)[k + j - 1]
      BY <3>2 DEF RawsAt
    <3>5. c \in 1 .. n /\ Len(t) = n - c + 1 /\ c - 1 = k /\ k \in Nat
      <4> DEFINE x == Len(g)
                 y == Len(t)
      <4>1. k \in 1 .. n /\ x \in Nat /\ x >= 2 /\ y = x - 1 /\ x = n - k + 1
        BY <2>4, <3>1, <3>2, <3>4
      <4> HIDE DEF n, x, y
      <4>2. c \in 1 .. n /\ y = n - c + 1 /\ c - 1 = k /\ k \in Nat
        BY <3>3, <4>1
      <4> QED BY <4>2 DEF y
    <3>6. \A j \in 1 .. Len(t) : t[j] = RawGroups(mode)[c + j - 1]
      <4> SUFFICES ASSUME NEW j \in 1 .. Len(t)
                   PROVE  t[j] = RawGroups(mode)[c + j - 1]
        OBVIOUS
      <4>1. t[j] = g[j + 1] /\ j + 1 \in 1 .. Len(g)
        BY <2>4, <3>1
      <4>2. g[j + 1] = RawGroups(mode)[k + (j + 1) - 1]
        BY <3>4, <4>1
      <4>3. j \in Nat
        BY <2>4, <3>1
      <4>4. k + (j + 1) - 1 = c + j - 1
        BY <3>5, <4>3
      <4> HIDE DEF g, t, c, mode
      <4> QED BY <4>1, <4>2, <4>4, Zenon
    <3>7. out = SubSeq(Hashes, 1, Cut(mode, k))
      BY <1>6, <1>7, <3>1, <3>2, RawsJoined
    <3>8. out = SubSeq(Hashes, 1, Cut(mode, c - 1))
      <4> HIDE DEF out, mode, c
      <4> QED BY <3>5, <3>7
    <3>9. RawsAt(s, c)
      <4> HIDE DEF t, out, c, mode
      <4> QED BY <2>2, <3>5, <3>6, <3>8 DEF RawsAt, n
    <3> QED BY <3>5, <3>9
  <2>8. mode \in HeaderModes \cup RawModes
    <3> SUFFICES ASSUME mode \notin HeaderModes \cup RawModes
                 PROVE  FALSE
      OBVIOUS
    <3>1. Len(g) = 1
      BY <1>1 DEF GroupsSound
    <3>2. Len(g) >= 2
      BY <2>4 DEF SideBySide, HeaderModes
    <3> HIDE DEF g
    <3> QED BY <3>1, <3>2
  <2> HIDE DEF t, out, mode, g
  <2>9. GroupsSound(s)
    <3>1. mode \notin SideBySide => t \in Seq(Range(t)) /\ t # <<>>
      BY <1>9, <2>4
    <3> QED BY <2>2, <2>5, <2>6, <2>7, <2>8, <3>1 DEF GroupsSound
  <2>10. PostsSound(s)
    <3>1. \A i \in DOMAIN s.posts : DOMAIN s.posts[i] = {"keys", "tries", "res"} /\ s.posts[i].res = Waiting
      <4> DEFINE group == t[1]
      <4>1. s.posts = Posts(group)
        BY <2>2
      <4> HIDE DEF group
      <4> QED BY ONLY <4>1, NewPosts
    <3>2. mode \notin SideBySide => s.posts = <<s.posts[1]>> /\ s.posts[1].keys = s.groups[1][1]
      <4> SUFFICES ASSUME mode \notin SideBySide
                   PROVE  s.posts = <<s.posts[1]>> /\ s.posts[1].keys = s.groups[1][1]
        OBVIOUS
      <4> DEFINE group == t[1]
                 keys == t[1][1]
      <4>1. group = <<keys>> /\ s.posts = Posts(group) /\ s.groups[1][1] = keys
        BY <2>2, <2>4, <2>5
      <4> HIDE DEF group, keys
      <4>2. s.posts = <<s.posts[1]>> /\ s.posts[1].keys = keys
        BY ONLY <4>1, NewPosts
      <4> QED BY <4>1, <4>2
    <3> QED BY <2>2, <3>1, <3>2 DEF PostsSound, Ended
  <2> QED BY <2>2, <2>3, <2>9, <2>10 DEF ReqSound
<1> QED BY <1>8, <1>9


-----------------------------------------------------------------------------
(* The theorems. *)

LEMMA AskSound ==
  ASSUME Shapes, NEW kind \in DOMAIN FirstOf, Ask(kind)
  PROVE  ReqSound(req')
<1> DEFINE mode == FirstOf[kind]
           r == [at |-> "busy", kind |-> kind, from |-> 1, to |-> 0, prov |-> "primary", mode |-> mode,
                 groups |-> <<>>, posts |-> <<>>, out |-> <<>>, unsupported |-> FALSE, answer |-> Waiting, seen |-> tips]
<1>1. req' = Begin(r, "primary", mode)
  BY DEF Ask
<1>2. kind \in DOMAIN ModesOf /\ mode \in ModesOf[kind] /\ mode \notin HeaderModes /\ mode \notin {"hash", "retry"}
  <2>1. kind \in {"sync", "raws", "receipts", "proof", "send"}
    BY DEF FirstOf
  <2> QED BY <2>1 DEF FirstOf, ModesOf, HeaderModes
<1> HIDE DEF mode
<1>3. DOMAIN r = Fields /\ r.at = "busy" /\ r.kind = kind /\ r.to = 0 /\ r.seen = tips
  BY DEF Fields
<1> HIDE DEF r
<1>4. \A p \in Providers : r.seen[p] \in Nat /\ r.seen[p] <= tips[p]
  BY <1>3 DEF Shapes
<1>5. "primary" \in Askable /\ r.to \in Nat
  BY <1>3 DEF Askable, Providers
<1> QED BY <1>1, <1>2, <1>3, <1>4, <1>5, BeginSound

LEMMA EndSound ==
  ASSUME Shapes, ReqSound(req), req.at = "busy", End
  PROVE  ReqSound(req')
<1>1. PICK i \in DOMAIN req.posts : \E reply \in Replies(req.posts[i].keys) : Receive(i, reply)
  BY DEF End
<1> DEFINE keys == req.posts[i].keys
<1>2. PICK reply \in Replies(keys) : Receive(i, reply)
  BY <1>1
<1> DEFINE u == req.unsupported \/ (reply.how = "unsupported" /\ req.mode = "by_number")
<1>3. req' = [req EXCEPT !.posts[i] = Posted(req.mode, req.posts[i], reply), !.unsupported = u]
  BY <1>2 DEF Receive
<1>4. /\ req.mode \in Batches => reply \in BatchReplies(req.prov, req.mode, keys)
      /\ req.mode \notin Batches => reply \in CallReplies(req.prov, req.mode, keys[1])
  BY <1>2 DEF Replies
<1>5. keys = req.posts[i].keys
  OBVIOUS
<1> DEFINE s == req'
<1>6. s = [req EXCEPT !.posts[i] = Posted(req.mode, req.posts[i], reply), !.unsupported = u]
  BY <1>3
<1> HIDE DEF u, keys, s
<1>7. ReqSound(s)
  BY ONLY Shapes, ReqSound(req), req.at = "busy", i \in DOMAIN req.posts, <1>4, <1>5, <1>6, ReceiveSound
<1> QED BY <1>7 DEF s

LEMMA JoinKeeps ==
  ASSUME Shapes, ReqSound(req), Join
  PROVE  ReqSound(req')
<1>1. req.at = "busy" /\ \A i \in DOMAIN req.posts : req.posts[i].res # Waiting
  BY DEF Join
<1>2. CASE \E i \in DOMAIN req.posts : req.posts[i].res = Fail
  <2>1. req' = Failed(req)
    BY <1>2 DEF Join
  <2>2. PICK i \in DOMAIN req.posts : req.posts[i].res = Fail
    BY <1>2
  <2> QED BY <1>1, <2>1, <2>2, FailedSound
<1>3. CASE ~\E i \in DOMAIN req.posts : req.posts[i].res = Fail
  <2>1. req' = Onward(Taken(req))
    BY <1>3 DEF Join, Onward, Taken
  <2>2. AllAnswered(req)
    BY <1>1, <1>3 DEF AllAnswered
  <2> QED BY <1>1, <2>1, <2>2, JoinSound
<1> QED BY <1>2, <1>3

\* Nothing of a request's soundness but the tips can change under it.
LEMMA StillSound ==
  ASSUME ReqSound(req'), UNCHANGED <<backup, health, tips>>
  PROVE  ReqSound(req)'
<1>1. backup' = backup /\ health' = health /\ tips' = tips
  OBVIOUS
<1>2. ReqShape(req)' /\ (Tried(req') => Tried(req)')
  BY <1>1 DEF ReqSound, ReqShape, Tried, Askable, Unfit
<1>3. GroupsSound(req') => GroupsSound(req)'
  BY DEF GroupsSound
<1>4. PostsSound(req') => PostsSound(req)'
  BY <1>1 DEF PostsSound, Ended, Unfit
<1>5. AnswerSound(req') => AnswerSound(req)'
  BY <1>1 DEF AnswerSound, Askable, Unfit
<1> QED BY <1>2, <1>3, <1>4, <1>5 DEF ReqSound

LEMMA GrowKeeps ==
  ASSUME Shapes, ReqSound(req), NEW p \in Providers, Grow(p)
  PROVE  ReqSound(req)' /\ Shapes'
<1>1. tips' = [tips EXCEPT ![p] = @ + 1] /\ backup' = backup /\ health' = health /\ req' = req
  BY DEF Grow
<1>2. tips \in [Providers -> Nat]
  BY DEF Shapes
<1>3. tips' \in [Providers -> Nat] /\ \A x \in Providers : tips[x] <= tips'[x]
  BY <1>1, <1>2
<1>4. ReqShape(req)'
  <2>1. \A x \in Providers : req.seen[x] \in Nat /\ req.seen[x] <= tips[x]
    BY DEF ReqSound, ReqShape
  <2>2. \A x \in Providers : req.seen[x] \in Nat /\ req.seen[x] <= tips'[x]
    BY <1>2, <1>3, <2>1
  <2> QED BY <1>1, <2>2 DEF ReqSound, ReqShape, Askable
<1>5. Tried(req) => Tried(req)'
  BY <1>1 DEF Tried, Askable, Unfit
<1>6. GroupsSound(req) => GroupsSound(req)'
  BY <1>1 DEF GroupsSound, RawsAt
<1>7. PostsSound(req) => PostsSound(req)'
  BY <1>1 DEF PostsSound, Ended, Unfit
<1>8. AnswerSound(req) => AnswerSound(req)'
  BY <1>1 DEF AnswerSound, Askable, Unfit
<1>9. ReqSound(req)'
  BY <1>1, <1>4, <1>5, <1>6, <1>7, <1>8 DEF ReqSound
<1> QED BY <1>1, <1>3, <1>9 DEF Shapes

\* A request stays one whose way of asking, whose remaining groups and whose finished posts
\* account for everything that has failed and everything that has been answered.
THEOREM UpstreamInvariant == Spec => []UpstreamInv
<1>1. Init => UpstreamInv
  <2> SUFFICES ASSUME Init
               PROVE  UpstreamInv
    OBVIOUS
  <2>1. Synced .. MaxTip \subseteq Nat
    BY ConstantTypes
  <2>2. tips \in [Providers -> Nat]
    BY <2>1 DEF Init
  <2> QED BY <2>2 DEF Init, UpstreamInv, Shapes
<1>2. UpstreamInv /\ [Next]_vars => UpstreamInv'
  <2> SUFFICES ASSUME UpstreamInv, [Next]_vars
               PROVE  UpstreamInv'
    OBVIOUS
  <2>1. Shapes /\ (req = Idle \/ ReqSound(req))
    BY DEF UpstreamInv
  <2>2. ASSUME UNCHANGED <<backup, health, tips>>, ReqSound(req')
        PROVE  UpstreamInv'
    <3>1. Shapes'
      BY <2>1, <2>2 DEF Shapes
    <3>2. ReqSound(req)'
      BY <2>2, StillSound
    <3> QED BY <3>1, <3>2 DEF UpstreamInv
  <2>3. Idle.at = "idle"
    BY DEF Idle
  <2>4. ASSUME NEW kind \in DOMAIN FirstOf, Ask(kind)
        PROVE  UpstreamInv'
    <3>1. UNCHANGED <<backup, health, tips>>
      BY <2>4 DEF Ask
    <3> QED BY <2>1, <2>2, <2>4, <3>1, AskSound
  <2>5. CASE Busy
    <3>1. req.at = "busy" /\ (End \/ Join)
      BY <2>5 DEF Busy
    <3>2. ReqSound(req)
      BY <2>1, <2>3, <3>1
    <3>3. CASE End
      <4>1. UNCHANGED <<backup, health, tips>>
        BY <3>3 DEF End, Receive
      <4> QED BY <2>1, <2>2, <3>1, <3>2, <3>3, <4>1, EndSound
    <3>4. CASE Join
      <4>1. UNCHANGED <<backup, health, tips>>
        BY <3>4 DEF Join
      <4> QED BY <2>1, <2>2, <3>2, <3>4, <4>1, JoinKeeps
    <3> QED BY <3>1, <3>3, <3>4
  <2>6. CASE Return
    BY <2>1, <2>6 DEF Return, UpstreamInv, Shapes, Idle
  <2>7. ASSUME NEW p \in Providers, Grow(p)
        PROVE  UpstreamInv'
    <3>1. ReqSound(req)
      BY <2>1, <2>3, <2>7 DEF Grow
    <3> QED BY <2>1, <2>7, <3>1, GrowKeeps DEF UpstreamInv
  <2>8. CASE UNCHANGED vars
    <3>1. backup' = backup /\ health' = health /\ tips' = tips /\ req' = req
      BY <2>8 DEF vars
    <3>2. CASE req = Idle
      BY <2>1, <3>1, <3>2 DEF UpstreamInv, Shapes, Idle
    <3>3. CASE ReqSound(req)
      BY <2>2, <3>1, <3>3
    <3> QED BY <2>1, <3>2, <3>3
  <2> QED BY <2>4, <2>5, <2>6, <2>7, <2>8 DEF Next
<1> QED BY <1>1, <1>2, PTL DEF Spec

\* A request fails only when no provider it may ask could have answered it (headers_range,
\* block_raw_transactions, get_proof_at_safe, fallback).
THEOREM FailsOnlyWithoutHealthy == Spec => []HealthyIsEnough
<1>1. UpstreamInv => HealthyIsEnough
  <2> SUFFICES ASSUME UpstreamInv, req.at = "done", req.answer = Fail, NEW p \in Providers, p = "backup" => backup
               PROVE  health[p] = "flaky" \/ (req.kind = "sync" /\ req.seen[p] < req.to)
    BY DEF HealthyIsEnough
  <2>1. AnswerSound(req)
    BY DEF UpstreamInv, Idle, ReqSound
  <2>2. p \in Askable
    BY DEF Askable
  <2>3. Unfit(p, req)
    BY <2>1, <2>2 DEF AnswerSound
  <2> QED BY <2>3 DEF Unfit
<1> QED BY <1>1, UpstreamInvariant, PTL

\* The raw transactions that are handed on are the block's, in the order of its hashes, in
\* however many batches they came (raw_txs_batched, raw_txs_serial).
THEOREM RawsComeInOrder == Spec => []RawsInOrder
<1>1. UpstreamInv => RawsInOrder
  <2> SUFFICES ASSUME UpstreamInv, req.at = "done", Answered("raws")
               PROVE  req.answer.vals = Hashes
    BY DEF RawsInOrder
  <2>1. AnswerSound(req)
    BY DEF UpstreamInv, Idle, ReqSound
  <2> QED BY <2>1 DEF AnswerSound, Answered
<1> QED BY <1>1, UpstreamInvariant, PTL

-----------------------------------------------------------------------------
(* The headers a sync has in hand. *)

\* The heights from a up to the one below b, and the headers p has for them.
Run(a, b) == [j \in 1 .. b - a |-> a + j - 1]

Header(n, p) == <<n, p>>

HeadersOf(p, a, b) == [j \in 1 .. b - a |-> Header(a + j - 1, p)]

\* p's headers for the heights of a post.
Stamped(p, keys) == [j \in DOMAIN keys |-> Header(keys[j], p)]

\* Where n posts from a up to the one below b begin.
Steps(c, n, a, b) ==
  /\ c \in [1 .. n + 1 -> a .. b] /\ c[1] = a /\ c[n + 1] = b
  /\ \A i \in 1 .. n : c[i] < c[i + 1]
  /\ \A i, j \in 1 .. n + 1 : i <= j => c[i] <= c[j]

\* The posts of a group ask for the heights from a up to the one below b, one after the other.
Row(group, a, b) ==
  \E c \in [1 .. Len(group) + 1 -> a .. b] :
    /\ Steps(c, Len(group), a, b)
    /\ \A i \in 1 .. Len(group) : group[i] = Run(c[i], c[i + 1])

\* So do the groups, and no group has more posts than threads are started.
Laid(groups, a, b) ==
  \E at \in [1 .. Len(groups) + 1 -> Synced + 1 .. b] :
    /\ at[1] = a /\ at[Len(groups) + 1] = b
    /\ \A g \in 1 .. Len(groups) : /\ Listed(groups[g]) /\ Len(groups[g]) \in 1 .. PARALLEL
                                   /\ Row(groups[g], at[g], at[g + 1])

\* The posts in flight are those of the first group, and what has been answered is as asked.
InFlight(r) ==
  /\ Listed(r.posts) /\ Len(r.posts) = Len(r.groups[1])
  /\ \A i \in DOMAIN r.posts : /\ r.posts[i].keys = r.groups[1][i]
                               /\ r.posts[i].res.st = "ok" => r.posts[i].res.vals = Stamped(r.prov, r.posts[i].keys)

\* Where a sync is in its range: it has the headers below a, of the provider it is asking, and
\* the groups that are left ask for those from a on.
HeadersAt(r, a) ==
  /\ Listed(r.groups) /\ r.groups # <<>> /\ Laid(r.groups, a, r.to + 1)
  /\ r.out = HeadersOf(r.prov, Synced + 1, a)

\* Headers that are asked for singly are asked for one by one.
Ones(mode, groups) == mode = "single" => \A g \in DOMAIN groups : Len(groups[g][1]) = 1

\* What a request for the height can have been told.
Told(vals) == \E x \in Synced .. MaxTip, p \in Providers : vals = <<Header(x, p)>>

HeldBusy(r) ==
  /\ r.answer = Waiting
  /\ \A i \in DOMAIN r.posts : r.posts[i].tries \in 1 .. ATTEMPTS
  /\ r.mode = "number" => \A i \in DOMAIN r.posts : r.posts[i].res.st = "ok" => Told(r.posts[i].res.vals)
  /\ r.mode \in HeaderModes => /\ r.to \in Synced + 1 .. MaxTip /\ InFlight(r)
                               /\ \E a \in Synced + 1 .. r.to + 1 : HeadersAt(r, a)
                               /\ Ones(r.mode, r.groups)

HeldDone(r) ==
  /\ r.answer # Waiting /\ r.posts = <<>> /\ r.out = <<>>
  /\ r.kind = "sync" /\ r.answer.st = "ok" =>
       r.to \in Synced .. MaxTip /\ \E p \in Providers : r.answer.vals = HeadersOf(p, Synced + 1, r.to + 1)

HeldSound(r) == (r.at = "busy" => HeldBusy(r)) /\ (r.at = "done" => HeldDone(r))

HeldInv == tips \in [Providers -> Synced .. MaxTip] /\ (req = Idle \/ HeldSound(req))

LEMMA HeaderConstants ==
  /\ Synced \in Nat /\ MaxTip \in Nat /\ HEADER_BATCH \in Nat /\ PARALLEL \in Nat /\ ATTEMPTS \in Nat
  /\ Synced >= 1 /\ Synced < MaxTip /\ HEADER_BATCH >= 1 /\ PARALLEL >= 1 /\ ATTEMPTS >= 1
<1>1. Synced \in Nat \ {0} /\ MaxTip \in Nat \ {0} /\ HEADER_BATCH \in Nat \ {0} /\ PARALLEL \in Nat \ {0} /\ ATTEMPTS \in Nat \ {0}
  BY UpstreamConstants, Zenon
<1>2. Synced < MaxTip
  BY UpstreamConstants
<1> QED BY <1>1, <1>2

LEMMA RunFacts ==
  ASSUME NEW a \in Nat, NEW b \in Nat, a <= b, NEW s, s = Run(a, b)
  PROVE  Listed(s) /\ Len(s) = b - a /\ DOMAIN s = 1 .. b - a /\ \A j \in 1 .. b - a : s[j] = a + j - 1
<1> DEFINE n == b - a
<1>1. s = [j \in 1 .. n |-> a + j - 1] /\ n \in Nat
  BY DEF Run
<1> HIDE DEF n
<1>2. DOMAIN s = 1 .. n /\ s = [j \in 1 .. n |-> s[j]] /\ \A j \in 1 .. n : s[j] = a + j - 1
  BY <1>1
<1>3. Listed(s) /\ Len(s) = n
  BY <1>1, <1>2, ListOf
<1> QED BY <1>2, <1>3 DEF n

LEMMA RunAre ==
  ASSUME NEW a \in Nat, NEW b \in Nat, NEW s, s = Run(a, b)
  PROVE  \A j \in 1 .. b - a : s[j] = a + j - 1
BY DEF Run

HeadersBy(p) == {Header(n, p) : n \in Nat}

LEMMA HeadersAre ==
  ASSUME NEW p, NEW a \in Nat, NEW b \in Nat, a <= b, NEW s, s = HeadersOf(p, a, b)
  PROVE  \A j \in 1 .. b - a : s[j] = Header(a + j - 1, p)
BY DEF HeadersOf

LEMMA HeadersFacts ==
  ASSUME NEW p, NEW a \in Nat, NEW b \in Nat, a <= b, NEW s, s = HeadersOf(p, a, b)
  PROVE  s \in Seq(HeadersBy(p)) /\ Len(s) = b - a /\ DOMAIN s = 1 .. b - a
<1> DEFINE n == b - a
           S == HeadersBy(p)
           h(j) == Header(a + j - 1, p)
<1>1. s = [j \in 1 .. n |-> h(j)] /\ n \in Nat
  BY DEF HeadersOf
<1>2. \A j \in 1 .. n : h(j) \in S
  <2> SUFFICES ASSUME NEW j \in 1 .. n
               PROVE  h(j) \in S
    OBVIOUS
  <2>1. a + j - 1 \in Nat
    BY <1>1
  <2> QED BY <2>1 DEF HeadersBy
<1> HIDE DEF n, S, h
<1>3. s \in [1 .. n -> S] /\ \A j \in 1 .. n : s[j] = h(j)
  BY <1>1, <1>2
<1>4. s \in Seq(S) /\ Len(s) = n /\ DOMAIN s = 1 .. n
  BY <1>1, <1>3
<1> QED BY <1>3, <1>4 DEF n, S, h

\* Two pieces of a range, one after the other.
LEMMA HeadersJoin ==
  ASSUME NEW p, NEW a \in Nat, NEW b \in Nat, NEW c \in Nat, a <= b, b <= c
  PROVE  HeadersOf(p, a, b) \o HeadersOf(p, b, c) = HeadersOf(p, a, c)
<1> DEFINE x == HeadersOf(p, a, b)
           y == HeadersOf(p, b, c)
           z == HeadersOf(p, a, c)
           S == HeadersBy(p)
<1>1. x = HeadersOf(p, a, b) /\ y = HeadersOf(p, b, c) /\ z = HeadersOf(p, a, c) /\ a <= c
  OBVIOUS
<1> HIDE DEF x, y, z
<1>2. x \in Seq(S) /\ Len(x) = b - a /\ \A j \in 1 .. b - a : x[j] = Header(a + j - 1, p)
  <2>1. x \in Seq(S) /\ Len(x) = b - a
    BY <1>1, HeadersFacts
  <2>2. \A j \in 1 .. b - a : x[j] = Header(a + j - 1, p)
    BY <1>1, HeadersAre
  <2> QED BY <2>1, <2>2
<1>3. y \in Seq(S) /\ Len(y) = c - b /\ \A j \in 1 .. c - b : y[j] = Header(b + j - 1, p)
  <2>1. y \in Seq(S) /\ Len(y) = c - b
    BY <1>1, HeadersFacts
  <2>2. \A j \in 1 .. c - b : y[j] = Header(b + j - 1, p)
    BY <1>1, HeadersAre
  <2> QED BY <2>1, <2>2
<1>4. z \in Seq(S) /\ Len(z) = c - a /\ \A j \in 1 .. c - a : z[j] = Header(a + j - 1, p)
  <2>1. z \in Seq(S) /\ Len(z) = c - a
    BY <1>1, HeadersFacts
  <2>2. \A j \in 1 .. c - a : z[j] = Header(a + j - 1, p)
    BY <1>1, HeadersAre
  <2> QED BY <2>1, <2>2
<1> HIDE DEF S
<1>5. /\ x \o y \in Seq(S) /\ Len(x \o y) = Len(x) + Len(y)
      /\ \A i \in 1 .. Len(x) + Len(y) : (x \o y)[i] = IF i <= Len(x) THEN x[i] ELSE y[i - Len(x)]
  BY <1>2, <1>3, ConcatProperties, Zenon
<1>6. Len(x) + Len(y) = c - a
  BY <1>2, <1>3
<1>7. \A i \in 1 .. c - a : (x \o y)[i] = z[i]
  <2> SUFFICES ASSUME NEW i \in 1 .. c - a
               PROVE  (x \o y)[i] = z[i]
    OBVIOUS
  <2>1. (x \o y)[i] = IF i <= b - a THEN x[i] ELSE y[i - (b - a)]
    BY <1>2, <1>5, <1>6
  <2>2. z[i] = Header(a + i - 1, p)
    BY <1>4
  <2>3. CASE i <= b - a
    <3>1. (x \o y)[i] = x[i]
      BY <2>1, <2>3
    <3>2. i \in 1 .. b - a
      BY <2>3
    <3> QED BY <1>2, <2>2, <3>1, <3>2
  <2>4. CASE i > b - a
    <3>1. (x \o y)[i] = y[i - (b - a)]
      BY <2>1, <2>4
    <3>2. i - (b - a) \in 1 .. c - b /\ b + (i - (b - a)) - 1 = a + i - 1
      BY <2>4
    <3>3. y[i - (b - a)] = Header(a + i - 1, p)
      BY <1>3, <3>2
    <3> QED BY <2>2, <3>1, <3>3, Zenon
  <2>5. i <= b - a \/ i > b - a
    OBVIOUS
  <2> QED BY <2>3, <2>4, <2>5, Zenon
<1>8. Len(x \o y) = Len(z) /\ \A i \in 1 .. Len(x \o y) : (x \o y)[i] = z[i]
  BY <1>4, <1>5, <1>6, <1>7
<1>9. x \o y = z
  BY <1>4, <1>5, <1>8, SeqEqual
<1> QED BY <1>9 DEF x, y, z

\* The headers of a post are those of its heights.
LEMMA StampedRun ==
  ASSUME NEW p, NEW a \in Nat, NEW b \in Nat, a <= b
  PROVE  Stamped(p, Run(a, b)) = HeadersOf(p, a, b)
<1> DEFINE n == b - a
           s == Run(a, b)
<1>1. DOMAIN s = 1 .. n /\ \A j \in 1 .. n : s[j] = a + j - 1
  BY RunFacts
<1>2. Stamped(p, s) = [j \in DOMAIN s |-> Header(s[j], p)]
  BY DEF Stamped
<1>3. HeadersOf(p, a, b) = [j \in 1 .. n |-> Header(a + j - 1, p)]
  BY DEF HeadersOf
<1> HIDE DEF s, n
<1>4. Stamped(p, s) = HeadersOf(p, a, b)
  BY <1>1, <1>2, <1>3
<1> QED BY <1>4 DEF s


\* A set of natural numbers that has a member has a least one.
LEMMA LeastExists ==
  ASSUME NEW S \in SUBSET Nat, S # {}
  PROVE  \E x \in S : \A y \in S : x <= y
<1> DEFINE R == {ss \in Nat \X Nat : ss[1] < ss[2]}
<1>1. IsWellFoundedOn(R, Nat)
  BY NatLessThanWellFounded DEF OpToRel
<1>2. \E x \in S : \A y \in S : <<y, x>> \notin R
  <2> HIDE DEF R
  <2> QED BY <1>1, WFMin
<1>3. PICK x \in S : \A y \in S : <<y, x>> \notin R
  BY <1>2
<1>4. \A y \in S : x <= y
  <2> TAKE y \in S
  <2>1. <<y, x>> \in Nat \X Nat
    OBVIOUS
  <2>2. ~(y < x)
    BY <1>3, <2>1
  <2> QED BY <2>2
<1> QED BY <1>4

\* What adds up the sequences one by one is what FlattenSeq makes of them.
LEMMA FlattenIs ==
  ASSUME NEW s, NEW n \in Nat, n = Len(s), n >= 1, NEW R,
         NEW F \in [1 .. n -> R], F[1] = s[1], \A i \in 2 .. n : F[i] = F[i - 1] \o s[i]
  PROVE  FlattenSeq(s) = F[n]
<1> DEFINE Step(f) == [i \in 1 .. n |-> IF i = 1 THEN s[i] ELSE f[i - 1] \o s[i]]
           g == CHOOSE f : f = [i \in 1 .. n |-> IF i = 1 THEN s[i] ELSE f[i - 1] \o s[i]]
<1>1. F = Step(F)
  <2>1. \A i \in 1 .. n : F[i] = IF i = 1 THEN s[i] ELSE F[i - 1] \o s[i]
    <3>1. \A i \in 1 .. n : i = 1 \/ i \in 2 .. n
      OBVIOUS
    <3> QED BY <3>1
  <2> QED BY <2>1
<1>2. \E f : f = Step(f)
  BY <1>1
<1>3. g = Step(g)
  BY <1>2
<1>4. FlattenSeq(s) = g[n]
  BY DEF FlattenSeq
<1>5. \A f : f = Step(f) => f[1] = s[1] /\ \A i \in 2 .. n : f[i] = f[i - 1] \o s[i]
  <2> SUFFICES ASSUME NEW f, NEW h, h = Step(f)
               PROVE  h[1] = s[1] /\ \A i \in 2 .. n : h[i] = f[i - 1] \o s[i]
    <3> HIDE DEF Step
    <3> QED OBVIOUS
  <2>1. 1 \in 1 .. n /\ \A i \in 2 .. n : i \in 1 .. n /\ i # 1
    OBVIOUS
  <2> QED BY <2>1
<1> HIDE DEF Step, g
<1>6. g[1] = s[1] /\ \A i \in 2 .. n : g[i] = g[i - 1] \o s[i]
  BY <1>3, <1>5
<1>7. F[1] = s[1] /\ \A i \in 2 .. n : F[i] = F[i - 1] \o s[i]
  BY <1>1, <1>5
<1> DEFINE Odd == {i \in 1 .. n : g[i] # F[i]}
<1>8. CASE Odd # {}
  <2>1. Odd \in SUBSET Nat
    OBVIOUS
  <2> HIDE DEF Odd
  <2>2. PICK x \in Odd : \A y \in Odd : x <= y
    BY <1>8, <2>1, LeastExists
  <2>3. x \in 1 .. n /\ g[x] # F[x]
    BY DEF Odd
  <2>4. x \in 2 .. n
    BY <1>6, <1>7, <2>3
  <2>5. x - 1 \notin Odd /\ x - 1 \in 1 .. n
    BY <2>2, <2>4
  <2>6. g[x - 1] = F[x - 1]
    BY <2>5 DEF Odd
  <2>7. g[x] = g[x - 1] \o s[x] /\ F[x] = F[x - 1] \o s[x]
    BY <1>6, <1>7, <2>4
  <2> QED BY <2>3, <2>6, <2>7
<1>9. CASE Odd = {}
  <2>1. n \in 1 .. n
    OBVIOUS
  <2>2. g[n] = F[n]
    BY <1>9, <2>1
  <2> QED BY <1>4, <2>2
<1> QED BY <1>8, <1>9

\* The results of a row of posts, each p's headers for what it asked, are p's headers of the range.
LEMMA FlattenRow ==
  ASSUME NEW p, NEW a \in Nat, NEW b \in Nat, NEW group, NEW n \in Nat, n = Len(group), n >= 1, Row(group, a, b),
         NEW s, n = Len(s), \A i \in 1 .. n : s[i] = Stamped(p, group[i])
  PROVE  FlattenSeq(s) = HeadersOf(p, a, b) /\ a <= b
<1>1. PICK c \in [1 .. n + 1 -> a .. b] :
        c[1] = a /\ c[n + 1] = b /\ \A i \in 1 .. n : c[i] < c[i + 1] /\ group[i] = Run(c[i], c[i + 1])
  BY DEF Row, Steps
<1>2. \A i \in 1 .. n + 1 : c[i] \in Nat /\ a <= c[i] /\ c[i] <= b
  OBVIOUS
<1>3. \A i \in 1 .. n : i + 1 \in 1 .. n + 1 /\ i \in 1 .. n + 1
  OBVIOUS
<1>4. \A i \in 1 .. n : s[i] = HeadersOf(p, c[i], c[i + 1])
  <2> SUFFICES ASSUME NEW i \in 1 .. n
               PROVE  s[i] = HeadersOf(p, c[i], c[i + 1])
    OBVIOUS
  <2> DEFINE x == c[i]
             y == c[i + 1]
  <2>1. x \in Nat /\ y \in Nat /\ x <= y
    BY <1>1, <1>2, <1>3
  <2>2. s[i] = Stamped(p, Run(x, y))
    BY <1>1
  <2> HIDE DEF x, y
  <2>3. s[i] = HeadersOf(p, x, y)
    BY <2>1, <2>2, StampedRun
  <2> QED BY <2>3 DEF x, y
<1> DEFINE H(i) == HeadersOf(p, a, c[i + 1])
           F == [i \in 1 .. n |-> H(i)]
<1>5. s[1] = H(1)
  <2>1. 1 \in 1 .. n /\ c[1] = a
    BY <1>1
  <2> QED BY <1>4, <2>1
<1>6. \A i \in 2 .. n : H(i - 1) \o s[i] = H(i)
  <2> SUFFICES ASSUME NEW i \in 2 .. n
               PROVE  H(i - 1) \o s[i] = H(i)
    OBVIOUS
  <2> DEFINE x == c[i]
             y == c[i + 1]
  <2>1. i \in 1 .. n /\ (i - 1) + 1 = i
    OBVIOUS
  <2>2. x \in Nat /\ y \in Nat /\ a <= x /\ x <= y
    BY <1>1, <1>2, <1>3, <2>1
  <2>3. H(i - 1) = HeadersOf(p, a, x) /\ s[i] = HeadersOf(p, x, y) /\ H(i) = HeadersOf(p, a, y)
    BY <1>4, <2>1
  <2> HIDE DEF x, y, H
  <2>4. HeadersOf(p, a, x) \o HeadersOf(p, x, y) = HeadersOf(p, a, y)
    BY <2>2, HeadersJoin
  <2> QED BY <2>3, <2>4
<1> HIDE DEF H
<1>7. \A i \in 1 .. n : F[i] = H(i)
  OBVIOUS
<1>8. F[1] = s[1]
  <2>1. 1 \in 1 .. n
    OBVIOUS
  <2> HIDE DEF F
  <2> QED BY <1>5, <1>7, <2>1
<1>9. \A i \in 2 .. n : F[i] = F[i - 1] \o s[i]
  <2> SUFFICES ASSUME NEW i \in 2 .. n
               PROVE  F[i] = F[i - 1] \o s[i]
    OBVIOUS
  <2>1. i \in 1 .. n /\ i - 1 \in 1 .. n
    OBVIOUS
  <2> HIDE DEF F
  <2> QED BY <1>6, <1>7, <2>1
<1> DEFINE R == {H(i) : i \in 1 .. n}
<1>10. F \in [1 .. n -> R]
  OBVIOUS
<1> HIDE DEF F, R
<1>11. FlattenSeq(s) = F[n]
  BY ONLY n \in Nat, n = Len(s), n >= 1, <1>8, <1>9, <1>10, FlattenIs, ZenonT(90)
<1>12. F[n] = H(n) /\ H(n) = HeadersOf(p, a, b)
  <2>1. n \in 1 .. n
    OBVIOUS
  <2>2. F[n] = H(n)
    BY <1>7, <2>1
  <2>3. H(n) = HeadersOf(p, a, c[n + 1])
    BY DEF H
  <2> QED BY <1>1, <2>2, <2>3
<1> QED BY <1>1, <1>2, <1>11, <1>12


-----------------------------------------------------------------------------
(* A batch of headers. *)

\* As many different numbers as there are in an interval are that interval, and each has as many
\* before it as its place in the interval.
LEMMA AllOfThem ==
  ASSUME NEW m \in Nat, NEW a \in Nat, NEW id \in [1 .. m -> a .. a + m - 1],
         \A i, j \in 1 .. m : id[i] = id[j] => i = j
  PROVE  /\ \A k \in 1 .. m : \E i \in 1 .. m : id[i] = a + k - 1
         /\ \A i \in 1 .. m : Cardinality({j \in 1 .. m : id[j] < id[i]}) = id[i] - a
<1> DEFINE S == 1 .. m
           T == a .. a + m - 1
<1>1. IsFiniteSet(S) /\ Cardinality(S) = m
  BY FS_Interval
<1>2. IsFiniteSet(T) /\ Cardinality(T) = m
  <2> DEFINE b == a + m - 1
  <2>1. a \in Int /\ b \in Int /\ (a > b <=> m = 0) /\ b - a + 1 = m
    OBVIOUS
  <2> HIDE DEF b
  <2>2. IsFiniteSet(a .. b) /\ Cardinality(a .. b) = IF a > b THEN 0 ELSE b - a + 1
    BY <2>1, FS_Interval
  <2>3. Cardinality(a .. b) = m
    BY <2>1, <2>2
  <2> QED BY <2>2, <2>3 DEF b
<1>3. id \in Injection(S, T)
  BY DEF Injection, IsInjective
<1> HIDE DEF S, T
<1>4. id \in Surjection(S, T)
  BY <1>1, <1>2, <1>3, FS_Injection
<1>5. \A t \in T : \E i \in S : id[i] = t
  BY <1>4 DEF Surjection
<1>6. \A k \in 1 .. m : a + k - 1 \in T
  BY DEF T
<1>7. \A k \in 1 .. m : \E i \in 1 .. m : id[i] = a + k - 1
  BY <1>5, <1>6 DEF S
<1>8. ASSUME NEW i \in 1 .. m
      PROVE  Cardinality({j \in 1 .. m : id[j] < id[i]}) = id[i] - a
  <2> DEFINE B == {j \in 1 .. m : id[j] < id[i]}
             x == id[i]
             C == a .. x - 1
             h == [j \in B |-> id[j]]
  <2>1. x \in Nat /\ a <= x /\ x <= a + m - 1
    BY <1>8
  <2>2. IsFiniteSet(B)
    <3>1. B \subseteq S
      BY DEF S
    <3> HIDE DEF B
    <3> QED BY <1>1, <3>1, FS_Subset
  <2>3. h \in [B -> C]
    <3>1. \A j \in B : id[j] \in C
      BY <2>1
    <3> HIDE DEF B, C
    <3> QED BY <3>1
  <2>4. \A j, k \in B : h[j] = h[k] => j = k
    <3>1. \A j, k \in B : id[j] = id[k] => j = k
      OBVIOUS
    <3> HIDE DEF B
    <3> QED BY <3>1
  <2>5. \A t \in C : \E j \in B : h[j] = t
    <3> SUFFICES ASSUME NEW t \in C
                 PROVE  \E j \in B : h[j] = t
      OBVIOUS
    <3>1. t \in T /\ t < x
      BY <2>1 DEF T
    <3>2. PICK j \in S : id[j] = t
      BY <1>5, <3>1
    <3>3. j \in B
      BY <3>1, <3>2 DEF S
    <3> HIDE DEF B
    <3> QED BY <3>2, <3>3
  <2> HIDE DEF B, C, h, x
  <2>6. h \in Bijection(B, C)
    BY <2>3, <2>4, <2>5 DEF Bijection, Injection, Surjection, IsInjective
  <2>7. Cardinality(C) = Cardinality(B)
    <3>1. ExistsBijection(B, C)
      BY <2>6 DEF ExistsBijection
    <3> QED BY <2>2, <3>1, FS_Bijection
  <2>8. Cardinality(C) = x - a
    <3>1. Cardinality(C) = IF a > x - 1 THEN 0 ELSE x - 1 - a + 1
      BY <2>1, FS_Interval DEF C
    <3> QED BY <2>1, <3>1
  <2> QED BY <2>7, <2>8 DEF B, x
<1> QED BY <1>7, <1>8

\* A batch that answers each height of a range once, with p's header, is put in the order of the heights.
LEMMA ByIdInOrder ==
  ASSUME NEW p, NEW a \in Nat, NEW m \in Nat, NEW items, DOMAIN items = 1 .. m,
         \A i \in 1 .. m : items[i].id \in a .. a + m - 1 /\ items[i].val = Header(items[i].id, p),
         \A i, j \in 1 .. m : items[i].id = items[j].id => i = j
  PROVE  ById(items) = HeadersOf(p, a, a + m)
<1> DEFINE id == [i \in 1 .. m |-> items[i].id]
           Before(i) == {j \in DOMAIN items : items[j].id < items[i].id \/ (items[j].id = items[i].id /\ j < i)}
           At(k) == CHOOSE i \in DOMAIN items : Cardinality(Before(i)) = k - 1
<1>1. id \in [1 .. m -> a .. a + m - 1] /\ \A i, j \in 1 .. m : id[i] = id[j] => i = j
  OBVIOUS
<1>2. \A i \in 1 .. m : Before(i) = {j \in 1 .. m : id[j] < id[i]}
  <2> SUFFICES ASSUME NEW i \in 1 .. m, NEW j \in 1 .. m
               PROVE  (items[j].id < items[i].id \/ (items[j].id = items[i].id /\ j < i)) <=> id[j] < id[i]
    OBVIOUS
  <2>1. id[j] = items[j].id /\ id[i] = items[i].id
    OBVIOUS
  <2>2. items[j].id = items[i].id => j = i
    OBVIOUS
  <2>3. ~(i < i)
    OBVIOUS
  <2> QED BY <2>1, <2>2, <2>3
<1>3. \A i \in 1 .. m : id[i] = items[i].id
  OBVIOUS
<1> HIDE DEF id, Before
<1>4. \A k \in 1 .. m : \E i \in 1 .. m : id[i] = a + k - 1
  BY ONLY m \in Nat, a \in Nat, <1>1, AllOfThem, Zenon
<1>5. \A i \in 1 .. m : Cardinality({j \in 1 .. m : id[j] < id[i]}) = id[i] - a
  BY ONLY m \in Nat, a \in Nat, <1>1, AllOfThem, Zenon
<1>6. \A i \in 1 .. m : Cardinality(Before(i)) = id[i] - a
  BY <1>2, <1>5
<1>7. ASSUME NEW k \in 1 .. m
      PROVE  items[At(k)].val = Header(a + k - 1, p)
  <2>1. PICK i \in 1 .. m : id[i] = a + k - 1
    BY <1>4, <1>7
  <2>2. Cardinality(Before(i)) = k - 1
    <3>1. a + k - 1 - a = k - 1
      BY <1>7
    <3> QED BY <1>6, <2>1, <3>1
  <2>3. \E x \in DOMAIN items : Cardinality(Before(x)) = k - 1
    BY <2>2
  <2> DEFINE y == At(k)
  <2>4. y \in DOMAIN items /\ Cardinality(Before(y)) = k - 1
    BY <2>3
  <2> HIDE DEF y
  <2>5. y \in 1 .. m /\ id[y] - a = k - 1
    BY <1>6, <2>4
  <2>6. id[y] = a + k - 1
    <3>1. id[y] \in Nat
      BY <1>1, <2>5
    <3> QED BY <2>5, <3>1
  <2>7. items[y].val = Header(a + k - 1, p)
    BY <1>3, <2>5, <2>6
  <2> QED BY <2>7 DEF y
<1> HIDE DEF At
<1>8. ById(items) = [k \in 1 .. m |-> items[At(k)].val]
  BY DEF ById, At, Before
<1>9. HeadersOf(p, a, a + m) = [k \in 1 .. m |-> Header(a + k - 1, p)]
  <2>1. a + m - a = m
    OBVIOUS
  <2> QED BY <2>1 DEF HeadersOf
<1> QED BY <1>7, <1>8, <1>9


-----------------------------------------------------------------------------
(* The groups of a range of headers. *)

\* Where a list of len is cut into n pieces of at most size.
Cuts(e, n, len, size) ==
  /\ e \in [0 .. n -> 0 .. len] /\ e[0] = 0 /\ e[n] = len
  /\ \A k \in 1 .. n : e[k - 1] < e[k] /\ e[k] <= e[k - 1] + size
  /\ \A j, k \in 0 .. n : j <= k => e[j] <= e[k]

LEMMA CutsExist ==
  ASSUME NEW len \in Nat, len >= 1, NEW size \in Nat, size >= 1, NEW n, n = (len + size - 1) \div size,
         NEW e, e = [k \in 0 .. n |-> IF k * size <= len THEN k * size ELSE len]
  PROVE  n \in Nat /\ n >= 1 /\ Cuts(e, n, len, size)
<1>1. n \in Nat /\ n >= 1 /\ n * size >= len /\ (n - 1) * size < len
  BY HowManyBatches
<1> DEFINE m(k) == k * size
<1>2. \A k \in 0 .. n : m(k) \in Nat
  <2> SUFFICES ASSUME NEW k \in 0 .. n
               PROVE  k * size \in Nat
    OBVIOUS
  <2>1. k \in Nat
    OBVIOUS
  <2> QED BY <2>1
<1>3. \A k \in 1 .. n : m(k) = m(k - 1) + size /\ m(k - 1) < len
  <2> SUFFICES ASSUME NEW k \in 1 .. n
               PROVE  k * size = (k - 1) * size + size /\ (k - 1) * size < len
    OBVIOUS
  <2>1. k - 1 \in Nat /\ k - 1 <= n - 1 /\ (k - 1) + 1 = k
    BY <1>1
  <2>2. (k - 1) * size \in Nat /\ (k - 1) * size <= (n - 1) * size /\ ((k - 1) + 1) * size = (k - 1) * size + size
    BY <1>1, <2>1, BatchBefore
  <2> QED BY <1>1, <2>1, <2>2
<1>4. \A j, k \in 0 .. n : j <= k => m(j) <= m(k)
  <2> SUFFICES ASSUME NEW j \in 0 .. n, NEW k \in 0 .. n, j <= k
               PROVE  j * size <= k * size
    OBVIOUS
  <2>1. j \in Nat /\ k + 1 \in Nat /\ j <= (k + 1) - 1 /\ (k + 1) - 1 = k
    OBVIOUS
  <2>2. j * size <= ((k + 1) - 1) * size
    BY <2>1, BatchBefore
  <2> QED BY <2>1, <2>2
<1>5. m(0) = 0 /\ m(n) >= len
  <2>1. 0 * size = 0
    OBVIOUS
  <2> QED BY <1>1, <2>1
<1>6. e = [k \in 0 .. n |-> IF m(k) <= len THEN m(k) ELSE len]
  OBVIOUS
<1> HIDE DEF m
<1>7. \A k \in 0 .. n : e[k] = IF m(k) <= len THEN m(k) ELSE len
  BY <1>6
<1>8. e \in [0 .. n -> 0 .. len]
  <2>1. \A k \in 0 .. n : (IF m(k) <= len THEN m(k) ELSE len) \in 0 .. len
    BY <1>2
  <2> QED BY <1>6, <2>1
<1>9. e[0] = 0 /\ e[n] = len
  <2>1. 0 \in 0 .. n /\ n \in 0 .. n
    BY <1>1
  <2>2. m(n) \in Nat
    BY <1>2, <2>1
  <2>3. e[0] = 0
    BY <1>5, <1>7, <2>1
  <2>4. e[n] = len
    BY <1>5, <1>7, <2>1, <2>2
  <2> QED BY <2>3, <2>4
<1>10. \A k \in 1 .. n : e[k - 1] < e[k] /\ e[k] <= e[k - 1] + size
  <2> SUFFICES ASSUME NEW k \in 1 .. n
               PROVE  e[k - 1] < e[k] /\ e[k] <= e[k - 1] + size
    OBVIOUS
  <2>1. k - 1 \in 0 .. n /\ k \in 0 .. n
    BY <1>1
  <2>2. m(k - 1) \in Nat /\ m(k) \in Nat /\ m(k) = m(k - 1) + size /\ m(k - 1) < len
    BY <1>2, <1>3, <2>1
  <2>3. e[k - 1] = m(k - 1)
    <3>1. e[k - 1] = IF m(k - 1) <= len THEN m(k - 1) ELSE len
      BY <1>7, <2>1
    <3> QED BY <2>2, <3>1
  <2>4. e[k] = IF m(k) <= len THEN m(k) ELSE len
    BY <1>7, <2>1
  <2>5. CASE m(k) <= len
    BY <2>2, <2>3, <2>4, <2>5
  <2>6. CASE ~(m(k) <= len)
    BY <2>2, <2>3, <2>4, <2>6
  <2> QED BY <2>5, <2>6
<1>11. \A j, k \in 0 .. n : j <= k => e[j] <= e[k]
  <2> SUFFICES ASSUME NEW j \in 0 .. n, NEW k \in 0 .. n, j <= k
               PROVE  e[j] <= e[k]
    OBVIOUS
  <2>1. m(j) \in Nat /\ m(k) \in Nat /\ m(j) <= m(k)
    BY <1>2, <1>4
  <2>2. e[j] = IF m(j) <= len THEN m(j) ELSE len
    BY <1>7
  <2>3. e[k] = IF m(k) <= len THEN m(k) ELSE len
    BY <1>7
  <2> QED BY <2>1, <2>2, <2>3
<1> QED BY <1>1, <1>8, <1>9, <1>10, <1>11 DEF Cuts

\* What follows the first x of s, up to y.
Part(s, x, y) == SubSeq(s, x + 1, y)

LEMMA PartLen ==
  ASSUME NEW h, NEW x \in Nat, NEW y \in Nat, x <= y, NEW g, g = Part(h, x, y), NEW m, m = y - x
  PROVE  Len(g) = m
<1>1. g = [j \in 1 .. (1 + y - (x + 1)) |-> h[j + (x + 1) - 1]]
  BY DEF Part
<1>2. 1 + y - (x + 1) = m /\ m \in Nat
  OBVIOUS
<1>3. g = [j \in 1 .. m |-> g[j]]
  BY <1>1, <1>2
<1> QED BY <1>2, <1>3, ListOf

\* What Chunks cuts.
LEMMA ChunksCut ==
  ASSUME NEW s, NEW len \in Nat, len = Len(s), len >= 1, NEW size \in Nat, size >= 1, NEW g, g = Chunks(s, size),
         NEW n, n = Len(g)
  PROVE  /\ n \in Nat /\ n >= 1 /\ Listed(g) /\ DOMAIN g = 1 .. n
         /\ \E e : Cuts(e, n, len, size) /\ \A k \in 1 .. n : g[k] = Part(s, e[k - 1], e[k])
<1> DEFINE c == (len + size - 1) \div size
           e == [k \in 0 .. c |-> IF k * size <= len THEN k * size ELSE len]
           P(k) == SubSeq(s, (k - 1) * size + 1, Min({k * size, len}))
<1>1. c \in Nat /\ c >= 1 /\ Cuts(e, c, len, size)
  <2> DEFINE y == e
             z == c
  <2>1. z = (len + size - 1) \div size /\ y = [k \in 0 .. z |-> IF k * size <= len THEN k * size ELSE len]
    OBVIOUS
  <2> HIDE DEF y, z
  <2>2. z \in Nat /\ z >= 1 /\ Cuts(y, z, len, size)
    BY <2>1, CutsExist
  <2> QED BY <2>2 DEF y, z
<1>2. \A k \in 1 .. c : e[k - 1] = (k - 1) * size
  <2> SUFFICES ASSUME NEW k \in 1 .. c
               PROVE  e[k - 1] = (k - 1) * size
    OBVIOUS
  <2>1. (c - 1) * size < len
    BY HowManyBatches
  <2>2. k - 1 \in Nat /\ k - 1 <= c - 1 /\ k - 1 \in 0 .. c
    <3> HIDE DEF c
    <3> QED BY <1>1
  <2>3. (k - 1) * size \in Nat /\ (k - 1) * size <= (c - 1) * size
    <3> HIDE DEF c
    <3> QED BY <1>1, <2>2, BatchBefore
  <2> DEFINE x == (k - 1) * size
  <2>4. e[k - 1] = IF x <= len THEN x ELSE len
    <3> HIDE DEF c
    <3> QED BY <2>2
  <2>5. x <= len
    <3> DEFINE w == (c - 1) * size
    <3>1. w \in Int
      <4> HIDE DEF c
      <4> QED BY <1>1
    <3>2. x \in Nat /\ x <= w /\ w < len
      BY <2>1, <2>3
    <3> HIDE DEF w, x
    <3> QED BY <3>1, <3>2
  <2> HIDE DEF x
  <2> QED BY <2>4, <2>5 DEF x
<1>3. g = [k \in 1 .. c |-> P(k)]
  BY DEF Chunks
<1>4. \A k \in 1 .. c : e[k] = Min({k * size, len})
  <2> SUFFICES ASSUME NEW k \in 1 .. c
               PROVE  e[k] = Min({k * size, len})
    OBVIOUS
  <2>1. k \in 0 .. c /\ k \in Nat
    BY <1>1
  <2> DEFINE b == k * size
  <2>2. e[k] = IF b <= len THEN b ELSE len
    BY <2>1
  <2>3. b \in Int /\ len \in Int
    BY <2>1
  <2> HIDE DEF b
  <2>4. Min({b, len}) = IF b <= len THEN b ELSE len
    BY <2>3, LeastOfTwo
  <2> QED BY <2>2, <2>4 DEF b
<1> HIDE DEF c, e
<1>5. \A k \in 1 .. c : P(k) = Part(s, e[k - 1], e[k])
  BY <1>4, <1>2 DEF Part
<1> HIDE DEF P
<1>6. DOMAIN g = 1 .. c /\ g = [k \in 1 .. c |-> g[k]] /\ \A k \in 1 .. c : g[k] = P(k)
  BY <1>3
<1>7. Listed(g) /\ Len(g) = c
  BY <1>1, <1>6, ListOf
<1>8. n = c
  BY <1>7
<1> QED BY <1>1, <1>5, <1>6, <1>7, <1>8

LEMMA RunPart ==
  ASSUME NEW a \in Nat, NEW b \in Nat, NEW x \in Nat, NEW y \in Nat, x <= y, y <= b - a, a <= b
  PROVE  Part(Run(a, b), x, y) = Run(a + x, a + y)
<1> DEFINE s == Run(a, b)
           u == Part(Run(a, b), x, y)
           w == Run(a + x, a + y)
<1>1. Len(s) = b - a /\ \A j \in 1 .. b - a : s[j] = a + j - 1
  BY RunFacts
<1>2. u = [j \in 1 .. y - x |-> s[x + j]]
  <2>1. u = [j \in 1 .. (1 + y - (x + 1)) |-> s[j + (x + 1) - 1]]
    BY DEF Part
  <2>2. 1 + y - (x + 1) = y - x /\ \A j \in 1 .. y - x : j + (x + 1) - 1 = x + j
    OBVIOUS
  <2> HIDE DEF u, s
  <2> QED BY <2>1, <2>2
<1>3. w = [j \in 1 .. y - x |-> (a + x) + j - 1]
  <2>1. (a + y) - (a + x) = y - x
    OBVIOUS
  <2> QED BY <2>1 DEF Run
<1>4. \A j \in 1 .. y - x : s[x + j] = (a + x) + j - 1
  <2> SUFFICES ASSUME NEW j \in 1 .. y - x
               PROVE  s[x + j] = (a + x) + j - 1
    OBVIOUS
  <2>1. x + j \in 1 .. b - a /\ a + (x + j) - 1 = (a + x) + j - 1
    OBVIOUS
  <2> HIDE DEF s
  <2> QED BY <1>1, <2>1
<1> HIDE DEF s, u, w
<1>5. u = w
  BY <1>2, <1>3, <1>4
<1> QED BY <1>5 DEF u, w


\* The batches of a range are a row.
LEMMA HeaderChunksRow ==
  ASSUME NEW from \in Nat, NEW to \in Nat, from <= to, NEW h, h = HeaderChunks(from, to)
  PROVE  Listed(h) /\ Len(h) >= 1 /\ Row(h, from, to + 1)
<1> DEFINE s == [i \in 1 .. to - from + 1 |-> from + i - 1]
           b == to + 1
           len == b - from
           n == Len(h)
           size == HEADER_BATCH
<1>1. b \in Nat /\ len \in Nat /\ len >= 1 /\ from <= b /\ to - from + 1 = len
  OBVIOUS
<1>2. s = Run(from, b) /\ Len(s) = len
  <2>1. s = Run(from, b)
    BY <1>1 DEF Run
  <2> HIDE DEF s, b
  <2>2. Len(s) = b - from
    BY <1>1, <2>1, RunFacts
  <2> QED BY <2>1, <2>2
<1>3. h = Chunks(s, size) /\ size \in Nat /\ size >= 1
  BY HeaderConstants DEF HeaderChunks
<1>4. n = Len(h)
  OBVIOUS
<1> HIDE DEF s, len, size, n
<1>5. n \in Nat /\ n >= 1 /\ Listed(h) /\ DOMAIN h = 1 .. n
  BY ONLY <1>4, <1>1, <1>2, <1>3, ChunksCut
<1>6. PICK e : Cuts(e, n, len, size) /\ \A k \in 1 .. n : h[k] = Part(s, e[k - 1], e[k])
  BY ONLY <1>4, <1>1, <1>2, <1>3, ChunksCut
<1>7. /\ e \in [0 .. n -> 0 .. len] /\ e[0] = 0 /\ e[n] = len
      /\ \A k \in 1 .. n : e[k - 1] < e[k]
      /\ \A j, k \in 0 .. n : j <= k => e[j] <= e[k]
  BY <1>6 DEF Cuts
<1> DEFINE c == [i \in 1 .. n + 1 |-> from + e[i - 1]]
<1>8. \A i \in 1 .. n + 1 : i - 1 \in 0 .. n /\ c[i] = from + e[i - 1] /\ e[i - 1] \in Nat /\ e[i - 1] <= len
  <2> SUFFICES ASSUME NEW i \in 1 .. n + 1
               PROVE  i - 1 \in 0 .. n /\ c[i] = from + e[i - 1] /\ e[i - 1] \in Nat /\ e[i - 1] <= len
    OBVIOUS
  <2>1. i - 1 \in 0 .. n
    BY <1>5
  <2>2. e[i - 1] \in 0 .. len
    BY <1>7, <2>1
  <2> QED BY <1>1, <2>1, <2>2
<1>9. c \in [1 .. n + 1 -> from .. b]
  <2>1. \A i \in 1 .. n + 1 : from + e[i - 1] \in from .. b
    BY <1>1, <1>8 DEF len
  <2> QED BY <2>1
<1>10. 1 \in 1 .. n + 1 /\ n + 1 \in 1 .. n + 1 /\ (n + 1) - 1 = n /\ 1 - 1 = 0
  BY <1>5
<1>11. c[1] = from /\ c[n + 1] = b
  <2>1. c[1] = from + e[0] /\ c[n + 1] = from + e[n]
    BY <1>10
  <2> HIDE DEF c
  <2> QED BY <1>1, <1>7, <2>1 DEF len
<1>12. \A i \in 1 .. n : i \in 1 .. n + 1 /\ i + 1 \in 1 .. n + 1 /\ (i + 1) - 1 = i
  BY <1>5
<1> HIDE DEF c
<1>13. \A i \in 1 .. n : c[i] < c[i + 1] /\ h[i] = Run(c[i], c[i + 1])
  <2> SUFFICES ASSUME NEW i \in 1 .. n
               PROVE  c[i] < c[i + 1] /\ h[i] = Run(c[i], c[i + 1])
    OBVIOUS
  <2> DEFINE x == e[i - 1]
             y == e[i]
  <2>1. c[i] = from + x /\ x \in Nat /\ x <= len
    BY <1>8, <1>12
  <2>2. c[i + 1] = from + y /\ y \in Nat /\ y <= len
    BY <1>8, <1>12
  <2>3. x < y /\ h[i] = Part(s, x, y)
    BY <1>6, <1>7
  <2> HIDE DEF x, y
  <2>4. Part(Run(from, b), x, y) = Run(from + x, from + y)
    <3>1. x <= y /\ y <= b - from
      BY <2>1, <2>2, <2>3 DEF len
    <3> HIDE DEF b
    <3> QED BY ONLY from \in Nat, <1>1, <2>1, <2>2, <3>1, RunPart
  <2>5. c[i] < c[i + 1]
    BY <2>1, <2>2, <2>3
  <2> QED BY <1>2, <2>1, <2>2, <2>3, <2>4, <2>5
<1>14. \A i, j \in 1 .. n + 1 : i <= j => c[i] <= c[j]
  <2> SUFFICES ASSUME NEW i \in 1 .. n + 1, NEW j \in 1 .. n + 1, i <= j
               PROVE  c[i] <= c[j]
    OBVIOUS
  <2>1. i - 1 \in 0 .. n /\ j - 1 \in 0 .. n /\ i - 1 <= j - 1
    BY <1>5
  <2>2. e[i - 1] <= e[j - 1]
    BY <1>7, <2>1
  <2>3. c[i] = from + e[i - 1] /\ e[i - 1] \in Nat /\ c[j] = from + e[j - 1] /\ e[j - 1] \in Nat
    BY <1>8
  <2> QED BY <2>2, <2>3
<1>15. Steps(c, n, from, b)
  BY <1>9, <1>11, <1>13, <1>14 DEF Steps
<1>16. Row(h, from, b)
  <2> HIDE DEF b
  <2> QED BY <1>9, <1>13, <1>15 DEF Row, n
<1> QED BY <1>5, <1>16 DEF n

\* Some posts of a row that follow each other are a row.
RowAt(h, n, c, a, b) == Steps(c, n, a, b) /\ \A i \in 1 .. n : h[i] = Run(c[i], c[i + 1])

LEMMA RowPart ==
  ASSUME NEW a \in Nat, NEW b \in Nat, NEW h, NEW n \in Nat, Listed(h), n = Len(h), NEW c, RowAt(h, n, c, a, b),
         NEW x \in Nat, NEW y \in Nat, x < y, y <= n, NEW m, m = y - x, NEW g, g = Part(h, x, y)
  PROVE  Listed(g) /\ Len(g) = m /\ Row(g, c[x + 1], c[y + 1])
<1> DEFINE d == [i \in 1 .. m + 1 |-> c[x + i]]
           lo == c[x + 1]
           hi == c[y + 1]
<1>1. /\ c \in [1 .. n + 1 -> a .. b] /\ (\A i \in 1 .. n : c[i] < c[i + 1])
      /\ \A i, j \in 1 .. n + 1 : i <= j => c[i] <= c[j]
  BY DEF Steps, RowAt
<1>2. m \in Nat /\ m >= 1 /\ x + 1 \in 1 .. n + 1 /\ y + 1 \in 1 .. n + 1 /\ x + (m + 1) = y + 1
  OBVIOUS
<1>3. g = [j \in 1 .. m |-> h[x + j]]
  <2>1. g = [j \in 1 .. (1 + y - (x + 1)) |-> h[j + (x + 1) - 1]]
    BY DEF Part
  <2>2. 1 + y - (x + 1) = m /\ \A j \in 1 .. m : j + (x + 1) - 1 = x + j
    OBVIOUS
  <2> QED BY <2>1, <2>2
<1>4. \A i \in 1 .. m : x + i \in 1 .. n /\ (x + i) + 1 = x + (i + 1)
  OBVIOUS
<1>5. \A i \in 1 .. m + 1 : x + i \in 1 .. n + 1 /\ x + 1 <= x + i /\ x + i <= y + 1
  OBVIOUS
<1>6. g = [j \in 1 .. m |-> g[j]] /\ \A i \in 1 .. m : g[i] = h[x + i]
  BY <1>3
<1>7. Listed(g) /\ Len(g) = m
  BY <1>2, <1>6, ListOf
<1>8. \A i \in 1 .. m + 1 : d[i] = c[x + i]
  OBVIOUS
<1>9. d \in [1 .. m + 1 -> lo .. hi]
  <2>1. \A i \in 1 .. n + 1 : c[i] \in Int
    <3>1. c \in [1 .. n + 1 -> a .. b]
      BY <1>1
    <3> QED BY ONLY a \in Nat, b \in Nat, <3>1
  <2>2. \A i \in 1 .. m + 1 : c[x + i] \in lo .. hi
    <3> SUFFICES ASSUME NEW i \in 1 .. m + 1
                 PROVE  c[x + i] \in lo .. hi
      OBVIOUS
    <3>1. x + i \in 1 .. n + 1 /\ x + 1 <= x + i /\ x + i <= y + 1
      BY <1>5
    <3>2. c[x + 1] <= c[x + i] /\ c[x + i] <= c[y + 1]
      BY <1>1, <1>2, <3>1
    <3>3. c[x + i] \in Int /\ c[x + 1] \in Int /\ c[y + 1] \in Int
      BY <1>2, <2>1, <3>1
    <3> QED BY <3>2, <3>3
  <2> QED BY <2>2
<1>10. d[1] = lo /\ d[m + 1] = hi
  <2>1. 1 \in 1 .. m + 1 /\ m + 1 \in 1 .. m + 1
    BY <1>2
  <2> HIDE DEF d
  <2>2. d[1] = c[x + 1] /\ d[m + 1] = c[x + (m + 1)]
    BY <1>8, <2>1
  <2>3. x + (m + 1) = y + 1
    BY <1>2
  <2> QED BY <2>2, <2>3, Zenon
<1> HIDE DEF d, lo, hi
<1>11. \A i \in 1 .. m : i \in 1 .. m + 1 /\ i + 1 \in 1 .. m + 1
  BY <1>2
<1>12. \A i \in 1 .. m : d[i] < d[i + 1] /\ g[i] = Run(d[i], d[i + 1])
  <2> SUFFICES ASSUME NEW i \in 1 .. m
               PROVE  d[i] < d[i + 1] /\ g[i] = Run(d[i], d[i + 1])
    OBVIOUS
  <2> DEFINE k == x + i
  <2>1. k \in 1 .. n /\ d[i] = c[k] /\ d[i + 1] = c[k + 1] /\ g[i] = h[k]
    <3>1. k \in 1 .. n /\ k + 1 = x + (i + 1)
      BY <1>4
    <3>2. d[i] = c[k] /\ g[i] = h[k]
      BY <1>6, <1>8, <1>11
    <3>3. d[i + 1] = c[x + (i + 1)]
      BY <1>8, <1>11
    <3> HIDE DEF k
    <3> QED BY <3>1, <3>2, <3>3, Zenon
  <2> HIDE DEF k
  <2>2. c[k] < c[k + 1] /\ h[k] = Run(c[k], c[k + 1])
    BY <1>1, <2>1 DEF RowAt
  <2> QED BY <2>1, <2>2
<1>13. \A i, j \in 1 .. m + 1 : i <= j => d[i] <= d[j]
  <2> SUFFICES ASSUME NEW i \in 1 .. m + 1, NEW j \in 1 .. m + 1, i <= j
               PROVE  d[i] <= d[j]
    OBVIOUS
  <2>1. x + i \in 1 .. n + 1 /\ x + j \in 1 .. n + 1 /\ x + i <= x + j
    BY <1>2, <1>5
  <2>2. c[x + i] <= c[x + j]
    BY <1>1, <2>1
  <2> QED BY <1>8, <2>2
<1>14. Steps(d, m, lo, hi)
  BY <1>9, <1>10, <1>12, <1>13 DEF Steps
<1>15. Row(g, lo, hi)
  BY <1>7, <1>9, <1>12, <1>14 DEF Row
<1> QED BY <1>7, <1>15 DEF lo, hi

\* One post is a row.
LEMMA RowOfOne ==
  ASSUME NEW a \in Nat, NEW b \in Nat, a < b, NEW g, g = <<Run(a, b)>>
  PROVE  Listed(g) /\ Len(g) = 1 /\ Row(g, a, b)
<1> DEFINE x == Run(a, b)
           c == [i \in 1 .. 2 |-> IF i = 1 THEN a ELSE b]
<1>1. g = <<x>>
  OBVIOUS
<1> HIDE DEF x
<1>2. Len(g) = 1 /\ g[1] = x /\ g = [i \in 1 .. 1 |-> g[i]]
  BY <1>1
<1>3. Listed(g)
  BY <1>2, ListOf
<1>4. c \in [1 .. 1 + 1 -> a .. b] /\ c[1] = a /\ c[1 + 1] = b
  OBVIOUS
<1>5. \A i \in 1 .. 1 : i = 1
  OBVIOUS
<1>6. \A i, j \in 1 .. 1 + 1 : i <= j => c[i] <= c[j]
  OBVIOUS
<1> HIDE DEF c
<1>7. Steps(c, 1, a, b)
  BY <1>4, <1>5, <1>6 DEF Steps
<1>8. \A i \in 1 .. 1 : g[i] = Run(c[i], c[i + 1])
  BY <1>2, <1>4, <1>5 DEF x
<1>9. Row(g, a, b)
  BY <1>2, <1>4, <1>7, <1>8 DEF Row
<1> QED BY <1>2, <1>3, <1>9


LEMMA LaidParallel ==
  ASSUME NEW from \in Nat, from = Synced + 1, NEW to \in Nat, from <= to, NEW h, Listed(h), Len(h) >= 1, Row(h, from, to + 1),
         NEW G, G = Chunks(h, PARALLEL)
  PROVE  Listed(G) /\ Len(G) >= 1 /\ Laid(G, from, to + 1)
<1> DEFINE b == to + 1
           N == Len(h)
           n == Len(G)
<1>1. N \in Nat /\ N >= 1 /\ N = Len(h)
  BY ListedIs
<1>2. PICK c : Steps(c, N, from, b) /\ \A i \in 1 .. N : h[i] = Run(c[i], c[i + 1])
  BY DEF Row
<1>3. PARALLEL \in Nat /\ PARALLEL >= 1 /\ n = Len(G) /\ b \in Nat
  BY HeaderConstants
<1> HIDE DEF N, n, b
<1>4. n \in Nat /\ n >= 1 /\ Listed(G) /\ DOMAIN G = 1 .. n
  BY ONLY G = Chunks(h, PARALLEL), <1>1, <1>3, ChunksCut
<1>5. PICK f : Cuts(f, n, N, PARALLEL) /\ \A k \in 1 .. n : G[k] = Part(h, f[k - 1], f[k])
  BY ONLY G = Chunks(h, PARALLEL), <1>1, <1>3, ChunksCut
<1>6. /\ f \in [0 .. n -> 0 .. N] /\ f[0] = 0 /\ f[n] = N
      /\ \A k \in 1 .. n : f[k - 1] < f[k] /\ f[k] <= f[k - 1] + PARALLEL
  BY <1>5 DEF Cuts
<1>7. c \in [1 .. N + 1 -> from .. b] /\ c[1] = from /\ c[N + 1] = b
  BY <1>2 DEF Steps
<1> DEFINE at == [g \in 1 .. n + 1 |-> c[f[g - 1] + 1]]
<1>8. \A g \in 0 .. n : f[g] \in Nat /\ f[g] <= N /\ f[g] + 1 \in 1 .. N + 1
  <2> SUFFICES ASSUME NEW g \in 0 .. n
               PROVE  f[g] \in Nat /\ f[g] <= N /\ f[g] + 1 \in 1 .. N + 1
    OBVIOUS
  <2>1. f[g] \in 0 .. N
    BY <1>6
  <2> QED BY <1>1, <2>1
<1>9. \A g \in 1 .. n + 1 : g - 1 \in 0 .. n
  BY <1>4
<1>10. at \in [1 .. n + 1 -> from .. b]
  <2>1. \A g \in 1 .. n + 1 : c[f[g - 1] + 1] \in from .. b
    <3> SUFFICES ASSUME NEW g \in 1 .. n + 1
                 PROVE  c[f[g - 1] + 1] \in from .. b
      OBVIOUS
    <3>1. f[g - 1] + 1 \in 1 .. N + 1
      BY <1>8, <1>9
    <3> QED BY <1>7, <3>1
  <2> QED BY <2>1
<1>11. \A g \in 1 .. n + 1 : at[g] = c[f[g - 1] + 1]
  OBVIOUS
<1> HIDE DEF at
<1>12. at[1] = from
  <2>1. 1 \in 1 .. n + 1 /\ 1 - 1 = 0 /\ 0 + 1 = 1
    BY <1>4
  <2>2. at[1] = c[f[1 - 1] + 1]
    BY <1>11, <2>1
  <2> QED BY <1>6, <1>7, <2>1, <2>2
<1>13. at[n + 1] = b
  <2>1. n + 1 \in 1 .. n + 1 /\ (n + 1) - 1 = n
    BY <1>4
  <2>2. at[n + 1] = c[f[(n + 1) - 1] + 1]
    BY <1>11, <2>1
  <2> QED BY <1>6, <1>7, <2>1, <2>2
<1>14. ASSUME NEW g \in 1 .. n
       PROVE  Listed(G[g]) /\ Len(G[g]) \in 1 .. PARALLEL /\ Row(G[g], at[g], at[g + 1])
  <2> DEFINE x == f[g - 1]
             y == f[g]
             z == G[g]
  <2>1. g \in 1 .. n + 1 /\ g + 1 \in 1 .. n + 1 /\ (g + 1) - 1 = g /\ g - 1 \in 0 .. n /\ g \in 0 .. n
    BY <1>4
  <2>2. at[g] = c[x + 1]
    BY <1>11, <2>1
  <2>3. at[g + 1] = c[f[(g + 1) - 1] + 1]
    BY <1>11, <2>1
  <2>4. at[g + 1] = c[y + 1]
    BY <2>1, <2>3
  <2>5. x \in Nat /\ y \in Nat /\ y <= N
    BY <1>8, <2>1
  <2>6. x < y /\ y <= x + PARALLEL
    BY <1>6
  <2>7. z = Part(h, x, y)
    BY <1>5
  <2> HIDE DEF x, y, z
  <2> DEFINE m == y - x
  <2>8. Listed(z) /\ Len(z) = m /\ Row(z, c[x + 1], c[y + 1])
    <3>1. RowAt(h, N, c, from, b)
      BY <1>2 DEF RowAt
    <3>2. from \in Nat /\ b \in Nat /\ N \in Nat /\ N = Len(h) /\ Listed(h) /\ m = y - x
      BY <1>1, <1>3
    <3> HIDE DEF m
    <3>3. Row(z, c[x + 1], c[y + 1])
      BY ONLY <2>5, <2>6, <2>7, <3>1, <3>2, RowPart
    <3>4. Listed(z)
      BY ONLY <2>5, <2>6, <2>7, <3>1, <3>2, RowPart
    <3>5. Len(z) = m
      <4>1. x <= y
        BY <2>5, <2>6
      <4> QED BY ONLY <2>5, <2>7, <3>2, <4>1, PartLen
    <3> QED BY <3>3, <3>4, <3>5
  <2>9. Len(z) \in 1 .. PARALLEL
    BY <1>3, <2>5, <2>6, <2>8
  <2> QED BY <2>2, <2>4, <2>8, <2>9 DEF z
<1>15. Laid(G, from, b)
  <2>1. \A g \in 1 .. Len(G) : Listed(G[g]) /\ Len(G[g]) \in 1 .. PARALLEL /\ Row(G[g], at[g], at[g + 1])
    BY <1>3, <1>14
  <2>2. at \in [1 .. Len(G) + 1 -> Synced + 1 .. b] /\ at[1] = from /\ at[Len(G) + 1] = b
    BY <1>3, <1>10, <1>12, <1>13
  <2> QED BY <2>1, <2>2 DEF Laid
<1> QED BY <1>3, <1>4, <1>15 DEF b

\* Groups of one post each.
OneRun(g, x, y) == x < y /\ g = <<Run(x, y)>>

LEMMA LaidOneByOne ==
  ASSUME NEW b \in Nat, NEW G, NEW n \in Nat, n >= 1, Listed(G), Len(G) = n,
         NEW c, c \in [1 .. n + 1 -> Synced + 1 .. b], c[1] = Synced + 1, c[n + 1] = b,
         \A i \in 1 .. n : OneRun(G[i], c[i], c[i + 1])
  PROVE  Listed(G) /\ Len(G) >= 1 /\ Laid(G, Synced + 1, b)
<1>1. Listed(G) /\ Len(G) = n
  OBVIOUS
<1>2. ASSUME NEW g \in 1 .. n
      PROVE  Listed(G[g]) /\ Len(G[g]) \in 1 .. PARALLEL /\ Row(G[g], c[g], c[g + 1])
  <2> DEFINE x == c[g]
             y == c[g + 1]
             z == G[g]
  <2>1. g \in 1 .. n + 1 /\ g + 1 \in 1 .. n + 1
    OBVIOUS
  <2>2. x \in Nat /\ y \in Nat
    <3>1. x \in Synced + 1 .. b /\ y \in Synced + 1 .. b
      BY <2>1
    <3> HIDE DEF x, y
    <3> QED BY <3>1, HeaderConstants
  <2>3. x < y /\ z = <<Run(x, y)>>
    BY DEF OneRun
  <2> HIDE DEF x, y, z
  <2>4. Listed(z) /\ Len(z) = 1 /\ Row(z, x, y)
    BY ONLY <2>2, <2>3, RowOfOne
  <2>5. Len(z) \in 1 .. PARALLEL
    BY <2>4, HeaderConstants
  <2> QED BY <2>4, <2>5 DEF x, y, z
<1>3. \A g \in 1 .. Len(G) : Listed(G[g]) /\ Len(G[g]) \in 1 .. PARALLEL /\ Row(G[g], c[g], c[g + 1])
  BY <1>1, <1>2
<1>4. c \in [1 .. Len(G) + 1 -> Synced + 1 .. b] /\ c[1] = Synced + 1 /\ c[Len(G) + 1] = b
  BY <1>1
<1>5. Laid(G, Synced + 1, b)
  BY <1>3, <1>4 DEF Laid
<1> QED BY <1>1, <1>5

LEMMA GroupsLaid ==
  ASSUME NEW mode \in HeaderModes, NEW from, from = Synced + 1, NEW to \in Nat, Synced < to,
         NEW G, G = Groups(mode, from, to)
  PROVE  Listed(G) /\ Len(G) >= 1 /\ Laid(G, from, to + 1)
<1> DEFINE h == HeaderChunks(from, to)
           b == to + 1
           N == Len(h)
<1>1. from \in Nat /\ from <= to /\ b \in Nat
  BY HeaderConstants
<1>2. Listed(h) /\ Len(h) >= 1 /\ Row(h, from, b)
  BY <1>1, HeaderChunksRow
<1>3. CASE mode = "parallel"
  <2>1. G = Chunks(h, PARALLEL)
    BY <1>3 DEF Groups
  <2> HIDE DEF h
  <2> QED BY <1>1, <1>2, <2>1, LaidParallel
<1>4. CASE mode = "serial"
  <2>1. G = [k \in DOMAIN h |-> <<h[k]>>]
    BY <1>4 DEF Groups
  <2> HIDE DEF h
  <2>2. N \in Nat /\ N >= 1 /\ DOMAIN h = 1 .. N
    BY <1>2, ListedIs
  <2>3. PICK c \in [1 .. N + 1 -> from .. b] : Steps(c, N, from, b) /\ \A i \in 1 .. N : h[i] = Run(c[i], c[i + 1])
    BY <1>2 DEF Row
  <2>4. c[1] = from /\ c[N + 1] = b /\ \A i \in 1 .. N : c[i] < c[i + 1]
    BY <2>3 DEF Steps
  <2> HIDE DEF N, b
  <2>5. \A i \in 1 .. N : G[i] = <<h[i]>>
    BY <2>1, <2>2
  <2>6. Listed(G) /\ Len(G) = N
    <3>1. G = [k \in 1 .. N |-> G[k]]
      BY <2>1, <2>2
    <3> QED BY <2>2, <3>1, ListOf
  <2>7. \A i \in 1 .. N : OneRun(G[i], c[i], c[i + 1])
    BY <2>3, <2>4, <2>5 DEF OneRun
  <2>8. c \in [1 .. N + 1 -> Synced + 1 .. b] /\ c[1] = Synced + 1
    BY <2>3, <2>4
  <2>9. Listed(G) /\ Len(G) >= 1 /\ Laid(G, Synced + 1, b)
    BY ONLY <1>1, <2>2, <2>4, <2>6, <2>7, <2>8, LaidOneByOne
  <2> QED BY <2>9 DEF b
<1>5. CASE mode = "single"
  <2> DEFINE n == to - from + 1
             c == [i \in 1 .. n + 1 |-> from + i - 1]
  <2>1. n \in Nat /\ n >= 1
    BY <1>1
  <2>2. G = [i \in 1 .. n |-> <<<<from + i - 1>>>>]
    BY <1>5 DEF Groups
  <2>3. c \in [1 .. n + 1 -> Synced + 1 .. b]
    BY <1>1
  <2>4. c[1] = Synced + 1 /\ c[n + 1] = b
    <3>1. 1 \in 1 .. n + 1 /\ n + 1 \in 1 .. n + 1 /\ from + 1 - 1 = Synced + 1 /\ from + (n + 1) - 1 = b
      BY <1>1, <2>1
    <3> HIDE DEF n, b
    <3> QED BY <3>1
  <2>5. \A i \in 1 .. n : <<from + i - 1>> = Run(from + i - 1, from + i)
    <3> SUFFICES ASSUME NEW i \in 1 .. n
                 PROVE  <<from + i - 1>> = Run(from + i - 1, from + i)
      OBVIOUS
    <3> DEFINE x == from + i - 1
    <3>1. x \in Nat /\ from + i = x + 1 /\ (x + 1) - x = 1 /\ x + 1 - 1 = x
      BY <1>1
    <3> HIDE DEF x
    <3>2. Run(x, x + 1) = [j \in 1 .. 1 |-> x + j - 1]
      BY <3>1 DEF Run
    <3>3. \A j \in 1 .. 1 : x + j - 1 = x
      BY <3>1
    <3>4. Run(x, x + 1) = [j \in 1 .. 1 |-> x]
      BY <3>2, <3>3
    <3>5. <<x>> = [j \in 1 .. 1 |-> x]
      OBVIOUS
    <3>6. <<x>> = Run(x, from + i)
      BY <3>1, <3>4, <3>5
    <3> QED BY <3>6 DEF x
  <2>6. \A i \in 1 .. n : c[i] = from + i - 1 /\ c[i + 1] = from + i
    <3> SUFFICES ASSUME NEW i \in 1 .. n
                 PROVE  c[i] = from + i - 1 /\ c[i + 1] = from + i
      OBVIOUS
    <3>1. i \in 1 .. n + 1 /\ i + 1 \in 1 .. n + 1 /\ from + (i + 1) - 1 = from + i
      BY <1>1, <2>1
    <3> HIDE DEF n
    <3> QED BY <3>1
  <2> HIDE DEF n, c, b
  <2>7. \A i \in 1 .. n : G[i] = <<Run(from + i - 1, from + i)>>
    BY <2>2, <2>5
  <2>8. \A i \in 1 .. n : OneRun(G[i], c[i], c[i + 1])
    <3>1. \A i \in 1 .. n : from + i - 1 < from + i
      BY <1>1
    <3> QED BY <2>6, <2>7, <3>1 DEF OneRun
  <2>9. Listed(G) /\ Len(G) = n
    <3>1. G = [k \in 1 .. n |-> G[k]]
      BY <2>2
    <3> QED BY <2>1, <3>1, ListOf
  <2>10. Listed(G) /\ Len(G) >= 1 /\ Laid(G, Synced + 1, b)
    BY ONLY <1>1, <2>1, <2>3, <2>4, <2>8, <2>9, LaidOneByOne
  <2> QED BY <2>10 DEF b
<1> QED BY <1>3, <1>4, <1>5 DEF HeaderModes

\* The first group, and the groups that are left after it.
FirstAt(group, a, x, b) == a \in Synced + 1 .. b /\ Listed(group) /\ Len(group) \in 1 .. PARALLEL /\ Row(group, a, x)

LeftAt(t, x, b) == (t = <<>> => x = b) /\ (t # <<>> => Listed(t) /\ Laid(t, x, b))

LEMMA LaidTail ==
  ASSUME NEW b \in Nat, NEW a, NEW G, Listed(G), G # <<>>, Laid(G, a, b), NEW t, t = Tail(G)
  PROVE  \E x \in Synced + 1 .. b : FirstAt(G[1], a, x, b) /\ LeftAt(t, x, b)
<1> DEFINE n == Len(G)
           m == Len(t)
<1>1. G \in Seq(Range(G))
  BY DEF Listed
<1>2. n \in Nat /\ n >= 1 /\ t \in Seq(Range(t)) /\ m = n - 1 /\ (t = <<>> <=> n = 1)
  <2>1. n \in Nat /\ n >= 1
    BY ONLY G # <<>>, t = Tail(G), <1>1, TailFacts
  <2>2. t \in Seq(Range(t)) /\ m = n - 1
    BY ONLY G # <<>>, t = Tail(G), <1>1, TailFacts
  <2>3. t = <<>> <=> n = 1
    BY ONLY G # <<>>, t = Tail(G), <1>1, TailFacts
  <2> QED BY <2>1, <2>2, <2>3
<1>3. \A j \in 1 .. m : t[j] = G[j + 1] /\ j + 1 \in 1 .. n
  BY <1>1, TailFacts
<1>4. PICK at \in [1 .. n + 1 -> Synced + 1 .. b] :
        /\ at[1] = a /\ at[n + 1] = b
        /\ \A g \in 1 .. n : Listed(G[g]) /\ Len(G[g]) \in 1 .. PARALLEL /\ Row(G[g], at[g], at[g + 1])
  BY DEF Laid
<1> HIDE DEF n, m
<1> DEFINE x == at[2]
           d == [g \in 1 .. m + 1 |-> at[g + 1]]
<1>5. 1 \in 1 .. n /\ 1 \in 1 .. n + 1 /\ 2 \in 1 .. n + 1 /\ 1 + 1 = 2
  BY <1>2
<1>6. x \in Synced + 1 .. b /\ a \in Synced + 1 .. b
  BY <1>4, <1>5
<1>7. Listed(G[1]) /\ Len(G[1]) \in 1 .. PARALLEL /\ Row(G[1], a, x)
  BY <1>4, <1>5
<1>8. t = <<>> => x = b
  <2> SUFFICES ASSUME t = <<>>
               PROVE  x = b
    OBVIOUS
  <2>1. n + 1 = 2
    BY <1>2
  <2> QED BY <1>4, <2>1
<1>9. Listed(t)
  BY <1>2 DEF Listed
<1>10. Laid(t, x, b)
  <2>1. \A g \in 1 .. m + 1 : g + 1 \in 1 .. n + 1
    BY <1>2
  <2>2. d \in [1 .. m + 1 -> Synced + 1 .. b] /\ \A g \in 1 .. m + 1 : d[g] = at[g + 1]
    BY <1>4, <2>1
  <2> HIDE DEF d
  <2>3. 1 \in 1 .. m + 1 /\ m + 1 \in 1 .. m + 1 /\ (m + 1) + 1 = n + 1 /\ \A g \in 1 .. m : g \in 1 .. m + 1 /\ g + 1 \in 1 .. m + 1
    BY <1>2
  <2>4. d[1] = x
    BY <1>5, <2>2, <2>3
  <2>5. d[m + 1] = b
    <3>1. d[m + 1] = at[(m + 1) + 1]
      BY <2>2, <2>3
    <3> QED BY <1>4, <2>3, <3>1
  <2>6. ASSUME NEW g \in 1 .. m
        PROVE  Listed(t[g]) /\ Len(t[g]) \in 1 .. PARALLEL /\ Row(t[g], d[g], d[g + 1])
    <3> DEFINE k == g + 1
    <3>1. t[g] = G[k] /\ k \in 1 .. n
      BY <1>3
    <3>2. d[g] = at[k] /\ d[g + 1] = at[k + 1]
      BY <2>2, <2>3
    <3> HIDE DEF k
    <3>3. Listed(G[k]) /\ Len(G[k]) \in 1 .. PARALLEL /\ Row(G[k], at[k], at[k + 1])
      BY <1>4, <3>1
    <3> QED BY <3>1, <3>2, <3>3
  <2> QED BY <2>2, <2>4, <2>5, <2>6 DEF Laid, m
<1> HIDE DEF x
<1> QED BY <1>6, <1>7, <1>8, <1>9, <1>10 DEF FirstAt, LeftAt


-----------------------------------------------------------------------------
(* What an answer about headers is worth. *)

\* An item that is no answer, or p's header for its height.
TrueItem(p, x) == x.err = TRUE \/ x.val = Null \/ x.id = MaxTip + 1 \/ x.val = Header(x.id, p)

ItemFields == {"id", "err", "val"}

\* No damage makes an item an answer that it was not.
LEMMA DamagedAreTrue ==
  ASSUME NEW p, NEW items, Listed(items), Len(items) >= 1, NEW mode, mode # "batched",
         \A i \in DOMAIN items : DOMAIN items[i] = ItemFields /\ TrueItem(p, items[i]),
         NEW s \in Damaged(items, mode), NEW k \in DOMAIN s
  PROVE  TrueItem(p, s[k])
<1> DEFINE n == Len(items)
<1>1. n \in Nat /\ n >= 1 /\ DOMAIN items = 1 .. n /\ 1 \in 1 .. n /\ n \in 1 .. n
  BY ListedIs
<1>2. CASE s = Front(items)
  <2>1. s = SubSeq(items, 1, n - 1)
    BY <1>2 DEF Front
  <2>2. s = [j \in 1 .. (1 + (n - 1) - 1) |-> items[j + 1 - 1]]
    BY <2>1
  <2> HIDE DEF n
  <2>3. 1 + (n - 1) - 1 = n - 1 /\ \A j \in 1 .. n - 1 : j + 1 - 1 = j /\ j \in 1 .. n
    BY <1>1
  <2>4. k \in 1 .. n /\ s[k] = items[k]
    BY <2>2, <2>3
  <2> QED BY <1>1, <2>4
<1>3. CASE s = [items EXCEPT ![1] = items[n]]
  <2> HIDE DEF n
  <2>1. k \in 1 .. n /\ (s[k] = items[k] \/ s[k] = items[n])
    BY <1>1, <1>3
  <2> QED BY <1>1, <2>1
<1>4. CASE s = [items EXCEPT ![n].err = TRUE]
  <2> HIDE DEF n
  <2>1. k \in 1 .. n /\ (s[k] = items[k] \/ s[k] = [items[n] EXCEPT !.err = TRUE])
    BY <1>1, <1>4
  <2>2. CASE s[k] = items[k]
    BY <1>1, <2>1, <2>2
  <2>3. CASE s[k] = [items[n] EXCEPT !.err = TRUE]
    <3>1. s[k].err = TRUE
      BY <1>1, <2>3 DEF ItemFields
    <3> QED BY <3>1 DEF TrueItem
  <2> QED BY <2>1, <2>2, <2>3
<1>5. CASE s = [items EXCEPT ![1].id = MaxTip + 1]
  <2>1. k \in 1 .. n /\ (s[k] = items[k] \/ s[k] = [items[1] EXCEPT !.id = MaxTip + 1])
    BY <1>1, <1>5
  <2>2. CASE s[k] = items[k]
    BY <1>1, <2>1, <2>2
  <2>3. CASE s[k] = [items[1] EXCEPT !.id = MaxTip + 1]
    <3>1. s[k].id = MaxTip + 1
      BY <1>1, <2>3 DEF ItemFields
    <3> QED BY <3>1 DEF TrueItem
  <2> QED BY <2>1, <2>2, <2>3
<1>6. CASE s = [items EXCEPT ![n].val = Null]
  <2> HIDE DEF n
  <2>1. k \in 1 .. n /\ (s[k] = items[k] \/ s[k] = [items[n] EXCEPT !.val = Null])
    BY <1>1, <1>6
  <2>2. CASE s[k] = items[k]
    BY <1>1, <2>1, <2>2
  <2>3. CASE s[k] = [items[n] EXCEPT !.val = Null]
    <3>1. s[k].val = Null
      BY <1>1, <2>3 DEF ItemFields
    <3> QED BY <3>1 DEF TrueItem
  <2> QED BY <2>1, <2>2, <2>3
<1> QED BY <1>2, <1>3, <1>4, <1>5, <1>6 DEF Damaged

\* Whatever a provider makes of a batch of headers, what looks like an answer is one.
LEMMA BatchItemsTrue ==
  ASSUME NEW p, NEW mode \in SideBySide, NEW keys, Listed(keys), Len(keys) >= 1,
         NEW reply \in BatchReplies(p, mode, keys), reply.how = "json", NEW k \in DOMAIN reply.items
  PROVE  TrueItem(p, reply.items[k])
<1> DEFINE Asked(i) == Item(IF mode = "batched" THEN i - 1 ELSE keys[i], Serve(p, mode, keys[i]))
           items == [i \in DOMAIN keys |-> Asked(i)]
           n == Len(keys)
<1>1. n \in Nat /\ n >= 1 /\ DOMAIN keys = 1 .. n
  BY ListedIs
<1>2. Listed(items) /\ Len(items) = n /\ DOMAIN items = 1 .. n
  <2> HIDE DEF Asked, n
  <2>1. items = [i \in 1 .. n |-> items[i]]
    BY <1>1
  <2> QED BY <1>1, <2>1, ListOf
<1>3. ASSUME NEW i \in DOMAIN items
      PROVE  DOMAIN items[i] = ItemFields /\ TrueItem(p, items[i])
  <2> DEFINE key == keys[i]
             v == Serve(p, mode, key)
  <2>1. items[i] = Item(key, v)
    BY DEF SideBySide
  <2>2. v = Null \/ v = Header(key, p)
    BY DEF Serve, SideBySide, Header
  <2> HIDE DEF items, key, v
  <2>3. DOMAIN items[i] = ItemFields /\ items[i].id = key /\ items[i].val = v
    BY <2>1 DEF Item, ItemFields
  <2> QED BY <2>2, <2>3 DEF TrueItem
<1>4. \/ reply \in {Lost, Bad}
      \/ \E s \in Orders(items) \cup Damaged(items, mode) : reply = Reply(s)
  <2>1. reply \in {Reply(s) : s \in Orders(items)} \cup {Lost, Bad} \cup {Reply(s) : s \in Damaged(items, mode)}
    <3>1. CASE health[p] = "good"
      BY <3>1 DEF BatchReplies
    <3>2. CASE health[p] = "nobatch"
      BY <3>2 DEF BatchReplies
    <3>3. CASE health[p] # "good" /\ health[p] # "nobatch"
      BY <3>3 DEF BatchReplies
    <3> QED BY <3>1, <3>2, <3>3
  <2> HIDE DEF items
  <2> QED BY <2>1
<1> HIDE DEF items
<1>5. PICK s \in Orders(items) \cup Damaged(items, mode) : reply = Reply(s)
  BY <1>4 DEF Lost, Bad
<1>6. reply.items = s
  BY <1>5 DEF Reply
<1>7. CASE s \in Orders(items)
  <2>1. PICK perm \in [DOMAIN items -> DOMAIN items] : s = [i \in DOMAIN items |-> items[perm[i]]]
    BY <1>7 DEF Orders
  <2>2. perm[k] \in DOMAIN items /\ s[k] = items[perm[k]]
    BY <1>6, <2>1
  <2> QED BY <1>3, <1>6, <2>2
<1>8. CASE s \in Damaged(items, mode)
  <2>1. mode # "batched" /\ k \in DOMAIN s /\ Len(items) >= 1
    BY <1>1, <1>2, <1>6 DEF SideBySide
  <2>2. \A i \in DOMAIN items : DOMAIN items[i] = ItemFields /\ TrueItem(p, items[i])
    BY <1>3
  <2>3. TrueItem(p, s[k])
    BY <1>2, <1>8, <2>1, <2>2, DamagedAreTrue
  <2> QED BY <1>6, <2>3
<1> QED BY <1>7, <1>8

\* A batch that is accepted is p's headers for the heights that were asked for, in their order.
LEMMA JudgedHeaders ==
  ASSUME NEW p, NEW mode \in SideBySide, NEW a \in Nat, NEW b \in Nat, a < b, b <= MaxTip + 1, NEW keys, keys = Run(a, b),
         NEW reply \in BatchReplies(p, mode, keys), NEW res, res = Judged(mode, keys, reply), res.st = "ok"
  PROVE  res.vals = Stamped(p, keys)
<1> DEFINE items == reply.items
           m == b - a
<1>1. Listed(keys) /\ Len(keys) = m /\ m \in Nat /\ m >= 1
  <2>1. a <= b /\ m \in Nat /\ m >= 1
    OBVIOUS
  <2> QED BY <2>1, RunFacts
<1>2. keys[1] = a /\ keys[Len(keys)] = b - 1
  <2>1. \A j \in 1 .. b - a : keys[j] = a + j - 1
    BY RunAre
  <2>2. 1 \in 1 .. b - a /\ m \in 1 .. b - a /\ a + 1 - 1 = a /\ a + m - 1 = b - 1
    OBVIOUS
  <2> HIDE DEF m
  <2> QED BY <1>1, <2>1, <2>2
<1>3. reply.how = "json" /\ res = HeadersFromBatch(items, a, b - 1)
  <2>1. reply.how = "json"
    BY Results DEF Judged
  <2> QED BY <1>2, <2>1 DEF Judged, SideBySide, Batches
<1>4. Listed(items)
  BY <1>1, <1>3, BatchRepliesAreLists
<1>5. /\ Len(items) = (b - 1) - a + 1
      /\ \A i \in DOMAIN items : ~items[i].err /\ items[i].id \in a .. b - 1 /\ items[i].val # Null
      /\ \A i, j \in DOMAIN items : ~(i # j /\ items[i].id = items[j].id)
      /\ res = Got(ById(items))
  <2> HIDE DEF items
  <2> QED BY <1>3, Results DEF HeadersFromBatch
<1>6. DOMAIN items = 1 .. m /\ a + m - 1 = b - 1 /\ a + m = b
  <2>1. DOMAIN items = 1 .. Len(items)
    BY <1>4, ListedIs
  <2>2. (b - 1) - a + 1 = m
    OBVIOUS
  <2> QED BY <1>5, <2>1, <2>2
<1>7. ASSUME NEW i \in 1 .. m
      PROVE  items[i].id \in a .. a + m - 1 /\ items[i].val = Header(items[i].id, p)
  <2>1. TrueItem(p, items[i])
    BY <1>1, <1>3, <1>6, BatchItemsTrue
  <2>2. ~items[i].err /\ items[i].id \in a .. b - 1 /\ items[i].val # Null
    BY <1>5, <1>6
  <2> DEFINE id == items[i].id
  <2>3. id # MaxTip + 1
    <3>1. id \in a .. b - 1
      BY <2>2
    <3> HIDE DEF id
    <3> QED BY <3>1, HeaderConstants
  <2>4. items[i].val = Header(items[i].id, p)
    BY <2>1, <2>2, <2>3 DEF TrueItem
  <2> QED BY <1>6, <2>2, <2>4
<1>8. \A i, j \in 1 .. m : items[i].id = items[j].id => i = j
  BY <1>5, <1>6
<1> HIDE DEF items, m
<1>9. ById(items) = HeadersOf(p, a, a + m)
  <2>1. DOMAIN items = 1 .. m /\ m \in Nat
    BY <1>1, <1>6
  <2>2. \A i \in 1 .. m : items[i].id \in a .. a + m - 1 /\ items[i].val = Header(items[i].id, p)
    BY <1>7
  <2>3. a \in Nat
    OBVIOUS
  <2> QED BY ONLY <1>8, <2>1, <2>2, <2>3, ByIdInOrder
<1>10. res.vals = HeadersOf(p, a, b)
  BY <1>5, <1>6, <1>9, Results
<1>11. Stamped(p, keys) = HeadersOf(p, a, b)
  <2>1. a <= b
    OBVIOUS
  <2> QED BY <2>1, StampedRun
<1> QED BY <1>10, <1>11

\* A single call that is accepted was answered with what the provider has.
GotOne(res, v) == v # Null /\ res.vals = <<v>>

LEMMA JudgedSingle ==
  ASSUME NEW p, NEW mode, mode \in {"number", "single"}, NEW keys, NEW key, key = keys[1],
         NEW reply, reply \in CallReplies(p, mode, key),
         NEW res, res = Judged(mode, keys, reply), res.st = "ok", NEW v, v = Serve(p, mode, key)
  PROVE  GotOne(res, v)
<1> DEFINE Says(x) == reply = Reply(<<Item(1, x)>>)
<1>1. reply.how = "json"
  BY Results DEF Judged
<1>2. Says(v) \/ Says(Null)
  <2>1. reply \in {Reply(<<Item(1, v)>>)} \cup {Lost, Bad, Unsupported, Reply(<<Item(1, Null)>>)}
    BY DEF CallReplies
  <2> QED BY <1>1, <2>1 DEF Lost, Bad, Unsupported
<1>3. ASSUME NEW x, Says(x)
      PROVE  GotOne(res, x)
  <2>1. reply.items = <<Item(1, x)>> /\ Item(1, x).val = x
    BY <1>3 DEF Reply, Item
  <2>2. reply.items[1].val = x
    BY <2>1
  <2>3. res = FromCall(mode, keys[1], x)
    BY <1>1, <2>2 DEF Judged, Batches
  <2>4. res = IF x = Null THEN Fail ELSE Got(<<x>>)
    BY <2>3 DEF FromCall
  <2> QED BY <2>4, Results DEF GotOne
<1> QED BY <1>2, <1>3 DEF GotOne


-----------------------------------------------------------------------------
(* A sync keeps what it holds. *)

LEMMA OnesBegin ==
  ASSUME NEW mode, NEW from \in Nat, NEW to \in Nat, from <= to, NEW G, G = Groups(mode, from, to)
  PROVE  Ones(mode, G)
<1> SUFFICES ASSUME mode = "single", NEW g \in DOMAIN G
             PROVE  Len(G[g][1]) = 1
  BY DEF Ones
<1> DEFINE n == to - from + 1
           x == from + g - 1
           y == <<x>>
<1>1. G = [i \in 1 .. n |-> <<<<from + i - 1>>>>]
  BY DEF Groups
<1>2. G[g] = <<y>>
  BY <1>1
<1> HIDE DEF x
<1>3. Len(y) = 1
  OBVIOUS
<1> HIDE DEF y
<1>4. G[g][1] = y
  BY <1>2
<1> QED BY <1>3, <1>4

LEMMA OnesTail ==
  ASSUME NEW mode, NEW G, Listed(G), G # <<>>, Ones(mode, G), NEW t, t = Tail(G)
  PROVE  Ones(mode, t)
<1>1. G \in Seq(Range(G))
  BY DEF Listed
<1>2. \A j \in 1 .. Len(t) : t[j] = G[j + 1] /\ j + 1 \in 1 .. Len(G)
  BY ONLY G # <<>>, t = Tail(G), <1>1, TailFacts
<1>3. DOMAIN G = 1 .. Len(G)
  BY ONLY G # <<>>, t = Tail(G), <1>1, TailFacts
<1>4. DOMAIN t = 1 .. Len(t)
  BY ONLY G # <<>>, t = Tail(G), <1>1, TailFacts
<1> SUFFICES ASSUME mode = "single", NEW g \in DOMAIN t
             PROVE  Len(t[g][1]) = 1
  BY DEF Ones
<1> DEFINE k == g + 1
<1>5. t[g] = G[k] /\ k \in DOMAIN G
  BY <1>2, <1>3, <1>4
<1> HIDE DEF k
<1>6. Len(G[k][1]) = 1
  BY <1>5 DEF Ones
<1> QED BY <1>5, <1>6

\* Posts that have just been made are one for each part of the group, and not answered.
LEMMA PostsOf ==
  ASSUME NEW group, Listed(group), NEW posts, posts = Posts(group)
  PROVE  /\ Listed(posts) /\ Len(posts) = Len(group)
         /\ \A i \in DOMAIN posts : posts[i].keys = group[i] /\ posts[i].tries = 1 /\ posts[i].res = Waiting
<1> DEFINE n == Len(group)
<1>1. n \in Nat /\ DOMAIN group = 1 .. n
  BY ListedIs
<1>2. posts = [i \in 1 .. n |-> [keys |-> group[i], tries |-> 1, res |-> Waiting]]
  BY <1>1 DEF Posts
<1> HIDE DEF n
<1>3. \A i \in DOMAIN posts : posts[i].keys = group[i] /\ posts[i].tries = 1 /\ posts[i].res = Waiting
  BY <1>2
<1>4. posts = [i \in 1 .. n |-> posts[i]]
  BY <1>2
<1>5. Listed(posts) /\ Len(posts) = n
  BY <1>1, <1>4, ListOf
<1> QED BY <1>3, <1>5 DEF n

\* Posts of any group are first attempts that are not answered.
LEMMA PostsAreNew ==
  ASSUME NEW group, NEW posts, posts = Posts(group)
  PROVE  \A i \in DOMAIN posts : posts[i].tries \in 1 .. ATTEMPTS /\ posts[i].res = Waiting
<1>1. posts = [i \in DOMAIN group |-> [keys |-> group[i], tries |-> 1, res |-> Waiting]]
  BY DEF Posts
<1>2. \A i \in DOMAIN posts : posts[i].tries = 1 /\ posts[i].res = Waiting
  BY <1>1
<1>3. 1 \in 1 .. ATTEMPTS
  BY HeaderConstants
<1> QED BY <1>2, <1>3

\* The keys of a post of headers are heights in a row, within what any provider can have.
LEMMA PostRun ==
  ASSUME NEW r, HeldBusy(r), r.mode \in HeaderModes, NEW i \in DOMAIN r.posts, NEW keys, keys = r.posts[i].keys
  PROVE  \E x, y \in Nat : x < y /\ y <= MaxTip + 1 /\ keys = Run(x, y) /\ (r.mode = "single" /\ i = 1 => y = x + 1)
<1> DEFINE g == r.groups
           h == r.groups[1]
           b == r.to + 1
           n == Len(h)
<1>1. r.to \in Synced + 1 .. MaxTip /\ InFlight(r) /\ Ones(r.mode, g)
  BY DEF HeldBusy
<1>2. PICK a \in Synced + 1 .. r.to + 1 : HeadersAt(r, a)
  BY DEF HeldBusy
<1>3. Listed(g) /\ g # <<>> /\ Laid(g, a, b)
  BY <1>2 DEF HeadersAt
<1>4. b \in Nat /\ b <= MaxTip + 1
  <2> DEFINE z == r.to
  <2>1. z \in Synced + 1 .. MaxTip
    BY <1>1
  <2> HIDE DEF z
  <2>2. z + 1 \in Nat /\ z + 1 <= MaxTip + 1
    BY <2>1, HeaderConstants
  <2> QED BY <2>2 DEF z
<1>5. 1 \in DOMAIN g
  <2> HIDE DEF g
  <2>1. g \in Seq(Range(g)) /\ g # <<>>
    BY <1>3 DEF Listed
  <2> QED BY ONLY <2>1
<1>6. PICK x \in Synced + 1 .. b : Listed(h) /\ a \in Synced + 1 .. b /\ Row(h, a, x)
  <2> DEFINE t == Tail(g)
  <2>1. t = Tail(g) /\ h = g[1]
    OBVIOUS
  <2> HIDE DEF g, b, t, h
  <2>2. PICK x \in Synced + 1 .. b : FirstAt(g[1], a, x, b)
    BY ONLY <1>3, <1>4, <2>1, LaidTail
  <2> QED BY <2>1, <2>2 DEF FirstAt
<1>7. i \in 1 .. n /\ keys = h[i]
  <2> DEFINE w == r.posts
  <2>1. Listed(w) /\ Len(w) = n /\ w[i].keys = h[i] /\ i \in DOMAIN w /\ keys = w[i].keys
    BY <1>1 DEF InFlight
  <2>2. DOMAIN w = 1 .. n
    <3> HIDE DEF w, n, h
    <3> QED BY <2>1, ListedIs
  <2> HIDE DEF w, n, h
  <2> QED BY <2>1, <2>2
<1>8. n \in Nat
  <2> HIDE DEF h
  <2> QED BY <1>6, ListedIs
<1>9. PICK c \in [1 .. n + 1 -> a .. x] : Steps(c, n, a, x) /\ \A j \in 1 .. n : h[j] = Run(c[j], c[j + 1])
  BY <1>6 DEF Row
<1> DEFINE u == c[i]
           v == c[i + 1]
<1>10. i \in 1 .. n + 1 /\ i + 1 \in 1 .. n + 1
  <2> HIDE DEF n
  <2> QED BY <1>7, <1>8
<1>11. u \in a .. x /\ v \in a .. x /\ u < v /\ keys = Run(u, v)
  <2> HIDE DEF n, h
  <2> QED BY <1>7, <1>9, <1>10 DEF Steps
<1> HIDE DEF u, v, b
<1>12. u \in Nat /\ v \in Nat /\ v <= MaxTip + 1
  BY <1>4, <1>6, <1>11, HeaderConstants
<1>13. r.mode = "single" /\ i = 1 => v = u + 1
  <2> SUFFICES ASSUME r.mode = "single", i = 1
               PROVE  v = u + 1
    OBVIOUS
  <2>1. Len(keys) = 1
    BY <1>1, <1>5, <1>7 DEF Ones
  <2>2. Len(keys) = v - u
    <3>1. u <= v
      BY <1>11, <1>12
    <3> QED BY <1>11, <1>12, <3>1, RunFacts
  <2>3. 1 = v - u
    BY <2>1, <2>2
  <2> QED BY <1>12, <2>3
<1> QED BY <1>11, <1>12, <1>13


\* One header is a range of one.
LEMMA OneHeader ==
  ASSUME NEW p, NEW x \in Nat, NEW keys, keys = Run(x, x + 1)
  PROVE  keys[1] = x /\ Stamped(p, keys) = <<Header(x, p)>>
<1> DEFINE y == x + 1
           h == Header(x, p)
<1>1. y \in Nat /\ x <= y /\ y - x = 1 /\ x + 1 - 1 = x
  OBVIOUS
<1>2. \A j \in 1 .. y - x : keys[j] = x + j - 1
  <2>1. keys = Run(x, y)
    OBVIOUS
  <2> HIDE DEF y
  <2> QED BY <1>1, <2>1, RunAre
<1>3. Stamped(p, keys) = HeadersOf(p, x, y)
  <2>1. keys = Run(x, y)
    OBVIOUS
  <2> HIDE DEF y
  <2> QED BY <1>1, <2>1, StampedRun
<1>4. HeadersOf(p, x, y) = [j \in 1 .. 1 |-> Header(x + j - 1, p)]
  <2> HIDE DEF y
  <2> QED BY <1>1 DEF HeadersOf
<1>5. \A j \in 1 .. 1 : x + j - 1 = x
  OBVIOUS
<1>6. HeadersOf(p, x, y) = [j \in 1 .. 1 |-> h]
  <2> HIDE DEF y
  <2> QED BY <1>4, <1>5
<1>7. [j \in 1 .. 1 |-> h] = <<h>>
  <2> HIDE DEF h
  <2> QED OBVIOUS
<1>8. keys[1] = x
  <2> HIDE DEF y
  <2>1. 1 \in 1 .. y - x
    BY <1>1
  <2> QED BY <1>1, <1>2, <2>1
<1> QED BY <1>3, <1>6, <1>7, <1>8

\* A post that is answered holds the height of a provider, or the headers it asked for.
LEMMA JudgedHeld ==
  ASSUME tips \in [Providers -> Synced .. MaxTip], NEW r, ReqSound(r), r.at = "busy", HeldBusy(r),
         NEW i \in DOMAIN r.posts, NEW keys, keys = r.posts[i].keys, NEW reply,
         r.mode \in Batches => reply \in BatchReplies(r.prov, r.mode, keys),
         r.mode \notin Batches => reply \in CallReplies(r.prov, r.mode, keys[1]),
         NEW res, res = Judged(r.mode, keys, reply), res.st = "ok"
  PROVE  (r.mode = "number" => Told(res.vals)) /\ (r.mode \in HeaderModes => res.vals = Stamped(r.prov, keys))
<1> DEFINE p == r.prov
           mode == r.mode
<1>1. p \in Providers
  BY DEF ReqSound, ReqShape, Askable
<1>2. CASE mode = "number"
  <2> DEFINE v == Serve(p, mode, keys[1])
  <2>1. mode \in {"number", "single"} /\ mode \notin Batches /\ mode \notin HeaderModes
    BY <1>2 DEF Batches, HeaderModes
  <2>2. reply \in CallReplies(p, mode, keys[1]) /\ res = Judged(mode, keys, reply)
    BY <2>1
  <2>3. v = Header(tips[p], p)
    BY <1>2 DEF Serve, Header
  <2>4. v = Serve(p, mode, keys[1])
    OBVIOUS
  <2> HIDE DEF v, mode, p
  <2>5. res.vals = <<v>>
    <3> DEFINE key == keys[1]
    <3>1. key = keys[1] /\ reply \in CallReplies(p, mode, key) /\ v = Serve(p, mode, key) /\ res = Judged(mode, keys, reply)
      BY <2>2, <2>4
    <3> HIDE DEF key
    <3>2. GotOne(res, v)
      BY ONLY res.st = "ok", <2>1, <3>1, JudgedSingle
    <3> QED BY <3>2 DEF GotOne
  <2>6. tips[p] \in Synced .. MaxTip
    BY <1>1
  <2>7. Told(res.vals)
    BY <1>1, <2>3, <2>5, <2>6 DEF Told
  <2> QED BY <2>1, <2>7 DEF mode
<1>3. ASSUME mode \in HeaderModes
      PROVE  \E x, y \in Nat : x < y /\ y <= MaxTip + 1 /\ keys = Run(x, y) /\ (r.mode = "single" /\ i = 1 => y = x + 1)
  BY <1>3, PostRun
<1>4. CASE mode = "single"
  <2>1. mode \in {"number", "single"} /\ mode \notin Batches /\ mode \in HeaderModes /\ mode \notin SideBySide /\ mode # "number"
    BY <1>4 DEF Batches, HeaderModes, SideBySide
  <2>2. i = 1
    <3> DEFINE t == r.posts
               z == r.posts[1]
    <3>1. t = <<z>> /\ i \in DOMAIN t
      BY <2>1 DEF ReqSound, PostsSound
    <3> HIDE DEF t, z
    <3> QED BY <3>1
  <2>3. PICK x \in Nat : keys = Run(x, x + 1)
    BY <1>3, <1>4, <2>1, <2>2
  <2>4. keys[1] = x /\ Stamped(p, keys) = <<Header(x, p)>>
    <3> HIDE DEF p
    <3> QED BY <2>3, OneHeader
  <2> DEFINE v == Serve(p, mode, keys[1])
  <2>5. reply \in CallReplies(p, mode, keys[1]) /\ res = Judged(mode, keys, reply) /\ v = Serve(p, mode, keys[1])
    BY <2>1
  <2>6. v = Null \/ v = Header(x, p)
    BY <1>4, <2>4 DEF Serve, Header
  <2> HIDE DEF v, mode, p
  <2>7. v # Null /\ res.vals = <<v>>
    <3> DEFINE key == keys[1]
    <3>1. key = keys[1] /\ reply \in CallReplies(p, mode, key) /\ v = Serve(p, mode, key) /\ res = Judged(mode, keys, reply)
      BY <2>5
    <3> HIDE DEF key
    <3>2. GotOne(res, v)
      BY ONLY res.st = "ok", <2>1, <3>1, JudgedSingle
    <3> QED BY <3>2 DEF GotOne
  <2> QED BY <2>1, <2>4, <2>6, <2>7 DEF mode, p
<1>5. CASE mode \in SideBySide
  <2>1. mode \in HeaderModes /\ mode \in Batches /\ mode # "number"
    BY <1>5 DEF SideBySide, HeaderModes, Batches
  <2>2. PICK x, y \in Nat : x < y /\ y <= MaxTip + 1 /\ keys = Run(x, y)
    BY <1>3, <2>1
  <2>3. reply \in BatchReplies(p, mode, keys) /\ res = Judged(mode, keys, reply)
    BY <2>1
  <2> HIDE DEF mode, p
  <2>4. res.vals = Stamped(p, keys)
    BY ONLY res.st = "ok", <1>5, <2>2, <2>3, JudgedHeaders
  <2> QED BY <2>1, <2>4 DEF mode, p
<1> QED BY <1>2, <1>4, <1>5 DEF HeaderModes, SideBySide

LEMMA NoHeaders ==
  ASSUME NEW p
  PROVE  HeadersOf(p, Synced + 1, Synced + 1) = <<>>
<1> DEFINE z == Synced + 1
           e == HeadersOf(p, z, z)
<1>1. z \in Nat /\ z <= z /\ z - z = 0 /\ e = HeadersOf(p, z, z)
  BY HeaderConstants
<1> HIDE DEF z, e
<1>2. e \in Seq(HeadersBy(p)) /\ Len(e) = z - z
  BY <1>1, HeadersFacts
<1>3. e \in Seq(HeadersBy(p)) /\ Len(e) = 0
  BY <1>1, <1>2
<1>4. e = <<>>
  BY ONLY <1>3, EmptySeq
<1> QED BY <1>4 DEF e, z

\* A request that begins to ask p in a mode holds what it should.
LEMMA BeginHeld ==
  ASSUME NEW r, DOMAIN r = Fields, r.at = "busy", r.answer = Waiting, NEW p, NEW mode,
         mode \in HeaderModes => r.from = Synced + 1 /\ r.to \in Synced + 1 .. MaxTip,
         NEW s, s = Begin(r, p, mode)
  PROVE  HeldSound(s)
<1> DEFINE g == Groups(mode, r.from, r.to)
<1>1. /\ s.at = "busy" /\ s.answer = Waiting /\ s.to = r.to
      /\ s.prov = p /\ s.mode = mode /\ s.groups = g /\ s.posts = Posts(g[1]) /\ s.out = <<>>
  <2>1. s = [r EXCEPT !.prov = p, !.mode = mode, !.groups = g, !.posts = Posts(g[1]), !.out = <<>>]
    BY DEF Begin
  <2> HIDE DEF g
  <2> QED BY <2>1 DEF Fields
<1>2. \A i \in DOMAIN s.posts : s.posts[i].tries \in 1 .. ATTEMPTS /\ s.posts[i].res = Waiting
  <2> DEFINE group == g[1]
             posts == s.posts
  <2>1. posts = Posts(group)
    BY <1>1
  <2> HIDE DEF group, posts
  <2>2. \A i \in DOMAIN posts : posts[i].tries \in 1 .. ATTEMPTS /\ posts[i].res = Waiting
    BY ONLY <2>1, PostsAreNew
  <2> QED BY <2>2 DEF posts
<1>3. Waiting.st # "ok"
  BY Results
<1>4. ASSUME mode \in HeaderModes
      PROVE  InFlight(s) /\ HeadersAt(s, Synced + 1) /\ Ones(mode, g) /\ Synced + 1 \in Synced + 1 .. r.to + 1
  <2> DEFINE f == r.from
             to == r.to
  <2>1. f = Synced + 1 /\ f \in Nat /\ to \in Nat /\ Synced < to /\ f <= to /\ to + 1 >= f
    <3>1. f = Synced + 1 /\ to \in Synced + 1 .. MaxTip
      BY <1>4
    <3> HIDE DEF f, to
    <3> QED BY <3>1, HeaderConstants
  <2>2. g = Groups(mode, f, to)
    OBVIOUS
  <2> HIDE DEF f, to, g
  <2>3. Listed(g) /\ Len(g) >= 1 /\ Laid(g, f, to + 1)
    BY ONLY <1>4, <2>1, <2>2, GroupsLaid
  <2>4. Ones(mode, g)
    BY ONLY <2>1, <2>2, OnesBegin
  <2>5. g # <<>>
    BY <2>3
  <2> DEFINE group == g[1]
             posts == s.posts
  <2>6. Listed(group)
    <3> DEFINE t == Tail(g)
               b == to + 1
    <3>1. t = Tail(g) /\ b \in Nat
      BY <2>1
    <3>2. Laid(g, f, b)
      BY <2>3
    <3> HIDE DEF t, b
    <3>3. PICK x \in Synced + 1 .. b : FirstAt(g[1], f, x, b)
      BY ONLY <2>3, <2>5, <3>1, <3>2, LaidTail
    <3> QED BY <3>3 DEF FirstAt
  <2>7. posts = Posts(group)
    BY <1>1
  <2> HIDE DEF group, posts
  <2>8. Listed(posts) /\ Len(posts) = Len(group)
    BY ONLY <2>6, <2>7, PostsOf
  <2>9. \A i \in DOMAIN posts : posts[i].keys = group[i] /\ posts[i].res = Waiting
    BY ONLY <2>6, <2>7, PostsOf
  <2>10. InFlight(s)
    BY <1>1, <1>3, <2>8, <2>9 DEF InFlight, group, posts
  <2>11. HeadersOf(p, Synced + 1, Synced + 1) = <<>>
    BY NoHeaders
  <2>12. HeadersAt(s, Synced + 1)
    BY <1>1, <2>1, <2>3, <2>5, <2>11 DEF HeadersAt, to
  <2>13. Synced + 1 \in Synced + 1 .. to + 1
    BY <2>1, HeaderConstants
  <2> QED BY <2>4, <2>10, <2>12, <2>13 DEF to
<1> HIDE DEF g
<1>5. HeldBusy(s)
  <2>1. \A i \in DOMAIN s.posts : s.posts[i].res.st = "ok" => FALSE
    BY <1>2, <1>3
  <2>2. mode \in HeaderModes => /\ s.to \in Synced + 1 .. MaxTip /\ InFlight(s) /\ Ones(s.mode, s.groups)
                                /\ \E a \in Synced + 1 .. s.to + 1 : HeadersAt(s, a)
    BY <1>1, <1>4
  <2> QED BY <1>1, <1>2, <2>1, <2>2 DEF HeldBusy
<1> QED BY <1>1, <1>5 DEF HeldSound


\* A reply leaves a request holding what it should.
LEMMA ReceiveHeld ==
  ASSUME tips \in [Providers -> Synced .. MaxTip], NEW r, ReqSound(r), r.at = "busy", HeldBusy(r),
         NEW i \in DOMAIN r.posts, NEW keys, keys = r.posts[i].keys, NEW reply,
         r.mode \in Batches => reply \in BatchReplies(r.prov, r.mode, keys),
         r.mode \notin Batches => reply \in CallReplies(r.prov, r.mode, keys[1]),
         NEW s, NEW u,
         s = [r EXCEPT !.posts[i] = Posted(r.mode, r.posts[i], reply), !.unsupported = u]
  PROVE  HeldSound(s)
<1> DEFINE post == r.posts[i]
           new == Posted(r.mode, post, reply)
           res == Judged(r.mode, keys, reply)
           Fits(x) == x.st = "ok" => /\ (r.mode = "number" => Told(x.vals))
                                     /\ (r.mode \in HeaderModes => x.vals = Stamped(r.prov, keys))
<1>1. DOMAIN r = Fields /\ DOMAIN post = {"keys", "tries", "res"} /\ post.keys = keys
  BY DEF ReqSound, ReqShape, PostsSound
<1>2. r.answer = Waiting /\ post.tries \in 1 .. ATTEMPTS
  BY DEF HeldBusy
<1>3. Fits(post.res)
  BY <1>1 DEF HeldBusy, InFlight
<1>4. Fits(res)
  <2> SUFFICES ASSUME res.st = "ok"
               PROVE  /\ (r.mode = "number" => Told(res.vals))
                      /\ (r.mode \in HeaderModes => res.vals = Stamped(r.prov, keys))
    OBVIOUS
  <2>1. res = Judged(r.mode, keys, reply)
    OBVIOUS
  <2> HIDE DEF res
  <2> QED BY <2>1, JudgedHeld, ZenonT(60)
<1> HIDE DEF res, Fits
<1>5. new.keys = keys /\ new.tries \in 1 .. ATTEMPTS /\ Fits(new.res)
  <2>1. new = IF reply.how = "lost" /\ post.tries < ATTEMPTS THEN [post EXCEPT !.tries = @ + 1] ELSE [post EXCEPT !.res = res]
    BY <1>1 DEF Posted, res
  <2> HIDE DEF new, post
  <2>2. CASE reply.how = "lost" /\ post.tries < ATTEMPTS
    <3>1. new.keys = keys /\ new.res = post.res /\ new.tries = post.tries + 1
      BY <1>1, <2>1, <2>2
    <3> DEFINE k == post.tries
    <3>2. k \in 1 .. ATTEMPTS /\ k < ATTEMPTS /\ new.tries = k + 1
      BY <1>2, <2>2, <3>1
    <3> HIDE DEF k
    <3>3. k + 1 \in 1 .. ATTEMPTS
      BY <3>2, HeaderConstants
    <3> QED BY <1>3, <3>1, <3>2, <3>3
  <2>3. CASE ~(reply.how = "lost" /\ post.tries < ATTEMPTS)
    <3>1. new.keys = keys /\ new.res = res /\ new.tries = post.tries
      BY <1>1, <2>1, <2>3
    <3> QED BY <1>2, <1>4, <3>1
  <2> QED BY <2>2, <2>3
<1>6. /\ s.at = r.at /\ s.to = r.to /\ s.prov = r.prov /\ s.answer = r.answer
      /\ s.mode = r.mode /\ s.groups = r.groups /\ s.out = r.out
      /\ s.posts = [r.posts EXCEPT ![i] = new]
  <2> HIDE DEF new
  <2>1. s = [r EXCEPT !.posts[i] = new, !.unsupported = u]
    BY DEF new, post
  <2> QED BY <1>1, <2>1 DEF Fields
<1> HIDE DEF new, post
<1>7. DOMAIN s.posts = DOMAIN r.posts /\ \A j \in DOMAIN r.posts : s.posts[j] = IF j = i THEN new ELSE r.posts[j]
  BY <1>6
<1>8. \A j \in DOMAIN s.posts : s.posts[j].tries \in 1 .. ATTEMPTS
  BY <1>5, <1>7 DEF HeldBusy
<1>9. s.mode = "number" => \A j \in DOMAIN s.posts : s.posts[j].res.st = "ok" => Told(s.posts[j].res.vals)
  BY <1>5, <1>6, <1>7 DEF HeldBusy, Fits
<1>10. s.mode \in HeaderModes => InFlight(s)
  <2> SUFFICES ASSUME r.mode \in HeaderModes
               PROVE  InFlight(s)
    BY <1>6
  <2>1. InFlight(r)
    BY DEF HeldBusy
  <2>2. Listed(s.posts) /\ Len(s.posts) = Len(r.posts)
    <3> DEFINE w == s.posts
               z == r.posts
               n == Len(z)
    <3>1. Listed(z) /\ w = [z EXCEPT ![i] = new]
      BY <1>6, <2>1 DEF InFlight
    <3> HIDE DEF w, z
    <3>2. n \in Nat /\ DOMAIN z = 1 .. n
      BY <3>1, ListedIs
    <3> HIDE DEF n
    <3>3. w = [j \in 1 .. n |-> w[j]]
      BY <3>1, <3>2
    <3>4. Listed(w) /\ Len(w) = n
      BY <3>2, <3>3, ListOf
    <3> QED BY <3>4 DEF w, z, n
  <2>3. ASSUME NEW j \in DOMAIN s.posts
        PROVE  /\ s.posts[j].keys = s.groups[1][j]
               /\ s.posts[j].res.st = "ok" => s.posts[j].res.vals = Stamped(s.prov, s.posts[j].keys)
    <3>1. /\ r.posts[j].keys = r.groups[1][j]
          /\ r.posts[j].res.st = "ok" => r.posts[j].res.vals = Stamped(r.prov, r.posts[j].keys)
      BY <1>7, <2>1, <2>3 DEF InFlight
    <3>2. CASE j = i
      <4>1. s.posts[j] = new
        BY <1>7, <3>2
      <4> QED BY <1>5, <1>6, <3>1, <3>2, <4>1 DEF Fits
    <3>3. CASE j # i
      <4>1. s.posts[j] = r.posts[j]
        BY <1>7, <3>3
      <4> QED BY <1>6, <3>1, <4>1
    <3> QED BY <3>2, <3>3
  <2>4. Len(s.posts) = Len(s.groups[1])
    BY <1>6, <2>1, <2>2 DEF InFlight
  <2> QED BY <2>2, <2>3, <2>4 DEF InFlight
<1>11. s.mode \in HeaderModes => s.to \in Synced + 1 .. MaxTip /\ Ones(s.mode, s.groups)
  BY <1>6 DEF HeldBusy
<1>12. s.mode \in HeaderModes => \E a \in Synced + 1 .. s.to + 1 : HeadersAt(s, a)
  <2> SUFFICES ASSUME r.mode \in HeaderModes
               PROVE  \E a \in Synced + 1 .. s.to + 1 : HeadersAt(s, a)
    BY <1>6
  <2>1. PICK a \in Synced + 1 .. r.to + 1 : HeadersAt(r, a)
    BY DEF HeldBusy
  <2>2. HeadersAt(s, a)
    BY <1>6, <2>1 DEF HeadersAt
  <2> QED BY <1>6, <2>1, <2>2
<1>13. HeldBusy(s)
  BY <1>2, <1>6, <1>8, <1>9, <1>10, <1>11, <1>12 DEF HeldBusy
<1> QED BY <1>6, <1>13 DEF HeldSound

\* A request that is answered holds what it should.
LEMMA AnswerHeld ==
  ASSUME NEW r, DOMAIN r = Fields, NEW res, res # Waiting,
         r.kind = "sync" /\ res.st = "ok" =>
           r.to \in Synced .. MaxTip /\ \E p \in Providers : res.vals = HeadersOf(p, Synced + 1, r.to + 1),
         NEW s, s = Answer(r, res)
  PROVE  HeldSound(s)
<1>1. s.at = "done" /\ s.kind = r.kind /\ s.to = r.to /\ s.answer = res /\ s.posts = <<>> /\ s.out = <<>>
  BY DEF Answer, Fields
<1> QED BY <1>1 DEF HeldSound, HeldDone

\* A request that fails goes on in another way, for headers only if it was for headers, or ends.
LEMMA FailedIs ==
  ASSUME NEW r, NEW s, s = Failed(r)
  PROVE  \/ \E p, mode : (mode \in HeaderModes => r.mode \in HeaderModes) /\ s = Begin(r, p, mode)
         \/ s = Answer(r, Fail)
<1>1. CASE r.mode \in DOMAIN Slower
  <2> DEFINE mode == Slower[r.mode]
  <2>1. (mode \in HeaderModes => r.mode \in HeaderModes)
    <3>1. CASE r.mode = "parallel"
      BY <3>1 DEF Slower, HeaderModes
    <3>2. CASE r.mode = "serial"
      BY <3>2 DEF Slower, HeaderModes
    <3>3. CASE r.mode = "batched"
      BY <3>3 DEF Slower, HeaderModes
    <3> QED BY <1>1, <3>1, <3>2, <3>3 DEF Slower
  <2>2. s = Begin(r, r.prov, mode)
    BY <1>1 DEF Failed
  <2> HIDE DEF mode
  <2> QED BY <2>1, <2>2
<1>2. CASE r.mode \notin DOMAIN Slower /\ r.prov = "primary" /\ backup
  <2> DEFINE mode == FirstMode(r)
  <2>1. s = Begin(r, "backup", mode)
    BY <1>2 DEF Failed
  <2>2. mode \in HeaderModes => r.mode \in HeaderModes
    BY DEF FirstMode, HeaderModes
  <2> HIDE DEF mode
  <2> QED BY <2>1, <2>2 DEF Providers
<1>3. CASE r.mode \notin DOMAIN Slower /\ ~(r.prov = "primary" /\ backup) /\ r.mode \in {"by_number", "hash"}
  <2>1. PICK mode \in {"hash", "retry"} : s = Begin(r, "primary", mode)
    BY <1>3 DEF Failed
  <2> QED BY <2>1 DEF Providers, HeaderModes
<1>4. CASE r.mode \notin DOMAIN Slower /\ ~(r.prov = "primary" /\ backup) /\ r.mode \notin {"by_number", "hash"}
  BY <1>4 DEF Failed
<1> QED BY <1>1, <1>2, <1>3, <1>4


\* A request one of whose posts has failed goes on holding what it should.
LEMMA FailedHeld ==
  ASSUME NEW r, ReqSound(r), r.at = "busy", HeldBusy(r), NEW s, s = Failed(r)
  PROVE  HeldSound(s)
<1>1. DOMAIN r = Fields /\ (r.mode \in HeaderModes => r.from = Synced + 1)
  BY DEF ReqSound, ReqShape
<1>2. r.answer = Waiting /\ (r.mode \in HeaderModes => r.to \in Synced + 1 .. MaxTip)
  BY DEF HeldBusy
<1>3. CASE s = Answer(r, Fail)
  <2>1. Fail # Waiting /\ Fail.st # "ok"
    BY Results
  <2> QED BY <1>1, <1>3, <2>1, AnswerHeld
<1>4. ASSUME NEW p, NEW mode, mode \in HeaderModes => r.mode \in HeaderModes, s = Begin(r, p, mode)
      PROVE  HeldSound(s)
  BY <1>1, <1>2, <1>4, BeginHeld
<1> QED BY <1>3, <1>4, FailedIs

\* A request all of whose groups have been answered goes on holding what it should.
LEMMA CompleteHeld ==
  ASSUME NEW r, ReqShape(r), r.at = "busy", r.answer = Waiting, r.mode = "number" => Told(r.out),
         r.mode \in HeaderModes => r.to \in Synced + 1 .. MaxTip /\ r.out = HeadersOf(r.prov, Synced + 1, r.to + 1),
         NEW s, s = Complete(r)
  PROVE  HeldSound(s)
<1>1. DOMAIN r = Fields /\ r.kind \in DOMAIN ModesOf /\ r.mode \in ModesOf[r.kind] /\ r.prov \in Providers
  BY DEF ReqShape, Askable
<1>2. r.kind = "sync" <=> r.mode \in {"number"} \cup HeaderModes
  BY <1>1, Modes
<1>3. CASE r.mode = "number"
  <2>1. PICK h \in Synced .. MaxTip, p \in Providers : r.out = <<Header(h, p)>>
    BY <1>3 DEF Told
  <2>2. r.out[1][1] = h
    <3> DEFINE o == r.out
               e == Header(h, p)
    <3>1. o = <<e>> /\ e[1] = h
      BY <2>1 DEF Header
    <3> HIDE DEF o, e
    <3>2. o[1] = e
      BY <3>1
    <3> QED BY <3>1, <3>2 DEF o
  <2>3. h \in Nat /\ h >= Synced /\ h <= MaxTip
    BY <2>1, HeaderConstants
  <2>4. CASE h <= Synced
    <3> DEFINE q == [r EXCEPT !.to = h]
    <3>1. s = Answer(q, Got(<<>>))
      BY <1>3, <2>2, <2>4 DEF Complete
    <3>2. DOMAIN q = Fields /\ q.to = h
      BY <1>1 DEF Fields
    <3>3. h = Synced /\ h \in Synced .. MaxTip
      BY <2>1, <2>3, <2>4, HeaderConstants
    <3>4. Got(<<>>) # Waiting /\ Got(<<>>).vals = <<>>
      BY Results
    <3>5. Got(<<>>).vals = HeadersOf(p, Synced + 1, q.to + 1)
      BY <3>2, <3>3, <3>4, NoHeaders
    <3> HIDE DEF q
    <3> QED BY <3>1, <3>2, <3>3, <3>4, <3>5, AnswerHeld
  <2>5. CASE ~(h <= Synced)
    <3> DEFINE q == [r EXCEPT !.from = Synced + 1, !.to = h]
    <3>1. s = Begin(q, "primary", "parallel")
      BY <1>3, <2>2, <2>5 DEF Complete
    <3>2. DOMAIN q = Fields /\ q.at = "busy" /\ q.answer = Waiting /\ q.to = h /\ q.from = Synced + 1
      BY <1>1 DEF Fields
    <3> HIDE DEF q
    <3>3. q.to \in Synced + 1 .. MaxTip
      <4>1. h \in Synced + 1 .. MaxTip
        BY <2>3, <2>5, HeaderConstants
      <4> QED BY <3>2, <4>1
    <3> QED BY <3>1, <3>2, <3>3, BeginHeld
  <2> QED BY <2>4, <2>5
<1>4. CASE r.mode = "hashes"
  <2>1. s = Begin(r, r.prov, "batched")
    BY <1>4 DEF Complete
  <2>2. "batched" \notin HeaderModes
    BY DEF HeaderModes
  <2> QED BY <1>1, <2>1, <2>2, BeginHeld
<1>5. CASE r.mode \notin {"number", "hashes"}
  <2>1. s = Answer(r, Got(r.out))
    BY <1>5 DEF Complete
  <2> DEFINE res == Got(r.out)
  <2>2. res # Waiting /\ res.vals = r.out
    BY Results
  <2>3. r.kind = "sync" => /\ r.to \in Synced .. MaxTip
                           /\ \E p \in Providers : res.vals = HeadersOf(p, Synced + 1, r.to + 1)
    <3> SUFFICES ASSUME r.mode \in HeaderModes
                 PROVE  r.to \in Synced .. MaxTip /\ \E p \in Providers : res.vals = HeadersOf(p, Synced + 1, r.to + 1)
      BY <1>2, <1>5
    <3> DEFINE z == r.to
    <3>1. z \in Synced + 1 .. MaxTip
      OBVIOUS
    <3>2. r.to \in Synced .. MaxTip
      <4> HIDE DEF z
      <4>1. z \in Synced .. MaxTip
        BY <3>1, HeaderConstants
      <4> QED BY <4>1 DEF z
    <3> HIDE DEF res
    <3> QED BY <1>1, <2>2, <3>2
  <2>4. s = Answer(r, res)
    BY <2>1
  <2> HIDE DEF res
  <2> QED BY <1>1, <2>2, <2>3, <2>4, AnswerHeld
<1> QED BY <1>3, <1>4, <1>5


\* The headers of a group, joined to what came before it.
LEMMA HeadersJoined ==
  ASSUME NEW r, r.posts # <<>>, InFlight(r), \A i \in DOMAIN r.posts : r.posts[i].res.st = "ok",
         NEW a \in Nat, NEW x \in Nat, Synced + 1 <= a, r.out = HeadersOf(r.prov, Synced + 1, a),
         Listed(r.groups[1]), Len(r.groups[1]) >= 1, Row(r.groups[1], a, x)
  PROVE  Joined(r) = HeadersOf(r.prov, Synced + 1, x)
<1> DEFINE p == r.prov
           group == r.groups[1]
           posts == r.posts
           n == Len(group)
           f == [i \in DOMAIN posts |-> posts[i].res.vals]
           z == Synced + 1
<1>1. Listed(posts) /\ Len(posts) = n /\ Listed(group) /\ n >= 1 /\ Row(group, a, x)
  BY DEF InFlight
<1>2. \A i \in DOMAIN posts : posts[i].res.vals = Stamped(p, group[i])
  BY DEF InFlight
<1>3. Joined(r) = HeadersOf(p, z, a) \o FlattenSeq(f)
  BY DEF Joined
<1> HIDE DEF p, group, posts
<1>4. n \in Nat /\ DOMAIN posts = 1 .. n
  BY <1>1, ListedIs
<1>5. Len(f) = n
  <2> HIDE DEF n
  <2>1. f = [i \in 1 .. n |-> f[i]]
    BY <1>4
  <2> HIDE DEF f
  <2> QED BY <1>4, <2>1, ListOf
<1>6. \A i \in 1 .. n : f[i] = Stamped(p, group[i])
  <2> HIDE DEF n
  <2> QED BY <1>2, <1>4
<1>7. n = Len(group)
  OBVIOUS
<1>8. z \in Nat /\ z <= a
  BY HeaderConstants
<1> HIDE DEF n, f, z
<1>9. FlattenSeq(f) = HeadersOf(p, a, x)
  BY <1>1, <1>4, <1>5, <1>6, <1>7, FlattenRow
<1>10. a <= x
  <2>1. PICK c \in [1 .. n + 1 -> a .. x] : TRUE
    BY <1>1, <1>7 DEF Row
  <2>2. 1 \in 1 .. n + 1
    BY <1>4
  <2>3. c[1] \in a .. x
    BY <2>1, <2>2
  <2> QED BY <2>3
<1>11. HeadersOf(p, z, a) \o HeadersOf(p, a, x) = HeadersOf(p, z, x)
  BY <1>8, <1>10, HeadersJoin
<1> QED BY <1>3, <1>9, <1>11 DEF p, z

\* A request all of whose posts have been answered goes on holding what it should.
LEMMA JoinHeld ==
  ASSUME NEW r, ReqSound(r), r.at = "busy", HeldBusy(r), AllAnswered(r),
         NEW q, q = Taken(r), NEW s, s = Onward(q)
  PROVE  HeldSound(s)
<1> DEFINE mode == r.mode
           g == r.groups
           t == Tail(r.groups)
           out == Joined(r)
           b == r.to + 1
<1>1. ReqShape(r) /\ GroupsSound(r) /\ PostsSound(r)
  BY DEF ReqSound
<1>2. DOMAIN r = Fields /\ r.answer = Waiting
  BY <1>1 DEF ReqShape, HeldBusy
<1>3. /\ DOMAIN q = Fields /\ q.at = "busy" /\ q.kind = r.kind /\ q.from = r.from /\ q.to = r.to /\ q.prov = r.prov
      /\ q.mode = mode /\ q.groups = t /\ q.out = out /\ q.seen = r.seen /\ q.answer = Waiting
  <2> HIDE DEF out
  <2>1. q = [r EXCEPT !.out = out, !.groups = t]
    BY DEF out, Taken
  <2> QED BY <1>2, <2>1 DEF Fields
<1>4. ReqShape(q)
  BY <1>1, <1>3 DEF ReqShape
<1>5. \A i \in DOMAIN r.posts : r.posts[i].res.st = "ok"
  BY <1>1 DEF PostsSound, Ended, AllAnswered
<1>6. ASSUME mode = "number"
      PROVE  Told(out)
  <2>1. mode \notin SideBySide /\ mode \notin HeaderModes \cup RawModes
    BY <1>6 DEF SideBySide, HeaderModes, RawModes
  <2> DEFINE v == r.posts[1].res.vals
  <2>2. r.posts = <<r.posts[1]>> /\ r.out = <<>>
    BY <1>1, <2>1 DEF PostsSound, GroupsSound
  <2>3. 1 \in DOMAIN r.posts
    <3> DEFINE x == r.posts
               z == r.posts[1]
    <3>1. x = <<z>>
      BY <2>2
    <3> HIDE DEF x, z
    <3>2. 1 \in DOMAIN x
      BY <3>1
    <3> QED BY <3>2 DEF x
  <2>4. Told(v)
    BY <1>5, <1>6, <2>3 DEF HeldBusy
  <2>5. out = <<>> \o v
    BY <2>2, JoinedOne
  <2> HIDE DEF out, v
  <2>6. PICK x \in Synced .. MaxTip, p \in Providers : v = <<Header(x, p)>>
    BY <2>4 DEF Told
  <2>7. out = v
    <3> DEFINE e == Header(x, p)
    <3>1. v = <<e>>
      BY <2>6
    <3> HIDE DEF e
    <3> QED BY <2>5, <3>1
  <2> QED BY <2>4, <2>7
<1>7. ASSUME mode \in HeaderModes
      PROVE  \E x \in Synced + 1 .. b : LeftAt(t, x, b) /\ out = HeadersOf(r.prov, Synced + 1, x)
  <2>1. r.to \in Synced + 1 .. MaxTip /\ InFlight(r)
    BY <1>7 DEF HeldBusy
  <2>2. PICK a \in Synced + 1 .. r.to + 1 : HeadersAt(r, a)
    BY <1>7 DEF HeldBusy
  <2>3. Listed(g) /\ g # <<>> /\ Laid(g, a, b) /\ r.out = HeadersOf(r.prov, Synced + 1, a)
    BY <2>2 DEF HeadersAt
  <2>4. b \in Nat
    <3> DEFINE y == r.to
    <3>1. y \in Synced + 1 .. MaxTip
      BY <2>1
    <3> HIDE DEF y
    <3>2. y + 1 \in Nat
      BY <3>1, HeaderConstants
    <3> QED BY <3>2 DEF y
  <2>5. t = Tail(g) /\ a \in Synced + 1 .. b
    BY <2>2
  <2> HIDE DEF t, b, g
  <2>6. PICK x \in Synced + 1 .. b : FirstAt(g[1], a, x, b) /\ LeftAt(t, x, b)
    BY ONLY <2>3, <2>4, <2>5, LaidTail
  <2> DEFINE group == r.groups[1]
  <2>7. Listed(group) /\ Len(group) \in 1 .. PARALLEL /\ Row(group, a, x)
    BY <2>6 DEF FirstAt, g
  <2>8. Len(group) >= 1 /\ a \in Nat /\ x \in Nat /\ Synced + 1 <= a
    <3> HIDE DEF group
    <3> QED BY <2>4, <2>5, <2>6, <2>7, HeaderConstants
  <2>9. r.posts # <<>>
    <3>1. Len(r.posts) >= 1
      BY <2>1, <2>8 DEF InFlight
    <3> DEFINE w == r.posts
    <3>2. Len(w) >= 1
      BY <3>1
    <3> HIDE DEF w
    <3>3. w # <<>>
      BY <3>2
    <3> QED BY <3>3 DEF w
  <2>10. Joined(r) = HeadersOf(r.prov, Synced + 1, x)
    BY <1>5, <2>1, <2>3, <2>7, <2>8, <2>9, HeadersJoined
  <2> QED BY <2>6, <2>10
<1>8. CASE t = <<>>
  <2>1. s = Complete(q)
    BY <1>3, <1>8 DEF Onward
  <2>2. ASSUME mode \in HeaderModes
        PROVE  r.to \in Synced + 1 .. MaxTip /\ out = HeadersOf(r.prov, Synced + 1, b)
    <3>1. PICK x \in Synced + 1 .. b : LeftAt(t, x, b) /\ out = HeadersOf(r.prov, Synced + 1, x)
      BY <1>7, <2>2
    <3>2. x = b
      BY <1>8, <3>1 DEF LeftAt
    <3> QED BY <2>2, <3>1, <3>2 DEF HeldBusy
  <2>3. q.mode = "number" => Told(q.out)
    BY <1>3, <1>6
  <2>4. q.mode \in HeaderModes => q.to \in Synced + 1 .. MaxTip /\ q.out = HeadersOf(q.prov, Synced + 1, q.to + 1)
    BY <1>3, <2>2
  <2> QED BY <1>3, <1>4, <2>1, <2>3, <2>4, CompleteHeld
<1>9. CASE t # <<>>
  <2>1. s = [q EXCEPT !.posts = Posts(t[1])]
    BY <1>3, <1>9 DEF Onward
  <2>2. /\ s.at = "busy" /\ s.to = r.to /\ s.prov = r.prov /\ s.answer = Waiting
        /\ s.mode = mode /\ s.groups = t /\ s.out = out /\ s.posts = Posts(t[1])
    <3> HIDE DEF t, out, mode
    <3> QED BY <1>3, <2>1 DEF Fields
  <2> DEFINE group == t[1]
             posts == s.posts
  <2>3. posts = Posts(group)
    BY <2>2
  <2>4. \A i \in DOMAIN posts : posts[i].tries \in 1 .. ATTEMPTS /\ posts[i].res = Waiting
    <3> HIDE DEF group, posts
    <3> QED BY ONLY <2>3, PostsAreNew
  <2>5. Waiting.st # "ok"
    BY Results
  <2>6. ASSUME mode \in HeaderModes
        PROVE  /\ s.to \in Synced + 1 .. MaxTip /\ InFlight(s) /\ Ones(s.mode, s.groups)
               /\ \E a \in Synced + 1 .. s.to + 1 : HeadersAt(s, a)
    <3>1. PICK x \in Synced + 1 .. b : LeftAt(t, x, b) /\ out = HeadersOf(r.prov, Synced + 1, x)
      BY <1>7, <2>6
    <3>2. Listed(t) /\ Laid(t, x, b)
      BY <1>9, <3>1 DEF LeftAt
    <3>3. s.to \in Synced + 1 .. MaxTip
      BY <2>2, <2>6 DEF HeldBusy
    <3>4. b \in Nat
      <4> DEFINE y == r.to
      <4>1. y \in Synced + 1 .. MaxTip
        BY <2>2, <3>3
      <4> HIDE DEF y
      <4>2. y + 1 \in Nat
        BY <4>1, HeaderConstants
      <4> QED BY <4>2 DEF y
    <3>5. Listed(group)
      <4> DEFINE w == Tail(t)
      <4>1. w = Tail(t)
        OBVIOUS
      <4> HIDE DEF w, t, b
      <4>2. PICK y \in Synced + 1 .. b : FirstAt(t[1], x, y, b)
        BY ONLY <1>9, <3>2, <3>4, <4>1, LaidTail
      <4> QED BY <4>2 DEF FirstAt
    <3>6. Listed(posts) /\ Len(posts) = Len(group)
      <4> HIDE DEF group, posts
      <4> QED BY ONLY <2>3, <3>5, PostsOf
    <3>7. \A i \in DOMAIN posts : posts[i].keys = group[i] /\ posts[i].res = Waiting
      <4> HIDE DEF group, posts
      <4> QED BY ONLY <2>3, <3>5, PostsOf
    <3>8. InFlight(s)
      <4> HIDE DEF t
      <4> QED BY <2>2, <2>5, <3>6, <3>7 DEF InFlight
    <3>9. HeadersAt(s, x)
      <4> HIDE DEF t, out
      <4> QED BY <1>9, <2>2, <3>1, <3>2 DEF HeadersAt
    <3>10. Ones(s.mode, s.groups)
      <4>1. PICK a \in Synced + 1 .. r.to + 1 : HeadersAt(r, a)
        BY <2>6 DEF HeldBusy
      <4>2. Listed(g) /\ g # <<>> /\ Ones(mode, g)
        BY <2>6, <4>1 DEF HeadersAt, HeldBusy
      <4>3. t = Tail(g)
        OBVIOUS
      <4> HIDE DEF t, g, mode
      <4>4. Ones(mode, t)
        BY ONLY <4>2, <4>3, OnesTail
      <4> QED BY <2>2, <4>4
    <3> QED BY <2>2, <3>1, <3>3, <3>8, <3>9, <3>10
  <2>7. HeldBusy(s)
    <3>1. \A i \in DOMAIN s.posts : s.posts[i].tries \in 1 .. ATTEMPTS /\ ~(s.posts[i].res.st = "ok")
      BY <2>4, <2>5
    <3> HIDE DEF t, out
    <3> QED BY <2>2, <2>6, <3>1 DEF HeldBusy
  <2> QED BY <2>2, <2>7 DEF HeldSound
<1> QED BY <1>8, <1>9


LEMMA AskHeld ==
  ASSUME NEW kind \in DOMAIN FirstOf, Ask(kind)
  PROVE  HeldSound(req')
<1> DEFINE mode == FirstOf[kind]
           r == [at |-> "busy", kind |-> kind, from |-> 1, to |-> 0, prov |-> "primary", mode |-> mode,
                 groups |-> <<>>, posts |-> <<>>, out |-> <<>>, unsupported |-> FALSE, answer |-> Waiting, seen |-> tips]
<1>1. req' = Begin(r, "primary", mode)
  BY DEF Ask
<1>2. mode \notin HeaderModes
  BY DEF FirstOf, HeaderModes
<1> HIDE DEF mode
<1>3. DOMAIN r = Fields /\ r.at = "busy" /\ r.answer = Waiting
  BY DEF Fields
<1> HIDE DEF r
<1> QED BY <1>1, <1>2, <1>3, BeginHeld

LEMMA EndHeld ==
  ASSUME tips \in [Providers -> Synced .. MaxTip], ReqSound(req), req.at = "busy", HeldBusy(req), End
  PROVE  HeldSound(req')
<1>1. PICK i \in DOMAIN req.posts : \E reply \in Replies(req.posts[i].keys) : Receive(i, reply)
  BY DEF End
<1> DEFINE keys == req.posts[i].keys
<1>2. PICK reply \in Replies(keys) : Receive(i, reply)
  BY <1>1
<1> DEFINE u == req.unsupported \/ (reply.how = "unsupported" /\ req.mode = "by_number")
           s == req'
<1>3. s = [req EXCEPT !.posts[i] = Posted(req.mode, req.posts[i], reply), !.unsupported = u]
  BY <1>2 DEF Receive
<1>4. /\ req.mode \in Batches => reply \in BatchReplies(req.prov, req.mode, keys)
      /\ req.mode \notin Batches => reply \in CallReplies(req.prov, req.mode, keys[1])
  BY <1>2 DEF Replies
<1>5. keys = req.posts[i].keys
  OBVIOUS
<1> HIDE DEF u, keys, s
<1>6. HeldSound(s)
  BY ONLY tips \in [Providers -> Synced .. MaxTip], ReqSound(req), req.at = "busy", HeldBusy(req), i \in DOMAIN req.posts,
          <1>3, <1>4, <1>5, ReceiveHeld
<1> QED BY <1>6 DEF s

LEMMA JoinHolds ==
  ASSUME ReqSound(req), HeldBusy(req), Join
  PROVE  HeldSound(req')
<1>1. req.at = "busy" /\ \A i \in DOMAIN req.posts : req.posts[i].res # Waiting
  BY DEF Join
<1>2. CASE \E i \in DOMAIN req.posts : req.posts[i].res = Fail
  <2>1. req' = Failed(req)
    BY <1>2 DEF Join
  <2> QED BY <1>1, <2>1, FailedHeld
<1>3. CASE ~\E i \in DOMAIN req.posts : req.posts[i].res = Fail
  <2>1. req' = Onward(Taken(req))
    BY <1>3 DEF Join, Onward, Taken
  <2>2. AllAnswered(req)
    BY <1>1, <1>3 DEF AllAnswered
  <2> QED BY <1>1, <2>1, <2>2, JoinHeld
<1> QED BY <1>2, <1>3

\* A sync stays one that holds the headers below those it has yet to ask for, all of them those of
\* the provider it is asking.
THEOREM HeldInvariant == Spec => []HeldInv
<1>1. Init => HeldInv
  BY DEF Init, HeldInv
<1>2. UpstreamInv /\ HeldInv /\ [Next]_vars => HeldInv'
  <2> SUFFICES ASSUME UpstreamInv, HeldInv, [Next]_vars
               PROVE  HeldInv'
    OBVIOUS
  <2>1. (req = Idle \/ ReqSound(req)) /\ (req = Idle \/ HeldSound(req)) /\ tips \in [Providers -> Synced .. MaxTip]
    BY DEF UpstreamInv, HeldInv
  <2>2. ASSUME tips' = tips, HeldSound(req')
        PROVE  HeldInv'
    BY <2>1, <2>2 DEF HeldInv, HeldSound, HeldBusy, HeldDone
  <2>3. Idle.at = "idle"
    BY DEF Idle
  <2>4. ASSUME NEW kind \in DOMAIN FirstOf, Ask(kind)
        PROVE  HeldInv'
    <3>1. tips' = tips
      BY <2>4 DEF Ask
    <3> QED BY <2>2, <2>4, <3>1, AskHeld
  <2>5. CASE Busy
    <3>1. req.at = "busy" /\ (End \/ Join)
      BY <2>5 DEF Busy
    <3>2. ReqSound(req) /\ HeldBusy(req)
      BY <2>1, <2>3, <3>1 DEF HeldSound
    <3>3. CASE End
      <4>1. tips' = tips
        BY <3>3 DEF End, Receive
      <4> QED BY <2>1, <2>2, <3>1, <3>2, <3>3, <4>1, EndHeld
    <3>4. CASE Join
      <4>1. tips' = tips
        BY <3>4 DEF Join
      <4> QED BY <2>2, <3>2, <3>4, <4>1, JoinHolds
    <3> QED BY <3>1, <3>3, <3>4
  <2>6. CASE Return
    BY <2>1, <2>6 DEF Return, HeldInv, Idle
  <2>7. ASSUME NEW p \in Providers, Grow(p)
        PROVE  HeldInv'
    <3>1. tips' = [tips EXCEPT ![p] = @ + 1] /\ tips[p] < MaxTip /\ req' = req
      BY <2>7 DEF Grow
    <3>2. \A x \in Synced .. MaxTip : x < MaxTip => x + 1 \in Synced .. MaxTip
      BY HeaderConstants
    <3>3. tips' \in [Providers -> Synced .. MaxTip]
      BY <2>1, <3>1, <3>2
    <3>4. HeldSound(req)
      BY <2>1, <2>3, <2>7 DEF Grow
    <3> QED BY <3>1, <3>3, <3>4 DEF HeldInv
  <2>8. CASE UNCHANGED vars
    BY <2>1, <2>8 DEF vars, HeldInv, Idle
  <2> QED BY <2>4, <2>5, <2>6, <2>7, <2>8 DEF Next
<1> QED BY <1>1, <1>2, UpstreamInvariant, PTL DEF Spec


\* Every header of a range that a provider can have is a key.
LEMMA HeadersAreKeys ==
  ASSUME NEW p \in Providers, NEW a \in Synced + 1 .. MaxTip + 1, NEW out, out = HeadersOf(p, Synced + 1, a), NEW i \in DOMAIN out
  PROVE  out[i] \in Keys
<1> DEFINE z == Synced + 1
<1>1. z \in Nat /\ a \in Nat /\ z <= a /\ out = HeadersOf(p, z, a)
  BY HeaderConstants
<1>2. a <= MaxTip + 1 /\ 1 <= z
  BY HeaderConstants
<1> HIDE DEF z
<1>3. DOMAIN out = 1 .. a - z
  BY <1>1, HeadersFacts
<1>4. \A j \in 1 .. a - z : out[j] = Header(z + j - 1, p)
  BY <1>1, HeadersAre
<1> DEFINE n == z + i - 1
<1>5. out[i] = Header(n, p)
  BY <1>3, <1>4
<1>6. n \in 0 .. MaxTip
  BY <1>1, <1>2, <1>3, HeaderConstants
<1> HIDE DEF n
<1> QED BY <1>5, <1>6 DEF Keys, Header

\* What a request for raw transactions has is some of them.
LEMMA RawsAreKeys ==
  ASSUME NEW mode \in RawModes, NEW k \in 1 .. Len(RawGroups(mode)), NEW out, out = SubSeq(Hashes, 1, Cut(mode, k - 1)),
         NEW i \in DOMAIN out
  PROVE  out[i] \in Keys
<1> DEFINE n == Len(RawGroups(mode))
           c == Cut(mode, k - 1)
<1>1. c \in Nat /\ c <= TxCount
  <2>1. k \in 1 .. n /\ n = Len(RawGroups(mode))
    OBVIOUS
  <2> HIDE DEF n
  <2>2. \A j \in 1 .. n : /\ Cut(mode, j - 1) \in Nat /\ Cut(mode, j) \in Nat
                         /\ Cut(mode, j - 1) < Cut(mode, j) /\ Cut(mode, j) <= TxCount
    BY <2>1, CutsAreBatches
  <2> DEFINE d == Cut(mode, k)
  <2>3. c \in Nat /\ d \in Nat /\ c < d /\ d <= TxCount
    BY <2>1, <2>2
  <2> HIDE DEF c, d
  <2> QED BY <2>3, ConstantTypes
<1> HIDE DEF c
<1>2. out = SubSeq(Hashes, 1, c)
  BY DEF c
<1>3. DOMAIN out = 1 .. c /\ \A j \in 1 .. c : out[j] = Hashes[j]
  <2> DEFINE S == {<<j>> : j \in Nat}
  <2>1. \A j \in 1 .. c : Hashes[j] \in S
    BY <1>1, HashesFacts, ConstantTypes
  <2> HIDE DEF S
  <2>2. SubSeq(Hashes, 1, c) \in Seq(S)
    BY <1>1, <2>1
  <2>3. DOMAIN SubSeq(Hashes, 1, c) = 1 .. c /\ \A j \in 1 .. c : SubSeq(Hashes, 1, c)[j] = Hashes[j]
    BY <1>1, <2>2
  <2> QED BY <1>2, <2>3
<1>4. i \in 1 .. c /\ out[i] = Hashes[i]
  BY <1>3
<1>5. i \in 1 .. TxCount
  BY <1>1, <1>4, ConstantTypes
<1>6. i \in DOMAIN Hashes
  BY <1>5, HashesFacts
<1>7. Hashes[i] \in Range(Hashes)
  BY <1>6 DEF Range
<1> DEFINE B == {<<h, p>> : h \in 0 .. MaxTip, p \in Providers}
<1>8. Keys = Range(Hashes) \cup B
  BY DEF Keys
<1> HIDE DEF B, n
<1> QED BY <1>4, <1>7, <1>8

\* A request in hand is one the client can have in hand.
LEMMA HeldIsTyped ==
  ASSUME UpstreamInv, HeldInv, req # Idle
  PROVE  /\ Len(req.posts) <= PARALLEL
         /\ \A i \in DOMAIN req.posts : req.posts[i].tries \in 1 .. ATTEMPTS
         /\ \A i \in DOMAIN req.out : req.out[i] \in Keys
         /\ (req.answer # Waiting) <=> (req.at = "done")
<1>1. ReqSound(req) /\ HeldSound(req) /\ req.at \in {"busy", "done"}
  BY DEF UpstreamInv, HeldInv, ReqSound, ReqShape
<1>2. CASE req.at = "done"
  <2>1. req.answer # Waiting /\ req.posts = <<>> /\ req.out = <<>>
    BY <1>1, <1>2 DEF HeldSound, HeldDone
  <2>2. Len(<<>>) = 0 /\ DOMAIN <<>> = {}
    OBVIOUS
  <2>3. Len(req.posts) <= PARALLEL
    BY <2>1, <2>2, HeaderConstants
  <2> QED BY <1>2, <2>1, <2>2, <2>3
<1>3. CASE req.at = "busy"
  <2> DEFINE mode == req.mode
  <2>1. HeldBusy(req) /\ GroupsSound(req) /\ PostsSound(req) /\ ReqShape(req)
    BY <1>1, <1>3 DEF HeldSound, ReqSound
  <2>2. req.answer = Waiting /\ \A i \in DOMAIN req.posts : req.posts[i].tries \in 1 .. ATTEMPTS
    BY <2>1 DEF HeldBusy
  <2>3. CASE mode \in HeaderModes
    <3> DEFINE g == req.groups
               b == req.to + 1
    <3>1. req.to \in Synced + 1 .. MaxTip /\ InFlight(req)
      BY <2>1, <2>3 DEF HeldBusy
    <3>2. PICK a \in Synced + 1 .. req.to + 1 : HeadersAt(req, a)
      BY <2>1, <2>3 DEF HeldBusy
    <3>3. Listed(g) /\ g # <<>> /\ Laid(g, a, b) /\ req.out = HeadersOf(req.prov, Synced + 1, a)
      BY <3>2 DEF HeadersAt
    <3>4. b \in Nat /\ a \in Synced + 1 .. MaxTip + 1
      <4> DEFINE y == req.to
      <4>1. y \in Synced + 1 .. MaxTip /\ a \in Synced + 1 .. y + 1
        BY <3>1, <3>2
      <4> HIDE DEF y
      <4>2. y + 1 \in Nat /\ a \in Synced + 1 .. MaxTip + 1
        BY <4>1, HeaderConstants
      <4> QED BY <4>2 DEF y
    <3>5. Len(req.posts) <= PARALLEL
      <4> DEFINE t == Tail(g)
      <4>1. t = Tail(g)
        OBVIOUS
      <4>2. Len(req.posts) = Len(g[1])
        BY <3>1 DEF InFlight
      <4> HIDE DEF g, b, t
      <4>3. PICK x \in Synced + 1 .. b : FirstAt(g[1], a, x, b)
        BY ONLY <3>3, <3>4, <4>1, LaidTail
      <4>4. Len(g[1]) \in 1 .. PARALLEL
        BY <4>3 DEF FirstAt
      <4> DEFINE y == Len(g[1])
      <4>5. y \in 1 .. PARALLEL /\ Len(req.posts) = y
        BY <4>2, <4>4
      <4> HIDE DEF y
      <4> QED BY <4>5, HeaderConstants
    <3>6. \A i \in DOMAIN req.out : req.out[i] \in Keys
      <4> DEFINE out == req.out
                 p == req.prov
      <4>1. p \in Providers /\ out = HeadersOf(p, Synced + 1, a)
        BY <2>1, <3>3 DEF ReqShape, Askable
      <4> HIDE DEF out, p
      <4>2. \A i \in DOMAIN out : out[i] \in Keys
        BY <3>4, <4>1, HeadersAreKeys
      <4> QED BY <4>2 DEF out
    <3> QED BY <1>3, <2>2, <3>5, <3>6
  <2>4. CASE mode \notin HeaderModes
    <3>1. Len(req.posts) <= PARALLEL
      <4>1. mode \notin SideBySide
        BY <2>4 DEF HeaderModes, SideBySide
      <4>2. req.posts = <<req.posts[1]>>
        BY <2>1, <4>1 DEF PostsSound
      <4> DEFINE w == req.posts
                 z == req.posts[1]
      <4>3. w = <<z>>
        BY <4>2
      <4> HIDE DEF w, z
      <4>4. Len(w) = 1
        BY <4>3
      <4>5. Len(w) <= PARALLEL
        BY <4>4, HeaderConstants
      <4> QED BY <4>5 DEF w
    <3>2. \A i \in DOMAIN req.out : req.out[i] \in Keys
      <4>1. CASE mode \in RawModes
        <5> DEFINE out == req.out
        <5>1. PICK k \in 1 .. Len(RawGroups(mode)) : RawsAt(req, k)
          BY <2>1, <4>1 DEF GroupsSound
        <5>2. out = SubSeq(Hashes, 1, Cut(mode, k - 1))
          BY <5>1 DEF RawsAt
        <5> HIDE DEF out, mode
        <5>3. \A i \in DOMAIN out : out[i] \in Keys
          BY <4>1, <5>2, RawsAreKeys
        <5> QED BY <5>3 DEF out
      <4>2. CASE mode \notin RawModes
        <5>1. req.out = <<>>
          BY <2>1, <2>4, <4>2 DEF GroupsSound
        <5> QED BY <5>1
      <4> QED BY <4>1, <4>2
    <3> QED BY <1>3, <2>2, <3>1, <3>2
  <2> QED BY <2>3, <2>4
<1> QED BY <1>1, <1>2, <1>3

\* What a sync is given is one provider's unbroken range from the height above the node's tip, for
\* every size of batch, every number of threads and of attempts and every height, whatever the
\* providers answer to which batch and in whichever order (headers_range, headers_from_batch, fallback).
THEOREM SyncGetsOneRange == Spec => []OneRange
<1>1. UpstreamInv /\ HeldInv => OneRange
  <2> SUFFICES ASSUME UpstreamInv, HeldInv
               PROVE  TypeOK /\ RangeExact /\ OneProvider
    BY DEF OneRange
  <2>1. TypeOK
    <3>1. backup \in BOOLEAN /\ health \in [Providers -> {"good", "nobatch", "flaky"}] /\ tips \in [Providers -> Synced .. MaxTip]
      BY DEF UpstreamInv, Shapes, HeldInv
    <3>2. req # Idle => (req.prov = "backup" => backup)
      BY DEF UpstreamInv, ReqSound, ReqShape, Askable
    <3> QED BY <3>1, <3>2, HeldIsTyped DEF TypeOK
  <2>2. ASSUME req.at = "done", Answered("sync")
        PROVE  \E p \in Providers : req.to \in Nat /\ req.to >= Synced /\ req.answer.vals = HeadersOf(p, Synced + 1, req.to + 1)
    <3>1. HeldDone(req) /\ req.kind = "sync" /\ req.answer.st = "ok"
      BY <2>2 DEF HeldInv, HeldSound, Idle, Answered
    <3>2. req.to \in Synced .. MaxTip
      BY <3>1 DEF HeldDone
    <3> DEFINE y == req.to
    <3>3. y \in Synced .. MaxTip
      BY <3>2
    <3> HIDE DEF y
    <3>4. y \in Nat /\ y >= Synced
      BY <3>3, HeaderConstants
    <3> QED BY <3>1, <3>4 DEF HeldDone, y
  <2>3. ASSUME req.at = "done", Answered("sync")
        PROVE  /\ [i \in DOMAIN req.answer.vals |-> req.answer.vals[i][1]] = [i \in 1 .. req.to - Synced |-> Synced + i]
               /\ \A i, j \in DOMAIN req.answer.vals : req.answer.vals[i][2] = req.answer.vals[j][2]
    <3> DEFINE v == req.answer.vals
               y == req.to
               n == y - Synced
               z == Synced + 1
               b == y + 1
    <3>1. PICK p \in Providers : y \in Nat /\ y >= Synced /\ v = HeadersOf(p, z, b)
      BY <2>2, <2>3
    <3> HIDE DEF v, y
    <3>2. z \in Nat /\ b \in Nat /\ z <= b /\ b - z = n /\ n \in Nat
      BY <3>1, HeaderConstants
    <3>3. DOMAIN v = 1 .. n
      <4> HIDE DEF z, b, n
      <4>1. DOMAIN v = 1 .. b - z
        BY <3>1, <3>2, HeadersFacts
      <4> QED BY <3>2, <4>1
    <3>4. \A i \in 1 .. n : v[i] = Header(Synced + i, p)
      <4>1. \A i \in 1 .. n : z + i - 1 = Synced + i
        BY <3>2, HeaderConstants
      <4> HIDE DEF z, b, n
      <4>2. \A i \in 1 .. b - z : v[i] = Header(z + i - 1, p)
        BY <3>1, <3>2, HeadersAre
      <4> QED BY <3>2, <4>1, <4>2
    <3> HIDE DEF n
    <3>5. \A i \in 1 .. n : v[i][1] = Synced + i /\ v[i][2] = p
      BY <3>4 DEF Header
    <3>6. [i \in DOMAIN v |-> v[i][1]] = [i \in 1 .. n |-> Synced + i]
      BY <3>3, <3>5
    <3>7. \A i, j \in DOMAIN v : v[i][2] = v[j][2]
      BY <3>3, <3>5
    <3> QED BY <3>6, <3>7 DEF v, n, y
  <2>4. RangeExact /\ OneProvider
    BY <2>3 DEF RangeExact, OneProvider
  <2> QED BY <2>1, <2>4
<1> QED BY <1>1, UpstreamInvariant, HeldInvariant, PTL
=============================================================================
