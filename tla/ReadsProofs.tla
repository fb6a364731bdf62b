----------------------------- MODULE ReadsProofs -----------------------------
(***************************************************************************)
(* What holds of the read handlers for every chain, every two branches and *)
(* every number of blocks kept, confirmed and looked back at: an answer is *)
(* of blocks the node stands by, of one branch, and true of them; what is  *)
(* passed on unverified is bound to the chain; a provider that serves what *)
(* is true is not refused.                                                 *)
(***************************************************************************)
EXTENDS Reads, SequenceTheorems, FiniteSetTheorems, TLAPS

-----------------------------------------------------------------------------
(* The inductive invariant. *)

Fields == {"at", "next", "kind", "tag", "want", "head", "safe", "blocks", "window", "got", "claim", "heard", "answer"}

\* Where a request can be, by its kind: only what needs no proof is passed on, and only where
\* the node allows it.
Placed(r, al) ==
  /\ DOMAIN r = Fields
  /\ r.at \in {"claim", "refresh", "resolve", "serve", "bind", "done"}
  /\ r.next \in {"resolve", "bind"}
  /\ r.kind \in Kinds
  /\ r.at = "claim" => r.kind \in Passthrough \cup {"receipt", "send"}
  /\ r.at \in {"claim", "resolve", "serve"} => r.next = "resolve"
  /\ r.at \in {"refresh", "resolve", "serve"} /\ r.next = "resolve" => r.kind \in Verified
  /\ r.at = "bind" => r.next = "bind"
  /\ r.next = "bind" => r.kind \in Passthrough \cup {"receipt"} /\ al
  /\ r.kind \in Passthrough /\ r.at = "claim" => al
  /\ r.kind = "logs" => r.tag.by = "hash" \/ (r.tag.from \in Nat /\ r.tag.to \in Nat)

\* A block is at or below the highest read head, and on the branch unless that has been cut.
Anchored(b, br, top, cut) == Height(b) \in 0 .. top /\ (~cut => b = Block(Height(b), br))

Ancestors(b) == {Block(n, b[2]) : n \in 1 .. Height(b)}

OneStretch(bs) ==
  \E br \in Branches : \A i \in DOMAIN bs : bs[i] = Block(Height(bs[1]) + i - 1, br)

\* The blocks of a request were found below its read head; a call has its block's ancestors
\* with it, a range is one stretch, every other request has one block.
BlocksSound(r, br, top, cut) ==
  /\ r.safe[1] \in Nat /\ r.safe[1] <= top
  /\ r.blocks \in Seq(Blocks)
  /\ r.at = "claim" => r.blocks = <<>>
  /\ r.at = "serve" => r.blocks # <<>>
  /\ \A i \in DOMAIN r.blocks : Anchored(r.blocks[i], br, top, cut)
  /\ r.kind # "logs" => Len(r.blocks) <= 1
  /\ r.kind = "call" /\ r.blocks # <<>> => r.window \subseteq Ancestors(r.blocks[1])
  /\ r.kind = "logs" /\ r.blocks # <<>> => OneStretch(r.blocks)

FromRootsOf(r) ==
  r.at = "done" /\ r.answer.ok /\ r.kind \in Verified /\ r.next = "resolve" /\ r.blocks # <<>>

\* An answer v is true of block b.
TrueOf(r, b, v) ==
  /\ r.kind \in {"account", "storage", "proof"} => v = b
  /\ r.kind = "code" => v = CodeOf(b)
  /\ r.kind = "call" => v.state = b /\ v.hashes = r.window
  /\ r.kind = "header" => v.list = Txs(b) \/ (~r.heard.txs /\ v.list = <<>>)
  /\ r.kind = "count" => v = Len(Txs(b))
  /\ r.kind = "index" => v = IF Txs(b) = <<>> THEN NoTx ELSE Txs(b)[1]
  /\ r.kind = "receipts" => \/ [i \in DOMAIN v |-> v[i].of] = Txs(b)
                            \/ ~r.heard.receipts /\ v = <<>>
  /\ r.kind = "receipts" /\ r.heard.txs => \A i \in DOMAIN v : v[i].label = v[i].of
  /\ r.kind = "receipt" /\ r.heard.txs => v = IF r.want \in Range(Txs(b)) THEN r.want ELSE NoTx

AnswerSound(r) ==
  FromRootsOf(r) =>
    /\ TrueOf(r, r.blocks[1], r.answer.value)
    /\ r.kind = "logs" => r.answer.value = AllLogs(r.blocks)

\* What has been passed on is bound: the object asked for, in a block of the branch.
PassedSound(r, br, top, cut) ==
  r.at = "done" /\ r.answer.ok /\ r.next = "bind" /\ r.kind # "fee" =>
    /\ r.answer.value.tx = r.want
    /\ r.answer.value.block # NoBlock =>
         /\ r.answer.value.hex => r.answer.value.number = Height(r.answer.value.block)
         /\ Anchored(r.answer.value.block, br, top, cut)

Lists == {Txs(b) : b \in Blocks}

\* The logs of a range that has not been served to its end are those of its first blocks.
GotSound(r) ==
  r.at # "done" =>
    /\ r.got \in Seq(Lists)
    /\ r.at # "serve" \/ r.kind # "logs" => r.got = <<>>
    /\ r.at = "serve" => Len(r.got) < Len(r.blocks)
    /\ \A k \in DOMAIN r.got : r.got[k] = Txs(r.blocks[k])

\* True replies have ended the request with an answer, or have brought it some way along its
\* range.
HonestSound(r) ==
  r.heard.honest =>
    \/ r.at = "done" /\ (r.answer.ok \/ (r.kind = "logs" /\ r.answer = Err("params")))
    \/ r.at = "serve" /\ r.kind = "logs" /\ r.got # <<>>

ReqSound(r, br, top, cut, al) ==
  /\ Placed(r, al)
  /\ BlocksSound(r, br, top, cut)
  /\ AnswerSound(r)
  /\ PassedSound(r, br, top, cut)
  /\ HonestSound(r)
  /\ GotSound(r)

\* The chain is as long as it has to be, and the view is of it.
ChainSound ==
  /\ chain = [br |-> chain.br, lo |-> chain.lo, hi |-> chain.hi]
  /\ chain.br \in Branches
  /\ chain.lo \in 1 .. MaxHeight /\ chain.hi \in Start .. MaxHeight
  /\ chain.lo <= chain.hi - CONFIRMATIONS
  /\ view.head \in Nat /\ view.head <= chain.hi
  /\ In(chain, view.safe) /\ view.safe[1] <= sealed
  /\ sealed \in Nat /\ broken \in BOOLEAN /\ allow \in BOOLEAN
  /\ DOMAIN proofs = {"ok", "fail"}

ReadsInv == ChainSound /\ (req = Idle \/ ReqSound(req, chain.br, sealed, broken, allow))


-----------------------------------------------------------------------------
(* Blocks. *)

LEMMA ConstantTypes ==
  /\ Fork \in Nat /\ Start \in Nat /\ MaxHeight \in Nat /\ KEEP \in Nat /\ CONFIRMATIONS \in Nat
  /\ CONFIRMATIONS >= 1 /\ CONFIRMATIONS < Start /\ Start <= MaxHeight /\ CONFIRMATIONS < KEEP
  /\ Trunk \in Branches /\ TxCount \in [1 .. MaxHeight -> Nat]
<1>1. Fork \in Nat \ {0} /\ Start \in Nat \ {0} /\ MaxHeight \in Nat \ {0} /\ KEEP \in Nat \ {0} /\ CONFIRMATIONS \in Nat \ {0}
  BY ReadsConstants, Zenon
<1> QED BY <1>1, ReadsConstants

LEMMA BlockFacts ==
  ASSUME NEW n, NEW br
  PROVE  Height(Block(n, br)) = n /\ Block(n, br)[1] = n /\ Block(n, br)[2] = IF n <= Fork THEN Trunk ELSE br
BY DEF Block, Height

GoodChain(c) == c.br \in Branches /\ c.lo \in 1 .. MaxHeight /\ c.hi \in 1 .. MaxHeight

\* A block of a chain is the one at its height.
LEMMA OfChain ==
  ASSUME NEW c, GoodChain(c), NEW b \in BlocksOf(c)
  PROVE  Height(b) \in c.lo .. c.hi /\ b = Block(Height(b), c.br) /\ b \in Blocks /\ Height(b) \in Nat
<1>1. PICK n \in c.lo .. c.hi : b = Block(n, c.br)
  BY DEF BlocksOf
<1>2. Height(b) = n
  BY <1>1, BlockFacts
<1>3. n \in 1 .. MaxHeight
  BY ConstantTypes DEF GoodChain
<1>4. b \in Blocks
  BY <1>1, <1>3 DEF Blocks, GoodChain
<1> QED BY <1>1, <1>2, <1>3, <1>4

\* Of a set with one element at most, the sequence is that element.
LEMMA FoundOne ==
  ASSUME NEW x, NEW S, S \subseteq {x}, Found(S).ok
  PROVE  Found(S) = Ok(<<x>>) /\ x \in S
<1>1. S # {}
  BY DEF Found, Err
<1>2. S = {x}
  BY <1>1
<1>3. Cardinality(S) = 1
  BY <1>2, FS_Singleton
<1>4. <<x>> \in {f \in [1 .. Cardinality(S) -> S] : IsInjective(f)}
  BY <1>2, <1>3 DEF IsInjective
<1>5. SetToSeq(S) \in [1 .. 1 -> {x}]
  <2>1. \E f : f \in [1 .. Cardinality(S) -> S] /\ IsInjective(f)
    BY <1>4
  <2> QED BY <2>1, <1>2, <1>3 DEF SetToSeq
<1>6. SetToSeq(S) = <<x>>
  BY <1>5
<1> QED BY <1>1, <1>2, <1>6 DEF Found

-----------------------------------------------------------------------------
(* The blocks a request is resolved to. *)

\* Blocks of a chain, none above a height.
Below(v, c, top) ==
  /\ v \in Seq(Blocks) /\ v # <<>>
  /\ \A i \in DOMAIN v : v[i] = Block(Height(v[i]), c.br) /\ Height(v[i]) \in Nat /\ Height(v[i]) <= top

\* At most one block, of a chain and not above a height.
OneOf(S, c, top) == S \subseteq BlocksOf(c) /\ (\E x : S \subseteq {x}) /\ \A b \in S : Height(b) <= top

LEMMA FoundBelow ==
  ASSUME NEW c, GoodChain(c), NEW top, NEW S, OneOf(S, c, top), Found(S).ok
  PROVE  Below(Found(S).value, c, top) /\ Len(Found(S).value) = 1
<1>1. PICK x : S \subseteq {x}
  BY DEF OneOf
<1>2. Found(S) = Ok(<<x>>) /\ x \in S
  BY <1>1, FoundOne
<1>3. Found(S).value = <<x>>
  BY <1>2 DEF Ok
<1>4. x \in BlocksOf(c) /\ Height(x) <= top
  BY <1>2 DEF OneOf
<1>5. x = Block(Height(x), c.br) /\ x \in Blocks /\ Height(x) \in Nat
  BY <1>4, OfChain
<1>6. <<x>> \in Seq(Blocks) /\ <<x>> # <<>> /\ DOMAIN <<x>> = {1} /\ <<x>>[1] = x /\ Len(<<x>>) = 1
  BY <1>5
<1> QED BY <1>3, <1>4, <1>5, <1>6 DEF Below

\* Heights that are the same are the same block of a chain.
LEMMA AtHeight ==
  ASSUME NEW c, GoodChain(c), NEW S, S \subseteq BlocksOf(c), NEW n, \A b \in S : Height(b) = n
  PROVE  \E x : S \subseteq {x}
<1>1. \A b \in S : b = Block(n, c.br)
  BY OfChain
<1> QED BY <1>1

LEMMA ByNumberOne ==
  ASSUME NEW c, GoodChain(c), NEW tag, NEW safe, Height(safe) \in Nat
  PROVE  OneOf(ByNumber(tag, safe, c), c, Height(safe))
<1> DEFINE n == CASE tag.by = "latest" -> Height(safe)
                  [] tag.by = "number" -> IF tag.n <= Height(safe) THEN tag.n ELSE 0
                  [] tag.by \in {"hash", "named"} -> IF tag.block = safe THEN Height(safe) ELSE 0
                  [] OTHER -> 0
<1>1. ByNumber(tag, safe, c) = {b \in BlocksOf(c) : Height(b) = n}
  BY DEF ByNumber
<1>2. n <= Height(safe)
  <2> HIDE DEF GoodChain
  <2> QED OBVIOUS
<1> HIDE DEF n
<1>3. ByNumber(tag, safe, c) \subseteq BlocksOf(c) /\ \A b \in ByNumber(tag, safe, c) : Height(b) = n
  BY <1>1
<1>4. \E x : ByNumber(tag, safe, c) \subseteq {x}
  BY <1>3, AtHeight
<1> QED BY <1>2, <1>3, <1>4 DEF OneOf

LEMMA ByHashOne ==
  ASSUME NEW c, NEW tag, NEW safe
  PROVE  OneOf(ByHash(tag, safe, c), c, Height(safe))
<1>1. \A b \in ByHash(tag, safe, c) : b \in BlocksOf(c) /\ b = tag.block /\ Height(b) <= Height(safe)
  BY DEF ByHash
<1> QED BY <1>1 DEF OneOf

LEMMA SmallerOne ==
  ASSUME NEW c, NEW top, NEW S, OneOf(S, c, top), NEW T \in SUBSET S
  PROVE  OneOf(T, c, top)
BY DEF OneOf

LEMMA ExecSound ==
  ASSUME NEW c, GoodChain(c), NEW r, Height(r.safe) \in Nat, ExecBlock(r, c).ok
  PROVE  Below(ExecBlock(r, c).value, c, Height(r.safe)) /\ Len(ExecBlock(r, c).value) = 1
<1> DEFINE bs == ByNumber(r.tag, r.safe, c)
           b == IF bs = {} THEN ByHash(r.tag, r.safe, c) ELSE bs
           T == {x \in b : r.head - Height(x) <= PROOF_LOOKBACK}
<1>1. OneOf(b, c, Height(r.safe))
  BY ByNumberOne, ByHashOne
<1>2. T \in SUBSET b
  OBVIOUS
<1>3. ExecBlock(r, c) = Found(T)
  BY DEF ExecBlock
<1> HIDE DEF T, b
<1>4. OneOf(T, c, Height(r.safe))
  BY <1>1, <1>2, SmallerOne
<1> QED BY <1>3, <1>4, FoundBelow

LEMMA WalkSound ==
  ASSUME NEW c, GoodChain(c), NEW r, Height(r.safe) \in Nat, WalkBlock(r, c).ok
  PROVE  Below(WalkBlock(r, c).value, c, Height(r.safe)) /\ Len(WalkBlock(r, c).value) = 1
<1> DEFINE T == IF r.tag.by = "hash" THEN ByHash(r.tag, r.safe, c) ELSE ByNumber(r.tag, r.safe, c)
<1>1. OneOf(T, c, Height(r.safe))
  BY ByNumberOne, ByHashOne
<1>2. WalkBlock(r, c) = Found(T)
  BY DEF WalkBlock
<1> HIDE DEF T
<1> QED BY <1>1, <1>2, FoundBelow

LEMMA ReceiptSound ==
  ASSUME NEW c, GoodChain(c), NEW r, Height(r.safe) \in Nat, ReceiptBlock(r, c).ok
  PROVE  Below(ReceiptBlock(r, c).value, c, Height(r.safe)) /\ Len(ReceiptBlock(r, c).value) = 1
<1> DEFINE T == {b \in BlocksOf(c) : b = r.claim.block /\ Height(b) <= Height(r.safe)}
<1>1. OneOf(T, c, Height(r.safe))
  BY DEF OneOf
<1>2. ReceiptBlock(r, c) = Found(T)
  BY DEF ReceiptBlock
<1> HIDE DEF T
<1> QED BY <1>1, <1>2, FoundBelow

LEMMA IntervalEnds ==
  ASSUME NEW a \in Int, NEW b \in Int, a <= b
  PROVE  /\ Max(a .. b) = b /\ Min(a .. b) = a
         /\ Cardinality(a .. b) = b - a + 1
<1>1. Max(a .. b) = b
  <2>1. \E x \in a .. b : \A y \in a .. b : x >= y
    OBVIOUS
  <2>2. Max(a .. b) \in a .. b /\ \A y \in a .. b : Max(a .. b) >= y
    BY <2>1 DEF Max
  <2> QED BY <2>2
<1>2. Min(a .. b) = a
  <2>1. \E x \in a .. b : \A y \in a .. b : x <= y
    OBVIOUS
  <2>2. Min(a .. b) \in a .. b /\ \A y \in a .. b : Min(a .. b) <= y
    BY <2>1 DEF Min
  <2> QED BY <2>2
<1> QED BY <1>1, <1>2, FS_Interval

LEMMA LogsSound ==
  ASSUME NEW c, GoodChain(c), NEW r, Height(r.safe) \in Nat, LogBlocks(r, c).ok,
         r.tag.by = "hash" \/ (r.tag.from \in Nat /\ r.tag.to \in Nat)
  PROVE  Below(LogBlocks(r, c).value, c, Height(r.safe)) /\ OneStretch(LogBlocks(r, c).value)
<1>1. CASE r.tag.by = "hash"
  <2> DEFINE T == ByHash(r.tag, r.safe, c)
             v == Found(T).value
  <2>1. OneOf(T, c, Height(r.safe))
    BY ByHashOne
  <2>2. LogBlocks(r, c) = Found(T)
    BY <1>1 DEF LogBlocks
  <2> HIDE DEF T
  <2>3. Below(v, c, Height(r.safe)) /\ Len(v) = 1
    BY <2>1, <2>2, FoundBelow
  <2>4. LogBlocks(r, c).value = v
    BY <2>2
  <2> HIDE DEF v
  <2>5. v \in Seq(Blocks) /\ v[1] = Block(Height(v[1]), c.br) /\ DOMAIN v = {1} /\ Height(v[1]) \in Nat
    BY <2>3 DEF Below
  <2>6. \A i \in DOMAIN v : v[i] = Block(Height(v[1]) + i - 1, c.br)
    BY <2>5
  <2> QED BY <2>3, <2>4, <2>6 DEF OneStretch, GoodChain
<1>2. CASE r.tag.by # "hash"
  <2> DEFINE a == IF r.tag.from = 0 THEN Height(r.safe) ELSE r.tag.from
             b == IF r.tag.to = 0 THEN Height(r.safe) ELSE r.tag.to
             v == [i \in 1 .. b - a + 1 |-> Block(a + i - 1, c.br)]
  <2>1. a \in Nat /\ b \in Nat
    BY <1>2
  <2>2. LogHeights(r.tag, r.safe) = a .. b
    BY DEF LogHeights
  <2> HIDE DEF a, b
  <2>3. a .. b # {} /\ Max(a .. b) <= Height(r.safe) /\ a .. b \subseteq c.lo .. c.hi
        /\ LogBlocks(r, c) = Ok([i \in 1 .. Cardinality(a .. b) |-> Block(Min(a .. b) + i - 1, c.br)])
    <3> DEFINE span == a .. b
               found == Ok([i \in 1 .. Cardinality(span) |-> Block(Min(span) + i - 1, c.br)])
               empty == span = {} \/ Cardinality(span) > MAX_RANGE
               out == Max(span) > Height(r.safe) \/ ~(span \subseteq c.lo .. c.hi)
    <3>1. LogBlocks(r, c) = IF empty THEN Err("params") ELSE IF out THEN Err("not_synced") ELSE found
      BY <1>2, <2>2 DEF LogBlocks
    <3>2. Err("params").ok = FALSE /\ Err("not_synced").ok = FALSE
      BY DEF Err
    <3>3. ~empty /\ ~out /\ LogBlocks(r, c) = found
      <4> HIDE DEF empty, out, found
      <4> QED BY <3>1, <3>2
    <3>4. span # {} /\ ~(Max(span) > Height(r.safe)) /\ span \subseteq c.lo .. c.hi
      BY <3>3
    <3>5. Max(span) \in Int
      <4>1. a <= b
        BY <2>1, <3>4
      <4>2. a \in Int /\ b \in Int
        BY <2>1
      <4> QED BY <4>1, <4>2, IntervalEnds
    <3>6. Max(span) <= Height(r.safe)
      <4> HIDE DEF span
      <4> QED BY <3>4, <3>5
    <3> QED BY <3>3, <3>4, <3>6
  <2>4. a <= b /\ a \in Int /\ b \in Int
    BY <2>1, <2>3
  <2>5. Max(a .. b) = b /\ Min(a .. b) = a /\ Cardinality(a .. b) = b - a + 1
    BY <2>4, IntervalEnds
  <2>6. LogBlocks(r, c).value = v
    BY <2>3, <2>5 DEF Ok
  <2>7. \A i \in 1 .. b - a + 1 : a + i - 1 \in a .. b /\ a + i - 1 \in Nat /\ a + i - 1 <= b
    BY <2>1
  <2>8. b <= Height(r.safe) /\ a .. b \subseteq 1 .. MaxHeight
    BY <2>3, <2>5, ConstantTypes DEF GoodChain
  <2>9. \A i \in 1 .. b - a + 1 : v[i] \in Blocks /\ Height(v[i]) = a + i - 1
    BY <2>7, <2>8, BlockFacts DEF Blocks, GoodChain
  <2>10. v \in Seq(Blocks) /\ DOMAIN v = 1 .. b - a + 1 /\ v # <<>>
    <3>1. b - a + 1 \in Nat /\ 1 \in 1 .. b - a + 1
      BY <2>1, <2>4
    <3>2. v \in [1 .. b - a + 1 -> Blocks]
      BY <2>9
    <3>3. DOMAIN v = 1 .. b - a + 1
      OBVIOUS
    <3> HIDE DEF v
    <3>4. v \in Seq(Blocks)
      BY <3>1, <3>2
    <3> QED BY <3>1, <3>3, <3>4
  <2>11. \A i \in DOMAIN v : v[i] = Block(Height(v[i]), c.br) /\ Height(v[i]) \in Nat /\ Height(v[i]) <= Height(r.safe)
    <3> SUFFICES ASSUME NEW i \in 1 .. b - a + 1
                 PROVE  v[i] = Block(Height(v[i]), c.br) /\ Height(v[i]) \in Nat /\ Height(v[i]) <= Height(r.safe)
      BY <2>10
    <3> DEFINE h == a + i - 1
               top == Height(r.safe)
    <3>1. v[i] = Block(h, c.br)
      OBVIOUS
    <3>2. Height(v[i]) = h /\ h \in Nat /\ h <= b
      BY <2>7, <2>9
    <3>3. h <= top
      <4>1. b \in Int /\ top \in Int /\ b <= top
        BY <2>1, <2>4, <2>8
      <4> HIDE DEF a, b, h, top
      <4> QED BY <3>2, <4>1
    <3> HIDE DEF h, v
    <3> QED BY <3>1, <3>2, <3>3
  <2>12. \A i \in DOMAIN v : v[i] = Block(Height(v[1]) + i - 1, c.br)
    <3>1. Height(v[1]) = a
      BY <2>1, <2>4, <2>9
    <3> QED BY <3>1, <2>10
  <2> HIDE DEF v
  <2> QED BY <2>6, <2>10, <2>11, <2>12 DEF Below, OneStretch, GoodChain
<1> QED BY <1>1, <1>2

\* Resolving a request finds blocks of the chain below its read head; one, or a stretch.
LEMMA ResolvedSound ==
  ASSUME NEW c, GoodChain(c), NEW r, Height(r.safe) \in Nat, Resolved(r, c).ok, r.kind \in Verified,
         r.kind = "logs" => r.tag.by = "hash" \/ (r.tag.from \in Nat /\ r.tag.to \in Nat)
  PROVE  /\ Below(Resolved(r, c).value, c, Height(r.safe))
         /\ r.kind # "logs" => Len(Resolved(r, c).value) = 1
         /\ r.kind = "logs" => OneStretch(Resolved(r, c).value)
<1>1. CASE r.kind \in Exec
  <2>1. Resolved(r, c) = ExecBlock(r, c) /\ r.kind # "logs"
    BY <1>1 DEF Resolved, Exec, Walk
  <2> QED BY <2>1, ExecSound
<1>2. CASE r.kind \in Walk
  <2>1. Resolved(r, c) = WalkBlock(r, c) /\ r.kind # "logs"
    BY <1>2 DEF Resolved, Exec, Walk
  <2> QED BY <2>1, WalkSound
<1>3. CASE r.kind = "receipt"
  <2>1. Resolved(r, c) = ReceiptBlock(r, c) /\ r.kind # "logs"
    BY <1>3 DEF Resolved, Exec, Walk
  <2> QED BY <2>1, ReceiptSound
<1>4. CASE r.kind = "logs"
  <2>1. Resolved(r, c) = LogBlocks(r, c)
    BY <1>4 DEF Resolved, Exec, Walk
  <2> QED BY <1>4, <2>1, LogsSound
<1> QED BY <1>1, <1>2, <1>3, <1>4 DEF Verified

LEMMA LeastOfTwo ==
  ASSUME NEW a \in Int, NEW b \in Int
  PROVE  Min({a, b}) \in {a, b} /\ Min({a, b}) <= a /\ Min({a, b}) <= b
<1>1. \E x \in {a, b} : \A y \in {a, b} : x <= y
  <2>1. CASE a <= b
    BY <2>1
  <2>2. CASE b <= a
    BY <2>2
  <2>. QED BY <2>1, <2>2
<1>. QED BY <1>1 DEF Min

LEMMA GreatestOfTwo ==
  ASSUME NEW a \in Int, NEW b \in Int
  PROVE  Max({a, b}) \in {a, b} /\ Max({a, b}) >= a /\ Max({a, b}) >= b
<1>1. \E x \in {a, b} : \A y \in {a, b} : x >= y
  <2>1. CASE a <= b
    BY <2>1
  <2>2. CASE b <= a
    BY <2>2
  <2>. QED BY <2>1, <2>2
<1>. QED BY <1>1 DEF Max

\* A branch has one block of each height below one of its blocks.
LEMMA SameBranchBelow ==
  ASSUME NEW br, NEW b, b = Block(Height(b), br), Height(b) \in Int, NEW n \in Int, n <= Height(b)
  PROVE  Block(n, br) = Block(n, b[2])
<1> DEFINE h == Height(b)
<1>1. b[2] = IF h <= Fork THEN Trunk ELSE br
  BY BlockFacts
<1>2. h \in Int /\ n <= h /\ Fork \in Int
  BY ConstantTypes
<1> HIDE DEF h
<1>3. CASE h <= Fork
  <2>1. n <= Fork
    BY <1>2, <1>3
  <2> QED BY <2>1 DEF Block
<1>4. CASE ~(h <= Fork)
  BY <1>1, <1>4
<1> QED BY <1>3, <1>4

\* The hashes that come out with a block are of its ancestors.
LEMMA WindowSound ==
  ASSUME NEW c, GoodChain(c), NEW b, b = Block(Height(b), c.br), Height(b) \in Nat
  PROVE  Window(c, b) \subseteq Ancestors(b)
<1> DEFINE low == Max({c.lo, Height(b) - HASHES})
           top == Min({Height(b), low + HASHES - 1})
<1>1. HASHES \in Int /\ c.lo \in Int /\ Height(b) \in Int
  <2>1. HASHES \in Nat \ {0}
    BY ReadsConstants, Zenon
  <2> QED BY <2>1 DEF GoodChain
<1>2. low \in Int
  <2>1. Height(b) - HASHES \in Int
    BY <1>1
  <2> QED BY <1>1, <2>1, GreatestOfTwo
<1>3. top \in Int /\ top <= Height(b)
  <2> HIDE DEF low
  <2>1. low + HASHES - 1 \in Int
    BY <1>1, <1>2
  <2> QED BY <1>1, <2>1, LeastOfTwo
<1> SUFFICES ASSUME NEW x \in Window(c, b)
             PROVE  x \in Ancestors(b)
  OBVIOUS
<1>4. x \in BlocksOf(c) /\ Height(x) \in low .. top
  BY DEF Window
<1>5. x = Block(Height(x), c.br) /\ Height(x) \in Nat /\ Height(x) \in c.lo .. c.hi
  BY <1>4, OfChain
<1> HIDE DEF low, top
<1>6. Height(x) \in 1 .. Height(b)
  <2>1. Height(x) >= 1
    BY <1>5 DEF GoodChain
  <2> QED BY <1>1, <1>2, <1>3, <1>4, <1>5, <2>1
<1>7. Block(Height(x), c.br) = Block(Height(x), b[2])
  <2>1. Height(x) \in Int /\ Height(x) <= Height(b)
    BY <1>1, <1>6
  <2> QED BY <1>1, <2>1, SameBranchBelow
<1> QED BY <1>5, <1>6, <1>7 DEF Ancestors

-----------------------------------------------------------------------------
(* What a sealed root admits. *)

LEMMA TxsFacts ==
  ASSUME NEW b \in Blocks
  PROVE  /\ Len(Txs(b)) \in Nat /\ DOMAIN Txs(b) = 1 .. Len(Txs(b))
         /\ \A i \in DOMAIN Txs(b) : Txs(b)[i] = <<b, i>>
         /\ Txs(b) = [i \in DOMAIN Txs(b) |-> <<b, i>>]
         /\ Txs(b) \in Seq({<<b, i>> : i \in Nat})
         /\ Txs(b) # <<>> => Len(Txs(b)) >= 1
<1>1. PICK n \in 1 .. MaxHeight, br \in Branches : b = Block(n, br)
  BY DEF Blocks
<1>2. TxCount[Height(b)] \in Nat
  BY <1>1, BlockFacts, ConstantTypes
<1> DEFINE m == TxCount[Height(b)]
<1>3. Txs(b) = [i \in 1 .. m |-> <<b, i>>] /\ m \in Nat
  BY <1>2 DEF Txs
<1> HIDE DEF m
<1>4. [i \in 1 .. m |-> <<b, i>>] \in Seq({<<b, i>> : i \in Nat}) /\ Len([i \in 1 .. m |-> <<b, i>>]) = m
  BY <1>3
<1>5. m = 0 => [i \in 1 .. m |-> <<b, i>>] = <<>>
  BY <1>4, EmptySeq
<1> QED BY <1>3, <1>4, <1>5

LEMMA OkFacts ==
  ASSUME NEW v
  PROVE  Ok(v).ok = TRUE /\ Ok(v).value = v
BY DEF Ok

LEMMA ErrFacts ==
  ASSUME NEW e
  PROVE  Err(e).ok = FALSE
BY DEF Err

\* A list is admitted whole, or left out.
LEMMA BoundSound ==
  ASSUME NEW root, NEW reply, Bound(root, reply).ok
  PROVE  \/ Bound(root, reply) = Ok([omitted |-> FALSE, list |-> root])
         \/ /\ root # <<>> /\ reply.list = <<>>
            /\ Bound(root, reply) = Ok([omitted |-> TRUE, list |-> <<>>])
<1>1. Err("upstream").ok = FALSE /\ Err("proof").ok = FALSE
  BY DEF Err
<1> QED BY <1>1 DEF Bound

\* Receipts that are handed out: every transaction's own, labelled with it if the envelopes
\* were served.
Proved(list, b, p) ==
  /\ DOMAIN list = DOMAIN Txs(b)
  /\ \A i \in DOMAIN list : list[i].of = Txs(b)[i]
  /\ p.txs.list # <<>> => \A i \in DOMAIN list : list[i].label = Txs(b)[i]

LEMMA LabelledSound ==
  ASSUME NEW b \in Blocks, NEW p, NEW txs, Labelled(p, Txs(b), txs).ok,
         \/ txs = [omitted |-> FALSE, list |-> Txs(b)]
         \/ txs = [omitted |-> TRUE, list |-> <<>>] /\ p.txs.list = <<>>
  PROVE  Proved(Labelled(p, Txs(b), txs).value, b, p)
<1> DEFINE root == Txs(b)
           said == [i \in DOMAIN root |-> BoundReceipt(root[i], Label(root[i], p.labels))]
           own == [i \in DOMAIN root |-> BoundReceipt(root[i], root[i])]
<1>1. CASE txs = [omitted |-> FALSE, list |-> Txs(b)]
  <2>1. txs.omitted = FALSE /\ txs.list = root
    BY <1>1
  <2>2. Labelled(p, root, txs) = Ok(own)
    <3> HIDE DEF root
    <3>1. Err("proof").ok = FALSE
      BY DEF Err
    <3> QED BY <2>1, <3>1 DEF Labelled, root
  <2>3. Labelled(p, root, txs).value = own
    BY <2>2 DEF Ok
  <2>4. \A i \in DOMAIN root : own[i].of = root[i] /\ own[i].label = root[i]
    BY DEF BoundReceipt
  <2>5. DOMAIN own = DOMAIN root
    OBVIOUS
  <2> HIDE DEF own
  <2> QED BY <2>3, <2>4, <2>5 DEF Proved
<1>2. CASE txs = [omitted |-> TRUE, list |-> <<>>] /\ p.txs.list = <<>>
  <2>1. txs.omitted = TRUE
    BY <1>2
  <2>2. Labelled(p, root, txs) = Ok(said)
    BY <2>1 DEF Labelled
  <2>3. Labelled(p, root, txs).value = said
    BY <2>2 DEF Ok
  <2>4. \A i \in DOMAIN root : said[i].of = root[i]
    BY DEF BoundReceipt
  <2>5. DOMAIN said = DOMAIN root
    OBVIOUS
  <2> HIDE DEF said
  <2> QED BY <1>2, <2>3, <2>4, <2>5 DEF Proved
<1> QED BY <1>1, <1>2

NotThere == [omitted |-> TRUE, list |-> <<>>]

LEMMA ReceiptsSound ==
  ASSUME NEW b \in Blocks, NEW p, BoundReceipts(b, p).ok
  PROVE  \/ BoundReceipts(b, p) = Ok(NotThere) /\ p.receipts.list = <<>>
         \/ /\ BoundReceipts(b, p).value.omitted = FALSE
            /\ Proved(BoundReceipts(b, p).value.list, b, p)
<1> DEFINE root == Txs(b)
           rs == Bound(root, p.receipts)
           ts == Bound(root, p.txs)
           l == Labelled(p, rs.value.list, ts.value)
<1>1. BoundReceipts(b, p) = IF ~rs.ok \/ rs.value.list = <<>> THEN rs
                            ELSE IF ~ts.ok THEN ts
                            ELSE IF ~l.ok THEN l ELSE Ok([omitted |-> FALSE, list |-> l.value])
  BY DEF BoundReceipts
<1>2. rs.ok
  <2> HIDE DEF rs, ts, l
  <2> QED BY <1>1
<1>3. \/ rs = Ok([omitted |-> FALSE, list |-> root])
      \/ root # <<>> /\ p.receipts.list = <<>> /\ rs = Ok(NotThere)
  <2> HIDE DEF root
  <2> QED BY <1>2, BoundSound DEF NotThere
<1>4. CASE rs = Ok(NotThere) /\ p.receipts.list = <<>>
  <2>1. rs.value.list = <<>>
    BY <1>4 DEF Ok, NotThere
  <2> HIDE DEF rs, ts, l
  <2> QED BY <1>1, <1>4, <2>1
<1>5. CASE rs = Ok([omitted |-> FALSE, list |-> root])
  <2>1. rs.value.list = root /\ rs.value.omitted = FALSE
    <3> HIDE DEF root, rs
    <3> QED BY <1>5 DEF Ok
  <2>2. CASE root = <<>>
    <3>1. BoundReceipts(b, p) = rs
      <4> HIDE DEF rs, ts, l, root
      <4> QED BY <1>1, <2>1, <2>2
    <3>2. Proved(rs.value.list, b, p)
      <4>1. DOMAIN root = {}
        <5> HIDE DEF root
        <5> QED BY <2>2
      <4> HIDE DEF rs
      <4> QED BY <2>1, <4>1 DEF Proved
    <3> HIDE DEF rs
    <3> QED BY <2>1, <3>1, <3>2
  <2>3. CASE root # <<>>
    <3>1. ts.ok /\ l.ok /\ BoundReceipts(b, p) = Ok([omitted |-> FALSE, list |-> l.value])
      <4> HIDE DEF rs, ts, l, root
      <4> QED BY <1>1, <1>2, <2>1, <2>3
    <3>2. \/ ts.value = [omitted |-> FALSE, list |-> root]
          \/ ts.value = [omitted |-> TRUE, list |-> <<>>] /\ p.txs.list = <<>>
      <4>1. \/ ts = Ok([omitted |-> FALSE, list |-> root])
            \/ ts = Ok([omitted |-> TRUE, list |-> <<>>]) /\ p.txs.list = <<>>
        <5> HIDE DEF root
        <5> QED BY <3>1, BoundSound
      <4> HIDE DEF ts, root
      <4> QED BY <4>1, OkFacts, Zenon
    <3>3. l = Labelled(p, root, ts.value)
      <4> HIDE DEF rs, ts, root
      <4> QED BY <2>1
    <3>4. Proved(l.value, b, p)
      <4> HIDE DEF ts, l
      <4> QED BY <3>1, <3>2, <3>3, LabelledSound
    <3>5. BoundReceipts(b, p).value.omitted = FALSE /\ BoundReceipts(b, p).value.list = l.value
      <4> HIDE DEF l
      <4> QED BY <3>1 DEF Ok
    <3> HIDE DEF l
    <3> QED BY <3>4, <3>5
  <2> QED BY <2>2, <2>3
<1> QED BY <1>3, <1>4, <1>5

\* A handler that answers from a block's roots says what is true of the block.
LEMMA StateTrue ==
  ASSUME NEW b, NEW p, NEW r, r.kind \in Exec, ServedState(r, b, p).ok, NEW s, s.kind = r.kind, s.window = r.window
  PROVE  TrueOf(s, b, ServedState(r, b, p).value)
<1> DEFINE a == ServedState(r, b, p)
<1> SUFFICES TrueOf(s, b, a.value)
  OBVIOUS
<1>1. ProofHolds(b, p)
  BY ErrFacts DEF ServedState
<1>2. CASE r.kind = "account"
  <2>1. a = Ok(b)
    BY <1>1, <1>2 DEF ServedState, account_field
  <2>2. a.value = b
    BY <2>1, OkFacts
  <2> HIDE DEF a
  <2> QED BY <1>2, <2>2 DEF TrueOf
<1>3. CASE r.kind = "storage"
  <2>1. a = Ok(b)
    BY <1>1, <1>3, ErrFacts DEF ServedState, get_storage
  <2>2. a.value = b
    BY <2>1, OkFacts
  <2> HIDE DEF a
  <2> QED BY <1>3, <2>2 DEF TrueOf
<1>4. CASE r.kind = "proof"
  <2>1. a = Ok(b)
    BY <1>1, <1>4, ErrFacts DEF ServedState, get_eth_proof
  <2>2. a.value = b
    BY <2>1, OkFacts
  <2> HIDE DEF a
  <2> QED BY <1>4, <2>2 DEF TrueOf
<1>5. CASE r.kind = "code"
  <2>1. a = Ok(CodeOf(b))
    <3>1. a = get_code(b, p)
      BY <1>1, <1>5 DEF ServedState
    <3> QED BY <3>1, ErrFacts DEF get_code
  <2>2. a.value = CodeOf(b)
    BY <2>1, OkFacts
  <2> HIDE DEF a
  <2> QED BY <1>5, <2>2 DEF TrueOf
<1>6. CASE r.kind = "call"
  <2>1. a = Ok([state |-> b, hashes |-> r.window])
    BY <1>1, <1>6 DEF ServedState, eth_call, Hashes
  <2>2. a.value = [state |-> b, hashes |-> r.window]
    BY <2>1, OkFacts
  <2> HIDE DEF a
  <2>3. a.value.state = b /\ a.value.hashes = s.window
    BY <2>2
  <2> QED BY <1>6, <2>3 DEF TrueOf
<1> QED BY <1>2, <1>3, <1>4, <1>5, <1>6 DEF Exec

LEMMA ListTrue ==
  ASSUME NEW b \in Blocks, NEW p, NEW r, r.kind \in {"header", "count", "index"}, ServedList(r, b, p).ok,
         NEW s, s.kind = r.kind, s.heard.txs <=> p.txs.list # <<>>
  PROVE  TrueOf(s, b, ServedList(r, b, p).value)
<1> DEFINE a == ServedList(r, b, p)
           root == Txs(b)
           l == Bound(root, p.txs)
           t == l.value
<1> SUFFICES TrueOf(s, b, a.value)
  OBVIOUS
<1>1. a = IF ~HeaderLoads(b, p) THEN Err("proof") ELSE IF ~l.ok THEN l
          ELSE IF r.kind = "header" THEN get_block(t) ELSE IF r.kind = "count" THEN tx_count(t) ELSE tx_at_index(t)
  BY DEF ServedList
<1>2. l.ok /\ a = IF r.kind = "header" THEN get_block(t) ELSE IF r.kind = "count" THEN tx_count(t) ELSE tx_at_index(t)
  <2> HIDE DEF l, t
  <2> QED BY <1>1, ErrFacts
<1>3. \/ t.omitted = FALSE /\ t.list = root
      \/ t.omitted = TRUE /\ t.list = <<>> /\ p.txs.list = <<>>
  <2>1. \/ t = [omitted |-> FALSE, list |-> root]
        \/ p.txs.list = <<>> /\ t = [omitted |-> TRUE, list |-> <<>>]
    <3> HIDE DEF root
    <3> QED BY <1>2, BoundSound, OkFacts, ZenonT(90)
  <2> HIDE DEF t, root
  <2> QED BY <2>1
<1> HIDE DEF l, t
<1>4. CASE r.kind = "header"
  <2>1. a.value = t
    BY <1>2, <1>4, OkFacts DEF get_block
  <2> HIDE DEF a, root
  <2>2. a.value.list = root \/ (~s.heard.txs /\ a.value.list = <<>>)
    BY <1>3, <2>1
  <2> QED BY <1>4, <2>2 DEF TrueOf, root
<1>5. CASE r.kind = "count"
  <2>1. ~t.omitted /\ a.value = Len(t.list)
    BY <1>2, <1>5, OkFacts, ErrFacts DEF tx_count
  <2>2. a.value = Len(root)
    BY <1>3, <2>1
  <2> HIDE DEF a
  <2> QED BY <1>5, <2>2 DEF TrueOf
<1>6. CASE r.kind = "index"
  <2>1. ~t.omitted /\ a.value = IF t.list = <<>> THEN NoTx ELSE t.list[1]
    BY <1>2, <1>6, OkFacts, ErrFacts DEF tx_at_index
  <2>2. a.value = IF root = <<>> THEN NoTx ELSE root[1]
    <3> HIDE DEF root, a
    <3> QED BY <1>3, <2>1
  <2> HIDE DEF a
  <2> QED BY <1>6, <2>2 DEF TrueOf
<1> QED BY <1>4, <1>5, <1>6

LEMMA ReceiptsTrue ==
  ASSUME NEW b \in Blocks, NEW p, NEW r, r.kind = "receipts", ServedList(r, b, p).ok, NEW s, s.kind = r.kind,
         s.heard.txs <=> p.txs.list # <<>>, s.heard.receipts <=> p.receipts.list # <<>>
  PROVE  TrueOf(s, b, ServedList(r, b, p).value)
<1> DEFINE a == ServedList(r, b, p)
           l == BoundReceipts(b, p)
           v == l.value.list
<1> SUFFICES TrueOf(s, b, a.value)
  OBVIOUS
<1>1. a = IF ~HeaderLoads(b, p) THEN Err("proof") ELSE IF ~l.ok THEN l ELSE get_block_receipts(l.value)
  BY DEF ServedList
<1>2. l.ok /\ a = Ok(v)
  <2> HIDE DEF l
  <2> QED BY <1>1, ErrFacts DEF get_block_receipts
<1>3. a.value = v
  BY <1>2, OkFacts
<1>4. \/ l = Ok(NotThere) /\ p.receipts.list = <<>>
      \/ Proved(v, b, p)
  BY <1>2, ReceiptsSound
<1>5. CASE l = Ok(NotThere) /\ p.receipts.list = <<>>
  <2>1. v = <<>>
    <3>1. l.value = NotThere
      <4> HIDE DEF l
      <4> QED BY <1>5, OkFacts
    <3> HIDE DEF l
    <3> QED BY <3>1 DEF NotThere
  <2>2. \A i \in DOMAIN v : v[i].label = v[i].of
    <3> HIDE DEF v
    <3> QED BY <2>1
  <2> HIDE DEF a, v
  <2> QED BY <1>3, <1>5, <2>1, <2>2 DEF TrueOf
<1>6. CASE Proved(v, b, p)
  <2> HIDE DEF a, v
  <2>1. [i \in DOMAIN v |-> v[i].of] = Txs(b)
    <3>1. \A i \in DOMAIN v : v[i].of = <<b, i>>
      BY <1>6, TxsFacts DEF Proved
    <3>2. [i \in DOMAIN v |-> v[i].of] = [i \in DOMAIN Txs(b) |-> <<b, i>>]
      BY <1>6, <3>1 DEF Proved
    <3> QED BY <3>2, TxsFacts
  <2>2. s.heard.txs => \A i \in DOMAIN v : v[i].label = v[i].of
    BY <1>6 DEF Proved
  <2> QED BY <1>3, <2>1, <2>2 DEF TrueOf
<1> QED BY <1>4, <1>5, <1>6

LEMMA ReceiptTrue ==
  ASSUME NEW b \in Blocks, NEW p, NEW r, r.kind = "receipt", ServedList(r, b, p).ok, NEW s, s.kind = r.kind,
         s.want = r.want, s.heard.txs <=> p.txs.list # <<>>, BoundReceipts(b, p) # Ok(NotThere)
  PROVE  TrueOf(s, b, ServedList(r, b, p).value)
<1> DEFINE a == ServedList(r, b, p)
           l == BoundReceipts(b, p)
           v == l.value.list
           mine == {i \in DOMAIN v : v[i].label = r.want}
<1> SUFFICES TrueOf(s, b, a.value)
  OBVIOUS
<1>1. a = IF ~HeaderLoads(b, p) THEN Err("proof") ELSE IF ~l.ok THEN l ELSE get_transaction_receipt(r, l.value)
  BY DEF ServedList
<1>2. l.ok /\ a = Ok(IF mine = {} THEN NoTx ELSE v[Min(mine)].of)
  <2> HIDE DEF l
  <2> QED BY <1>1, ErrFacts DEF get_transaction_receipt
<1>3. a.value = IF mine = {} THEN NoTx ELSE v[Min(mine)].of
  <2> HIDE DEF mine, v, a
  <2> QED BY <1>2, OkFacts, Zenon
<1>4. Proved(v, b, p)
  BY <1>2, ReceiptsSound
<1> HIDE DEF a, l, v
<1> SUFFICES ASSUME s.heard.txs
             PROVE  a.value = IF s.want \in Range(Txs(b)) THEN s.want ELSE NoTx
  BY DEF TrueOf
<1>5. \A i \in DOMAIN v : v[i].of = <<b, i>> /\ v[i].label = <<b, i>>
  BY <1>4, TxsFacts DEF Proved
<1>6. DOMAIN v = DOMAIN Txs(b) /\ Range(Txs(b)) = {<<b, i>> : i \in DOMAIN v} /\ DOMAIN v \subseteq Int
  <2>1. DOMAIN v = DOMAIN Txs(b) /\ DOMAIN v \subseteq Int
    <3>1. DOMAIN v = DOMAIN Txs(b)
      BY <1>4 DEF Proved
    <3>2. DOMAIN Txs(b) = 1 .. Len(Txs(b))
      BY TxsFacts, Zenon
    <3>3. 1 .. Len(Txs(b)) \subseteq Int
      OBVIOUS
    <3> QED BY <3>1, <3>2, <3>3, Zenon
  <2>2. \A i \in DOMAIN v : Txs(b)[i] = <<b, i>>
    BY <2>1, TxsFacts
  <2> QED BY <2>1, <2>2 DEF Range
<1>7. CASE mine = {}
  <2>1. s.want \notin Range(Txs(b))
    BY <1>5, <1>6, <1>7
  <2> HIDE DEF mine
  <2> QED BY <1>3, <1>7, <2>1
<1>8. CASE mine # {}
  <2>1. PICK j \in mine : TRUE
    BY <1>8
  <2>2. j \in DOMAIN v /\ r.want = <<b, j>> /\ v[j].of = <<b, j>> /\ j \in Int
    BY <1>5, <1>6
  <2>3. mine = {j}
    BY <1>5, <2>2
  <2> HIDE DEF mine
  <2>4. Min(mine) = j
    BY <2>2, <2>3 DEF Min
  <2> QED BY <1>3, <1>6, <1>8, <2>2, <2>4
<1> QED BY <1>7, <1>8

LEMMA ServedTrue ==
  ASSUME NEW b \in Blocks, NEW p, NEW r, r.kind \in Verified, r.kind # "logs", ServedBlock(r, b, p).ok,
         ~(r.kind = "receipt" /\ HeaderLoads(b, p) /\ BoundReceipts(b, p) = Ok(NotThere)),
         NEW s, s.kind = r.kind, s.want = r.want, s.window = r.window,
         s.heard.txs <=> p.txs.list # <<>>, s.heard.receipts <=> p.receipts.list # <<>>
  PROVE  TrueOf(s, b, ServedBlock(r, b, p).value)
<1>1. CASE r.kind \in Exec
  <2>1. ServedBlock(r, b, p) = ServedState(r, b, p)
    BY <1>1 DEF ServedBlock, Exec
  <2> QED BY <1>1, <2>1, StateTrue
<1>2. CASE r.kind = "uncle"
  BY <1>2 DEF TrueOf
<1>3. CASE r.kind \in {"header", "count", "index", "receipts", "receipt"}
  <2>1. ServedBlock(r, b, p) = ServedList(r, b, p)
    BY <1>3 DEF ServedBlock, Exec
  <2>2. r.kind = "receipt" => BoundReceipts(b, p) # Ok(NotThere)
    <3>1. HeaderLoads(b, p)
      BY <2>1, ErrFacts DEF ServedList
    <3> QED BY <3>1
  <2> QED BY <1>3, <2>1, <2>2, ListTrue, ReceiptsTrue, ReceiptTrue
<1> QED BY <1>1, <1>2, <1>3 DEF Verified, Walk

-----------------------------------------------------------------------------
(* A provider that serves what is true. *)

LEMMA HonestBound ==
  ASSUME NEW root, NEW reply, reply = [up |-> TRUE, list |-> root]
  PROVE  Bound(root, reply) = Ok([omitted |-> FALSE, list |-> root])
<1>1. reply.up = TRUE /\ reply.list = root
  OBVIOUS
<1>2. CASE root = <<>>
  BY <1>2 DEF Bound
<1>3. CASE root # <<>>
  BY <1>1, <1>3 DEF Bound
<1> QED BY <1>2, <1>3

LEMMA HonestReceipts ==
  ASSUME NEW b \in Blocks, NEW p, Honest(b, p), p.labels \in Labels
  PROVE  BoundReceipts(b, p).ok /\ BoundReceipts(b, p).value.omitted = FALSE
<1> DEFINE root == Txs(b)
           rs == Bound(root, p.receipts)
           ts == Bound(root, p.txs)
           l == Labelled(p, rs.value.list, ts.value)
           whole == [omitted |-> FALSE, list |-> root]
<1>1. BoundReceipts(b, p) = IF ~rs.ok \/ rs.value.list = <<>> THEN rs
                            ELSE IF ~ts.ok THEN ts
                            ELSE IF ~l.ok THEN l ELSE Ok([omitted |-> FALSE, list |-> l.value])
  BY DEF BoundReceipts
<1>2. rs = Ok(whole) /\ ts = Ok(whole)
  <2>1. p.txs = [up |-> TRUE, list |-> root] /\ p.receipts = [up |-> TRUE, list |-> root]
    BY DEF Honest
  <2> HIDE DEF root
  <2> QED BY <2>1, HonestBound
<1>3. rs.ok /\ ts.ok /\ rs.value = whole /\ ts.value = whole
  <2> HIDE DEF rs, ts, whole
  <2> QED BY <1>2, OkFacts
<1>4. whole.omitted = FALSE /\ whole.list = root
  <2> HIDE DEF root
  <2> QED OBVIOUS
<1>5. l = Labelled(p, root, whole)
  <2> HIDE DEF rs, ts, whole, root
  <2> QED BY <1>3, <1>4
<1>6. l.ok
  <2>1. \A i \in DOMAIN root : Label(root[i], p.labels) \in {NoTx, root[i]}
    <3>1. p.labels \in {"true", "none"}
      BY DEF Honest, Labels
    <3> HIDE DEF root
    <3> QED BY <3>1 DEF Label
  <2>2. ~(Len(root) > Len(root))
    BY TxsFacts
  <2>3. Labelled(p, root, whole) = Ok([i \in DOMAIN root |-> BoundReceipt(root[i], root[i])])
    <3> HIDE DEF root, whole
    <3> QED BY <1>4, <2>1, <2>2 DEF Labelled
  <2> HIDE DEF l, whole, root
  <2> QED BY <1>5, <2>3, OkFacts
<1>7. CASE rs.value.list = <<>>
  <2>1. BoundReceipts(b, p) = rs
    <3> HIDE DEF rs, ts, l
    <3> QED BY <1>1, <1>7
  <2> HIDE DEF rs, ts, l, whole
  <2> QED BY <1>3, <1>4, <2>1
<1>8. CASE rs.value.list # <<>>
  <2>1. BoundReceipts(b, p) = Ok([omitted |-> FALSE, list |-> l.value])
    <3> HIDE DEF rs, ts, l
    <3> QED BY <1>1, <1>3, <1>6, <1>8
  <2> HIDE DEF l
  <2> QED BY <2>1 DEF Ok
<1> QED BY <1>7, <1>8

\* It is answered from, unless there are too many logs.
LEMMA HonestServed ==
  ASSUME NEW b \in Blocks, NEW p, Honest(b, p), p.labels \in Labels, NEW r, r.kind \in Verified
  PROVE  /\ BoundReceipts(b, p) # Ok(NotThere)
         /\ r.kind # "logs" => ServedBlock(r, b, p).ok
         /\ r.kind = "logs" => ReceiptsOf(b, p).ok /\ ~ReceiptsOf(b, p).value.omitted
<1>1. BoundReceipts(b, p).ok /\ BoundReceipts(b, p).value.omitted = FALSE
  BY HonestReceipts
<1>2. BoundReceipts(b, p) # Ok(NotThere)
  <2>1. Ok(NotThere).value.omitted = TRUE
    BY DEF Ok, NotThere
  <2> QED BY <1>1, <2>1
<1>3. HeaderLoads(b, p) /\ ProofHolds(b, p) /\ p.slot = b /\ (p.code = CodeOf(b) \/ CodeOf(b) = "empty")
  BY DEF Honest, HeaderLoads, ProofHolds
<1>4. CASE r.kind = "logs"
  <2>1. ReceiptsOf(b, p) = BoundReceipts(b, p)
    BY <1>3 DEF ReceiptsOf
  <2> QED BY <1>1, <1>2, <1>4, <2>1
<1>5. CASE r.kind \in Exec
  <2>1. ServedBlock(r, b, p) = ServedState(r, b, p) /\ r.kind # "logs"
    BY <1>5 DEF ServedBlock, Exec
  <2>2. ServedState(r, b, p).ok
    <3>1. account_field(b).ok /\ get_storage(b, p).ok /\ get_eth_proof(b, p).ok /\ eth_call(r, b).ok
      BY <1>3, OkFacts DEF account_field, get_storage, get_eth_proof, eth_call
    <3>2. get_code(b, p).ok
      BY <1>3, OkFacts DEF get_code
    <3> QED BY <1>3, <1>5, <3>1, <3>2 DEF ServedState, Exec
  <2> QED BY <1>2, <2>1, <2>2
<1>6. CASE r.kind = "uncle"
  <2>1. ServedBlock(r, b, p) = uncle /\ r.kind # "logs"
    BY <1>6 DEF ServedBlock, Exec
  <2> QED BY <1>2, <2>1, OkFacts DEF uncle
<1>7. CASE r.kind \in {"header", "count", "index", "receipts", "receipt"}
  <2> DEFINE l == IF r.kind \in {"receipts", "receipt"} THEN BoundReceipts(b, p) ELSE Bound(Txs(b), p.txs)
             t == l.value
  <2>1. l.ok /\ t.omitted = FALSE
    <3>1. p.txs = [up |-> TRUE, list |-> Txs(b)]
      BY DEF Honest
    <3>2. Bound(Txs(b), p.txs) = Ok([omitted |-> FALSE, list |-> Txs(b)])
      BY <3>1, HonestBound
    <3>3. Bound(Txs(b), p.txs).ok /\ Bound(Txs(b), p.txs).value.omitted = FALSE
      BY <3>2 DEF Ok
    <3> QED BY <1>1, <3>3
  <2>2. /\ ServedBlock(r, b, p) = ServedList(r, b, p) /\ r.kind # "logs"
    BY <1>7 DEF ServedBlock, Exec
  <2>3. ServedList(r, b, p) =
          CASE r.kind = "header"   -> get_block(t)
            [] r.kind = "count"    -> tx_count(t)
            [] r.kind = "index"    -> tx_at_index(t)
            [] r.kind = "receipts" -> get_block_receipts(t)
            [] r.kind = "receipt"  -> get_transaction_receipt(r, t)
    BY <1>3, <2>1 DEF ServedList
  <2> HIDE DEF t, l
  <2>4. /\ get_block(t).ok /\ tx_count(t).ok /\ tx_at_index(t).ok /\ get_block_receipts(t).ok
        /\ get_transaction_receipt(r, t).ok
    BY <2>1, OkFacts DEF get_block, tx_count, tx_at_index, get_block_receipts, get_transaction_receipt
  <2>5. ServedList(r, b, p).ok
    BY <1>7, <2>3, <2>4
  <2> QED BY <1>2, <2>2, <2>5
<1> QED BY <1>4, <1>5, <1>6, <1>7 DEF Verified, Walk

-----------------------------------------------------------------------------
(* The steps of a request, one lemma for each way it goes on. *)

\* A request that has just come in.
LEMMA Fresh ==
  ASSUME NEW r, NEW br, NEW top \in Nat, NEW cut, NEW al,
         DOMAIN r = Fields, r.at \in {"claim", "refresh", "done"}, r.next = "resolve", r.kind \in Kinds,
         r.at = "claim" => r.kind \in Passthrough \cup {"receipt", "send"},
         r.at = "refresh" => r.kind \in Verified,
         r.kind \in Passthrough /\ r.at = "claim" => al,
         r.kind = "logs" => r.tag.by = "hash" \/ (r.tag.from \in Nat /\ r.tag.to \in Nat),
         r.safe = NoBlock, r.blocks = <<>>, r.got = <<>>, r.heard = NotHeard
  PROVE  ReqSound(r, br, top, cut, al)
<1>1. Placed(r, al)
  BY DEF Placed
<1>2. BlocksSound(r, br, top, cut)
  <2>1. r.safe[1] = 0 /\ r.blocks \in Seq(Blocks) /\ DOMAIN r.blocks = {} /\ Len(r.blocks) = 0
    BY DEF NoBlock
  <2> QED BY <2>1 DEF BlocksSound
<1>3. AnswerSound(r)
  BY DEF AnswerSound, FromRootsOf
<1>4. PassedSound(r, br, top, cut)
  BY DEF PassedSound
<1>5. HonestSound(r) /\ GotSound(r)
  <2>1. r.heard.honest = FALSE
    BY DEF NotHeard
  <2>2. r.got \in Seq(Lists) /\ DOMAIN r.got = {} /\ r.at # "serve"
    OBVIOUS
  <2> QED BY <2>1, <2>2 DEF HonestSound, GotSound
<1> QED BY <1>1, <1>2, <1>3, <1>4, <1>5 DEF ReqSound

LEMMA NothingGot ==
  ASSUME NEW g, g = <<>>
  PROVE  g \in Seq(Lists) /\ DOMAIN g = {} /\ Len(g) = 0
OBVIOUS

LEMMA ReplyFields ==
  ASSUME NEW r, DOMAIN r = Fields, NEW a, NEW s, s = Reply(r, a)
  PROVE  /\ DOMAIN s = Fields /\ s.at = "done" /\ s.answer = a
         /\ s.next = r.next /\ s.kind = r.kind /\ s.tag = r.tag /\ s.want = r.want /\ s.head = r.head
         /\ s.safe = r.safe /\ s.blocks = r.blocks /\ s.window = r.window /\ s.claim = r.claim
         /\ s.heard = r.heard /\ s.got = r.got
BY DEF Reply, Fields

\* A request is refused.
LEMMA Refused ==
  ASSUME NEW r, NEW br, NEW top, NEW cut, NEW al, ReqSound(r, br, top, cut, al), r.at # "done",
         r.at # "serve" \/ r.kind # "logs", NEW a, ~a.ok, NEW s, s = Reply(r, a)
  PROVE  ReqSound(s, br, top, cut, al)
<1>1. DOMAIN r = Fields
  BY DEF ReqSound, Placed
<1>2. /\ DOMAIN s = Fields /\ s.at = "done" /\ s.answer = a
      /\ s.next = r.next /\ s.kind = r.kind /\ s.tag = r.tag /\ s.want = r.want
      /\ s.safe = r.safe /\ s.blocks = r.blocks /\ s.window = r.window /\ s.heard = r.heard /\ s.got = r.got
  BY <1>1, ReplyFields
<1>3. Placed(s, al)
  BY <1>2 DEF ReqSound, Placed
<1>4. BlocksSound(s, br, top, cut)
  BY <1>2 DEF ReqSound, BlocksSound
<1>5. AnswerSound(s) /\ PassedSound(s, br, top, cut)
  BY <1>2 DEF AnswerSound, FromRootsOf, PassedSound
<1>6. HonestSound(s) /\ GotSound(s)
  BY <1>2 DEF ReqSound, HonestSound, GotSound
<1> QED BY <1>3, <1>4, <1>5, <1>6 DEF ReqSound

\* A request that is only an object is answered with it.
LEMMA AnsweredEarly ==
  ASSUME NEW r, NEW br, NEW top, NEW cut, NEW al, ReqSound(r, br, top, cut, al), r.at = "claim",
         NEW a, NEW s, s = Reply(r, a)
  PROVE  ReqSound(s, br, top, cut, al)
<1>1. DOMAIN r = Fields /\ r.next = "resolve" /\ r.blocks = <<>>
  BY DEF ReqSound, Placed, BlocksSound
<1>2. /\ DOMAIN s = Fields /\ s.at = "done" /\ s.answer = a
      /\ s.next = r.next /\ s.kind = r.kind /\ s.tag = r.tag /\ s.want = r.want
      /\ s.safe = r.safe /\ s.blocks = r.blocks /\ s.window = r.window /\ s.heard = r.heard /\ s.got = r.got
  BY <1>1, ReplyFields
<1>3. Placed(s, al)
  BY <1>2 DEF ReqSound, Placed
<1>4. BlocksSound(s, br, top, cut)
  BY <1>2 DEF ReqSound, BlocksSound
<1>5. AnswerSound(s) /\ PassedSound(s, br, top, cut)
  BY <1>1, <1>2 DEF AnswerSound, FromRootsOf, PassedSound
<1>6. HonestSound(s) /\ GotSound(s)
  BY <1>2 DEF ReqSound, HonestSound, GotSound
<1> QED BY <1>3, <1>4, <1>5, <1>6 DEF ReqSound

\* A request goes on with the object it has been told.
LEMMA ToldSound ==
  ASSUME NEW r, NEW br, NEW top, NEW cut, NEW al, ReqSound(r, br, top, cut, al), r.at = "claim",
         NEW next \in {"resolve", "bind"}, next = "resolve" => r.kind = "receipt",
         next = "bind" => al /\ r.kind \in Passthrough \cup {"receipt"},
         NEW c, NEW s, s = Told(r, c, next)
  PROVE  ReqSound(s, br, top, cut, al)
<1>1. DOMAIN r = Fields
  BY DEF ReqSound, Placed
<1>2. /\ DOMAIN s = Fields /\ s.at = "refresh" /\ s.answer = r.answer
      /\ s.next = next /\ s.kind = r.kind /\ s.tag = r.tag /\ s.want = r.want
      /\ s.safe = r.safe /\ s.blocks = r.blocks /\ s.window = r.window /\ s.heard = r.heard /\ s.got = r.got
  BY <1>1 DEF Told, Fields
<1>3. Placed(s, al)
  BY <1>2 DEF ReqSound, Placed, Verified
<1>4. BlocksSound(s, br, top, cut)
  BY <1>2 DEF ReqSound, BlocksSound
<1>5. AnswerSound(s) /\ PassedSound(s, br, top, cut)
  BY <1>2 DEF AnswerSound, FromRootsOf, PassedSound
<1>6. HonestSound(s) /\ GotSound(s)
  BY <1>2 DEF ReqSound, HonestSound, GotSound
<1> QED BY <1>3, <1>4, <1>5, <1>6 DEF ReqSound

\* A request is given the view.
LEMMA RefreshedSound ==
  ASSUME NEW r, NEW br, NEW top, NEW cut, NEW al, ReqSound(r, br, top, cut, al), r.at = "refresh",
         NEW head, NEW safe, safe[1] \in Nat, safe[1] <= top,
         NEW s, s = [r EXCEPT !.at = r.next, !.head = head, !.safe = safe]
  PROVE  ReqSound(s, br, top, cut, al)
<1>1. DOMAIN r = Fields
  BY DEF ReqSound, Placed
<1>2. /\ DOMAIN s = Fields /\ s.at = r.next /\ s.answer = r.answer
      /\ s.next = r.next /\ s.kind = r.kind /\ s.tag = r.tag /\ s.want = r.want
      /\ s.safe = safe /\ s.blocks = r.blocks /\ s.window = r.window /\ s.heard = r.heard /\ s.got = r.got
  BY <1>1 DEF Fields
<1>3. Placed(s, al)
  BY <1>2 DEF ReqSound, Placed
<1>4. BlocksSound(s, br, top, cut)
  BY <1>2 DEF ReqSound, BlocksSound, Placed
<1>5. AnswerSound(s) /\ PassedSound(s, br, top, cut)
  BY <1>2 DEF ReqSound, Placed, AnswerSound, FromRootsOf, PassedSound
<1>6. HonestSound(s) /\ GotSound(s)
  <2>1. r.got = <<>> /\ ~r.heard.honest /\ s.at # "serve"
    BY <1>2 DEF ReqSound, HonestSound, GotSound, Placed
  <2>2. s.got = <<>>
    BY <1>2, <2>1
  <2>3. s.got \in Seq(Lists) /\ DOMAIN s.got = {}
    BY ONLY <2>2, NothingGot
  <2> QED BY <1>2, <2>1, <2>2, <2>3 DEF HonestSound, GotSound
<1> QED BY <1>3, <1>4, <1>5, <1>6 DEF ReqSound

\* A request has found its blocks.
LEMMA FoundSound ==
  ASSUME NEW c, GoodChain(c), NEW r, NEW top \in Nat, NEW cut, NEW al, ReqSound(r, c.br, top, cut, al),
         r.at = "resolve", Resolved(r, c).ok, NEW v, v = Resolved(r, c).value,
         NEW w, w = (IF r.kind = "call" THEN Window(c, v[1]) ELSE {}),
         NEW s, s = [r EXCEPT !.at = "serve", !.blocks = v, !.window = w]
  PROVE  ReqSound(s, c.br, top, cut, al)
<1>1. /\ DOMAIN r = Fields /\ r.kind \in Verified /\ r.next = "resolve" /\ Height(r.safe) \in Nat /\ Height(r.safe) <= top
      /\ r.kind = "logs" => r.tag.by = "hash" \/ (r.tag.from \in Nat /\ r.tag.to \in Nat)
  BY DEF ReqSound, Placed, BlocksSound, Height
<1>2. /\ DOMAIN s = Fields /\ s.at = "serve" /\ s.answer = r.answer
      /\ s.next = r.next /\ s.kind = r.kind /\ s.tag = r.tag /\ s.want = r.want
      /\ s.safe = r.safe /\ s.blocks = v /\ s.window = w /\ s.heard = r.heard /\ s.got = r.got
  BY <1>1 DEF Fields
<1>3. /\ Below(v, c, Height(r.safe))
      /\ r.kind # "logs" => Len(v) = 1
      /\ r.kind = "logs" => OneStretch(v)
  BY <1>1, ResolvedSound
<1>4. v \in Seq(Blocks) /\ v # <<>> /\ 1 \in DOMAIN v
  <2>1. v \in Seq(Blocks) /\ v # <<>>
    BY <1>3 DEF Below
  <2> QED BY <2>1
<1>5. \A i \in DOMAIN v : Anchored(v[i], c.br, top, cut)
  <2> SUFFICES ASSUME NEW i \in DOMAIN v
               PROVE  Anchored(v[i], c.br, top, cut)
    OBVIOUS
  <2>1. v[i] = Block(Height(v[i]), c.br) /\ Height(v[i]) \in Nat /\ Height(v[i]) <= Height(r.safe)
    BY <1>3 DEF Below
  <2>2. Height(v[i]) \in 0 .. top
    BY <1>1, <2>1
  <2> QED BY <2>1, <2>2 DEF Anchored
<1>6. r.kind = "call" => w \subseteq Ancestors(v[1])
  BY <1>3, <1>4, WindowSound DEF Below
<1>7. Placed(s, al)
  BY <1>1, <1>2 DEF ReqSound, Placed
<1>8. BlocksSound(s, c.br, top, cut)
  <2>1. s.safe[1] \in Nat /\ s.safe[1] <= top
    BY <1>1, <1>2 DEF Height
  <2>2. s.kind # "logs" => Len(s.blocks) <= 1
    <3>1. \A n : n = 1 => n <= 1
      OBVIOUS
    <3> QED BY <1>2, <1>3, <3>1, Zenon
  <2> QED BY <1>2, <1>3, <1>4, <1>5, <1>6, <2>1, <2>2 DEF BlocksSound
<1>9. AnswerSound(s) /\ PassedSound(s, c.br, top, cut)
  BY <1>2 DEF AnswerSound, FromRootsOf, PassedSound
<1>10. HonestSound(s) /\ GotSound(s)
  <2>1. r.got = <<>> /\ ~r.heard.honest
    BY DEF ReqSound, HonestSound, GotSound
  <2>2. s.got \in Seq(Lists) /\ DOMAIN s.got = {} /\ s.got = <<>> /\ Len(s.got) = 0
    <3>1. s.got = <<>>
      BY <1>2, <2>1
    <3> QED BY ONLY <3>1, NothingGot
  <2>3. Len(s.got) < Len(s.blocks)
    BY <1>2, <1>4, <2>2
  <2> QED BY <1>2, <2>1, <2>2, <2>3 DEF HonestSound, GotSound
<1> QED BY <1>7, <1>8, <1>9, <1>10 DEF ReqSound

\* The receipts of a block, once they are proved and there, are those of every transaction of
\* the block.
LEMMA RangeReceipts ==
  ASSUME NEW b \in Blocks, NEW p, ReceiptsOf(b, p).ok, ~ReceiptsOf(b, p).value.omitted,
         NEW list, list = ReceiptsOf(b, p).value.list
  PROVE  [i \in DOMAIN list |-> list[i].of] = Txs(b)
<1>1. /\ DOMAIN list = DOMAIN Txs(b)
      /\ \A i \in DOMAIN list : list[i].of = Txs(b)[i]
  <2>1. ReceiptsOf(b, p) = BoundReceipts(b, p)
    BY ErrFacts DEF ReceiptsOf
  <2>2. BoundReceipts(b, p) # Ok(NotThere)
    <3>1. Ok(NotThere).value.omitted = TRUE
      BY DEF Ok, NotThere
    <3> QED BY <2>1, <3>1
  <2>3. Proved(BoundReceipts(b, p).value.list, b, p)
    BY <2>1, <2>2, ReceiptsSound
  <2> QED BY <2>1, <2>3 DEF Proved
<1> DEFINE root == Txs(b)
<1>2. root = [i \in DOMAIN root |-> root[i]]
  BY DEF Txs
<1> HIDE DEF root
<1>3. DOMAIN list = DOMAIN root /\ \A i \in DOMAIN list : list[i].of = root[i]
  BY <1>1 DEF root
<1> QED BY <1>2, <1>3 DEF root

\* One more block's logs.
LEMMA OneMore ==
  ASSUME NEW bs \in Seq(Blocks), NEW got \in Seq(Lists), Len(got) < Len(bs),
         \A k \in DOMAIN got : got[k] = Txs(bs[k]),
         NEW more, more = Append(got, Txs(bs[Len(got) + 1]))
  PROVE  /\ more \in Seq(Lists) /\ Len(more) = Len(got) + 1 /\ more # <<>>
         /\ \A k \in DOMAIN more : more[k] = Txs(bs[k])
<1> DEFINE n == Len(got)
           x == Txs(bs[n + 1])
<1>1. n \in Nat /\ n + 1 \in DOMAIN bs
  OBVIOUS
<1>2. x \in Lists
  BY <1>1 DEF Lists
<1> HIDE DEF n, x
<1>3. more = Append(got, x)
  BY DEF x, n
<1>4. more \in Seq(Lists) /\ Len(more) = Len(got) + 1 /\ more # <<>>
  BY <1>2, <1>3
<1>5. ASSUME NEW k \in DOMAIN more
      PROVE  more[k] = Txs(bs[k])
  <2>1. CASE k = n + 1
    BY <1>1, <1>2, <1>3, <2>1 DEF n, x
  <2>2. CASE k # n + 1
    <3>1. k \in DOMAIN got /\ more[k] = got[k]
      BY <1>1, <1>2, <1>3, <2>2 DEF n
    <3> QED BY <3>1
  <2> QED BY <2>1, <2>2
<1> QED BY <1>4, <1>5

\* The logs of all the blocks of a range are the logs of the range.
LEMMA AllOfThem ==
  ASSUME NEW bs \in Seq(Blocks), NEW got \in Seq(Lists), Len(got) = Len(bs),
         \A k \in DOMAIN got : got[k] = Txs(bs[k])
  PROVE  FlattenSeq(got) = AllLogs(bs)
<1>1. DOMAIN got = DOMAIN bs /\ got = [k \in DOMAIN got |-> got[k]]
  OBVIOUS
<1>2. got = [k \in DOMAIN bs |-> Txs(bs[k])]
  BY <1>1
<1> QED BY <1>2 DEF AllLogs

\* A request is answered from the roots of its blocks.
LEMMA AnsweredFromRoots ==
  ASSUME NEW q, NEW br, NEW top, NEW cut, NEW al, Placed(q, al), BlocksSound(q, br, top, cut), q.at = "serve",
         NEW a, a.ok /\ q.kind # "logs" => TrueOf(q, q.blocks[1], a.value),
         a.ok /\ q.kind = "logs" => a.value = AllLogs(q.blocks),
         q.heard.honest => a.ok \/ (q.kind = "logs" /\ a = Err("params")),
         NEW s, s = Reply(q, a)
  PROVE  ReqSound(s, br, top, cut, al)
<1>1. DOMAIN q = Fields
  BY DEF Placed
<1>2. /\ DOMAIN s = Fields /\ s.at = "done" /\ s.answer = a
      /\ s.next = q.next /\ s.kind = q.kind /\ s.tag = q.tag /\ s.want = q.want
      /\ s.safe = q.safe /\ s.blocks = q.blocks /\ s.window = q.window /\ s.heard = q.heard /\ s.got = q.got
  BY <1>1, ReplyFields
<1>3. Placed(s, al)
  BY <1>2 DEF Placed
<1>4. BlocksSound(s, br, top, cut)
  BY <1>2 DEF BlocksSound
<1>5. AnswerSound(s)
  <2>1. CASE q.kind = "logs"
    <3>1. TrueOf(s, q.blocks[1], a.value)
      BY <1>2, <2>1 DEF TrueOf
    <3> QED BY <1>2, <2>1, <3>1 DEF AnswerSound, FromRootsOf
  <2>2. CASE q.kind # "logs"
    <3>1. a.ok => TrueOf(s, q.blocks[1], a.value)
      BY <1>2, <2>2 DEF TrueOf
    <3> QED BY <1>2, <2>2, <3>1 DEF AnswerSound, FromRootsOf
  <2> QED BY <2>1, <2>2
<1>6. PassedSound(s, br, top, cut)
  BY <1>2 DEF PassedSound, Placed
<1>7. HonestSound(s) /\ GotSound(s)
  BY <1>2 DEF HonestSound, GotSound
<1> QED BY <1>3, <1>4, <1>5, <1>6, <1>7 DEF ReqSound

\* Request q is request r that has heard one more reply.
HasHeard(q, r, b, p) ==
  /\ DOMAIN q = Fields /\ q.at = r.at /\ q.answer = r.answer
  /\ q.next = r.next /\ q.kind = r.kind /\ q.tag = r.tag /\ q.want = r.want
  /\ q.safe = r.safe /\ q.blocks = r.blocks /\ q.window = r.window /\ q.got = r.got
  /\ q.heard.honest <=> Honest(b, p) /\ (r.got # <<>> => r.heard.honest)
  /\ q.heard.txs <=> p.txs.list # <<>>
  /\ q.heard.receipts <=> p.receipts.list # <<>>

LEMMA HeardFields ==
  ASSUME NEW r, DOMAIN r = Fields, NEW b, NEW p, NEW q, q = [r EXCEPT !.heard = Heard(r, b, p)]
  PROVE  HasHeard(q, r, b, p)
<1> DEFINE x == Honest(b, p) /\ (r.got # <<>> => r.heard.honest)
           y == p.txs.list # <<>>
           z == p.receipts.list # <<>>
<1>1. Heard(r, b, p) = [honest |-> x, txs |-> y, receipts |-> z]
  BY DEF Heard
<1> HIDE DEF x, y, z
<1>2. /\ DOMAIN q = Fields /\ q.at = r.at /\ q.answer = r.answer
      /\ q.next = r.next /\ q.kind = r.kind /\ q.tag = r.tag /\ q.want = r.want
      /\ q.safe = r.safe /\ q.blocks = r.blocks /\ q.window = r.window /\ q.got = r.got
      /\ q.heard = Heard(r, b, p)
  BY DEF Fields
<1>3. q.heard.honest = x /\ q.heard.txs = y /\ q.heard.receipts = z
  BY <1>1, <1>2
<1> QED BY <1>2, <1>3 DEF x, y, z, HasHeard

\* A request for one block has been served: q is the request that has heard the provider.
LEMMA ServedSound ==
  ASSUME NEW r, NEW br, NEW top, NEW cut, NEW al, ReqSound(r, br, top, cut, al), r.at = "serve", r.kind # "logs",
         NEW b, b = NextBlock(r), NEW p, p.labels \in Labels,
         NEW q, q = [r EXCEPT !.heard = Heard(r, b, p)],
         NEW s, s = IF ~Unproved(r, b, p) THEN Reply(q, ServedBlock(r, b, p)) ELSE IF ~al THEN Reply(q, Err("method"))
                    ELSE [q EXCEPT !.at = "refresh", !.next = "bind"]
  PROVE  ReqSound(s, br, top, cut, al)
<1> DEFINE a == ServedBlock(r, b, p)
           omitted == Unproved(r, b, p)
<1>1. /\ DOMAIN r = Fields /\ r.kind \in Verified /\ r.next = "resolve" /\ r.blocks \in Seq(Blocks) /\ r.blocks # <<>>
      /\ r.got = <<>>
  BY DEF ReqSound, Placed, BlocksSound, GotSound
<1>2. b \in Blocks /\ b = r.blocks[1]
  <2>1. Len(r.got) + 1 = 1 /\ 1 \in DOMAIN r.blocks
    BY <1>1
  <2> QED BY <1>1, <2>1 DEF NextBlock
<1>3. /\ DOMAIN q = Fields /\ q.at = r.at /\ q.answer = r.answer
      /\ q.next = r.next /\ q.kind = r.kind /\ q.tag = r.tag /\ q.want = r.want
      /\ q.safe = r.safe /\ q.blocks = r.blocks /\ q.window = r.window /\ q.got = r.got
      /\ q.heard.honest <=> Honest(b, p)
      /\ q.heard.txs <=> p.txs.list # <<>>
      /\ q.heard.receipts <=> p.receipts.list # <<>>
  <2>1. HasHeard(q, r, b, p)
    BY <1>1, HeardFields
  <2> QED BY ONLY <1>1, <2>1 DEF HasHeard
<1>4. Honest(b, p) => ~omitted /\ a.ok
  BY <1>1, <1>2, HonestServed DEF NotThere, Unproved
<1>5. ~omitted /\ a.ok => TrueOf(q, b, a.value)
  BY <1>1, <1>2, <1>3, ServedTrue DEF NotThere, Unproved
<1> HIDE DEF a, omitted
<1>6. /\ Placed(q, al) /\ BlocksSound(q, br, top, cut) /\ q.at = "serve" /\ q.kind # "logs"
  BY <1>3 DEF ReqSound, Placed, BlocksSound
<1>7. CASE ~omitted
  <2>1. a.ok => TrueOf(q, q.blocks[1], a.value)
    BY <1>2, <1>3, <1>5, <1>7
  <2>2. q.heard.honest => a.ok
    BY <1>3, <1>4
  <2>3. s = Reply(q, a)
    BY <1>7 DEF a, omitted
  <2> QED BY ONLY <1>6, <2>1, <2>2, <2>3, AnsweredFromRoots
<1>8. CASE omitted
  <2>1. AnswerSound(q) /\ PassedSound(q, br, top, cut) /\ q.at # "done"
    BY <1>3 DEF AnswerSound, FromRootsOf, PassedSound
  <2>2. HonestSound(q) /\ GotSound(q)
    BY <1>3, <1>4, <1>8 DEF HonestSound, GotSound, ReqSound
  <2>3. ReqSound(q, br, top, cut, al)
    BY <1>6, <2>1, <2>2 DEF ReqSound
  <2>4. CASE ~al
    <3>1. s = Reply(q, Err("method")) /\ ~Err("method").ok
      BY <1>8, <2>4, ErrFacts DEF omitted
    <3> QED BY <1>6, <2>1, <2>3, <3>1, Refused
  <2>5. CASE al
    <3>1. s = [q EXCEPT !.at = "refresh", !.next = "bind"] /\ r.kind = "receipt"
      BY <1>8, <2>5 DEF omitted, Unproved
    <3>2. /\ DOMAIN s = Fields /\ s.at = "refresh" /\ s.answer = q.answer
          /\ s.next = "bind" /\ s.kind = q.kind /\ s.tag = q.tag /\ s.want = q.want
          /\ s.safe = q.safe /\ s.blocks = q.blocks /\ s.window = q.window /\ s.heard = q.heard /\ s.got = q.got
      <4>1. DOMAIN q = Fields
        BY <1>3
      <4> QED BY ONLY <3>1, <4>1 DEF Fields
    <3>3. Placed(s, al)
      BY <1>3, <2>5, <3>1, <3>2 DEF ReqSound, Placed
    <3>4. BlocksSound(s, br, top, cut)
      BY ONLY <1>6, <3>2 DEF BlocksSound
    <3>5. AnswerSound(s) /\ PassedSound(s, br, top, cut)
      BY <3>2 DEF AnswerSound, FromRootsOf, PassedSound
    <3>6. HonestSound(s) /\ GotSound(s)
      <4>1. s.got = <<>> /\ ~s.heard.honest /\ DOMAIN s.got = {} /\ s.got \in Seq(Lists)
        <5>1. s.got = <<>> /\ ~s.heard.honest
          BY <1>1, <1>3, <1>4, <1>8, <3>2
        <5> QED BY ONLY <5>1, NothingGot
      <4> QED BY <3>2, <4>1 DEF HonestSound, GotSound
    <3> QED BY <3>3, <3>4, <3>5, <3>6 DEF ReqSound
  <2> QED BY <2>4, <2>5
<1> QED BY <1>7, <1>8

\* A request for the logs of a range has been served one more block.
LEMMA LogsServed ==
  ASSUME NEW r, NEW br, NEW top, NEW cut, NEW al, ReqSound(r, br, top, cut, al), r.at = "serve", r.kind = "logs",
         NEW b, b = NextBlock(r), NEW p, p.labels \in Labels,
         NEW q, q = [r EXCEPT !.heard = Heard(r, b, p)],
         NEW s, s = ServedLogs(q, b, p)
  PROVE  ReqSound(s, br, top, cut, al)
<1> DEFINE of == ReceiptsOf(b, p)
           list == of.value.list
           more == Append(q.got, [i \in DOMAIN list |-> list[i].of])
<1>1. /\ DOMAIN r = Fields /\ r.kind \in Verified /\ r.next = "resolve" /\ r.blocks \in Seq(Blocks)
      /\ r.got \in Seq(Lists) /\ Len(r.got) < Len(r.blocks)
      /\ \A k \in DOMAIN r.got : r.got[k] = Txs(r.blocks[k])
  BY DEF ReqSound, Placed, BlocksSound, GotSound
<1>2. b \in Blocks /\ b = r.blocks[Len(r.got) + 1]
  <2>1. Len(r.got) + 1 \in DOMAIN r.blocks
    BY <1>1
  <2> QED BY <1>1, <2>1 DEF NextBlock
<1>3. /\ DOMAIN q = Fields /\ q.at = r.at /\ q.answer = r.answer
      /\ q.next = r.next /\ q.kind = r.kind /\ q.tag = r.tag /\ q.want = r.want
      /\ q.safe = r.safe /\ q.blocks = r.blocks /\ q.window = r.window /\ q.got = r.got
      /\ q.heard.honest => Honest(b, p)
  <2>1. HasHeard(q, r, b, p)
    BY <1>1, HeardFields
  <2> QED BY ONLY <2>1 DEF HasHeard
<1>4. Honest(b, p) => of.ok /\ ~of.value.omitted
  BY <1>1, <1>2, HonestServed
<1>5. of.ok /\ ~of.value.omitted => [i \in DOMAIN list |-> list[i].of] = Txs(b)
  BY <1>2, RangeReceipts
<1>6. s = IF ~of.ok THEN Reply(q, of)
          ELSE IF of.value.omitted THEN Reply(q, Err("proof"))
          ELSE IF Len(FlattenSeq(more)) > MAX_LOGS THEN Reply(q, Err("params"))
          ELSE IF Len(more) < Len(q.blocks) THEN [q EXCEPT !.got = more]
          ELSE Reply(q, Ok(FlattenSeq(more)))
  BY DEF ServedLogs
<1>7. Placed(q, al) /\ BlocksSound(q, br, top, cut) /\ q.at = "serve" /\ q.kind = "logs"
  BY <1>3 DEF ReqSound, Placed, BlocksSound
<1> HIDE DEF of, list
<1>8. ASSUME NEW a, s = Reply(q, a), a.ok => a.value = AllLogs(q.blocks),
             q.heard.honest => a.ok \/ a = Err("params")
      PROVE  ReqSound(s, br, top, cut, al)
  BY ONLY <1>7, <1>8, AnsweredFromRoots
<1>9. CASE ~of.ok
  <2>1. s = Reply(q, of) /\ ~q.heard.honest
    BY <1>3, <1>4, <1>6, <1>9
  <2> QED BY <1>8, <1>9, <2>1
<1>10. CASE of.ok /\ of.value.omitted
  <2>1. s = Reply(q, Err("proof")) /\ ~q.heard.honest /\ ~Err("proof").ok
    BY <1>3, <1>4, <1>6, <1>10, ErrFacts
  <2> QED BY <1>8, <2>1
<1>11. CASE of.ok /\ ~of.value.omitted
  <2>1. more = Append(r.got, Txs(r.blocks[Len(r.got) + 1]))
    BY <1>2, <1>3, <1>5, <1>11
  <2> HIDE DEF more
  <2>2. /\ more \in Seq(Lists) /\ Len(more) = Len(r.got) + 1 /\ more # <<>>
        /\ \A k \in DOMAIN more : more[k] = Txs(r.blocks[k])
    <3> DEFINE bs == r.blocks
               got == r.got
    <3>1. /\ bs \in Seq(Blocks) /\ got \in Seq(Lists) /\ Len(got) < Len(bs)
          /\ \A k \in DOMAIN got : got[k] = Txs(bs[k])
          /\ more = Append(got, Txs(bs[Len(got) + 1]))
      BY ONLY <1>1, <2>1
    <3> HIDE DEF bs, got
    <3>2. /\ more \in Seq(Lists) /\ Len(more) = Len(got) + 1 /\ more # <<>>
          /\ \A k \in DOMAIN more : more[k] = Txs(bs[k])
      BY ONLY <3>1, OneMore, ZenonT(60)
    <3> QED BY ONLY <3>2 DEF bs, got
  <2>3. CASE Len(FlattenSeq(more)) > MAX_LOGS
    <3>1. s = Reply(q, Err("params")) /\ ~Err("params").ok
      BY <1>6, <1>11, <2>3, ErrFacts
    <3> QED BY <1>8, <3>1
  <2>4. CASE ~(Len(FlattenSeq(more)) > MAX_LOGS) /\ Len(more) < Len(q.blocks)
    <3>1. s = [q EXCEPT !.got = more]
      BY <1>6, <1>11, <2>4
    <3>2. /\ DOMAIN s = Fields /\ s.at = "serve" /\ s.kind = "logs" /\ s.got = more
          /\ s.next = q.next /\ s.tag = q.tag /\ s.want = q.want /\ s.safe = q.safe
          /\ s.blocks = q.blocks /\ s.window = q.window
      <4>1. DOMAIN q = Fields
        BY <1>3
      <4> QED BY ONLY <1>7, <3>1, <4>1 DEF Fields
    <3>3. Placed(s, al)
      BY ONLY <1>7, <3>2 DEF Placed
    <3>4. BlocksSound(s, br, top, cut)
      BY ONLY <1>7, <3>2 DEF BlocksSound
    <3>5. AnswerSound(s) /\ PassedSound(s, br, top, cut)
      BY ONLY <3>2 DEF AnswerSound, FromRootsOf, PassedSound
    <3>6. HonestSound(s) /\ GotSound(s)
      <4>1. Len(s.got) < Len(s.blocks)
        BY <2>4, <3>2
      <4>2. s.got \in Seq(Lists) /\ s.got # <<>> /\ \A k \in DOMAIN s.got : s.got[k] = Txs(s.blocks[k])
        BY <1>3, <2>2, <3>2
      <4> QED BY ONLY <3>2, <4>1, <4>2 DEF HonestSound, GotSound
    <3> QED BY <3>3, <3>4, <3>5, <3>6 DEF ReqSound
  <2>5. CASE ~(Len(FlattenSeq(more)) > MAX_LOGS) /\ ~(Len(more) < Len(q.blocks))
    <3>1. s = Reply(q, Ok(FlattenSeq(more)))
      BY <1>6, <1>11, <2>5
    <3>2. Len(more) = Len(r.blocks)
      BY <1>1, <1>3, <2>2, <2>5
    <3>3. FlattenSeq(more) = AllLogs(q.blocks)
      BY <1>1, <1>3, <2>2, <3>2, AllOfThem
    <3>4. Ok(FlattenSeq(more)).ok /\ Ok(FlattenSeq(more)).value = FlattenSeq(more)
      BY OkFacts
    <3> QED BY <1>8, <3>1, <3>3, <3>4
  <2> QED BY <2>3, <2>4, <2>5
<1> QED BY <1>9, <1>10, <1>11

\* An object is bound to the chain, or refused.
LEMMA BoundObject ==
  ASSUME NEW c, GoodChain(c), NEW r, NEW top \in Nat, NEW cut, NEW al, ReqSound(r, c.br, top, cut, al), r.at = "bind",
         NEW s, s = Reply(r, IF Binds(r, c) THEN Ok(r.claim) ELSE Err("not_synced"))
  PROVE  ReqSound(s, c.br, top, cut, al)
<1>1. CASE ~Binds(r, c)
  BY <1>1, Refused, ErrFacts
<1>2. CASE Binds(r, c)
  <2> DEFINE a == Ok(r.claim)
  <2>1. DOMAIN r = Fields /\ r.next = "bind" /\ r.safe[1] \in Nat /\ r.safe[1] <= top
    BY DEF ReqSound, Placed, BlocksSound
  <2>2. s = Reply(r, a)
    BY <1>2
  <2>3. a.value = r.claim
    BY OkFacts
  <2> HIDE DEF a
  <2>4. /\ DOMAIN s = Fields /\ s.at = "done" /\ s.answer = a
        /\ s.next = r.next /\ s.kind = r.kind /\ s.tag = r.tag /\ s.want = r.want
        /\ s.safe = r.safe /\ s.blocks = r.blocks /\ s.window = r.window /\ s.heard = r.heard /\ s.got = r.got
    BY <2>1, <2>2, ReplyFields
  <2>5. Placed(s, al)
    BY <2>4 DEF ReqSound, Placed
  <2>6. BlocksSound(s, c.br, top, cut)
    BY <2>4 DEF ReqSound, BlocksSound
  <2>7. AnswerSound(s)
    BY <2>1, <2>4 DEF AnswerSound, FromRootsOf
  <2>8. PassedSound(s, c.br, top, cut)
    <3> SUFFICES ASSUME r.kind # "fee"
                 PROVE  /\ r.claim.tx = r.want
                        /\ r.claim.block # NoBlock => /\ r.claim.hex => r.claim.number = Height(r.claim.block)
                                                      /\ Anchored(r.claim.block, c.br, top, cut)
      BY <2>3, <2>4 DEF PassedSound
    <3>1. r.claim.tx = r.want
      BY <1>2 DEF Binds, SameTx
    <3>2. ASSUME r.claim.block # NoBlock
          PROVE  /\ In(c, r.claim.block) /\ Height(r.claim.block) <= Height(r.safe)
                 /\ r.claim.hex => r.claim.number = Height(r.claim.block)
      BY <1>2, <3>2 DEF Binds, Pending
    <3>3. ASSUME r.claim.block # NoBlock
          PROVE  Anchored(r.claim.block, c.br, top, cut)
      <4> DEFINE x == r.claim.block
      <4>1. Height(x) \in c.lo .. c.hi /\ x = Block(Height(x), c.br) /\ Height(x) <= r.safe[1]
        BY <3>2, <3>3 DEF In, Height
      <4> HIDE DEF x
      <4>2. Height(x) \in 0 .. top
        BY <2>1, <4>1 DEF GoodChain
      <4> QED BY <4>1, <4>2 DEF Anchored, x
    <3> QED BY <3>1, <3>2, <3>3
  <2>9. HonestSound(s) /\ GotSound(s)
    BY <2>4 DEF ReqSound, HonestSound, GotSound
  <2> QED BY <2>5, <2>6, <2>7, <2>8, <2>9 DEF ReqSound
<1> QED BY <1>1, <1>2

\* A sync keeps what a request stands on, unless it cuts the chain below a read head.
LEMMA SyncKeeps ==
  ASSUME NEW r, NEW br, NEW top \in Nat, NEW cut \in BOOLEAN, NEW al, ReqSound(r, br, top, cut, al),
         NEW br2, NEW top2 \in Nat, top <= top2, NEW cut2 \in BOOLEAN,
         cut => cut2, br2 # br /\ Fork < top => cut2
  PROVE  ReqSound(r, br2, top2, cut2, al)
<1>1. \A b : Anchored(b, br, top, cut) => Anchored(b, br2, top2, cut2)
  <2> SUFFICES ASSUME NEW b, Anchored(b, br, top, cut)
               PROVE  Anchored(b, br2, top2, cut2)
    OBVIOUS
  <2> DEFINE h == Height(b)
  <2>1. h \in 0 .. top /\ (~cut => b = Block(h, br))
    BY DEF Anchored
  <2> HIDE DEF h
  <2>2. h \in 0 .. top2
    BY <2>1
  <2>3. ~cut2 => b = Block(h, br2)
    <3>1. ASSUME ~cut2, br2 # br
          PROVE  h <= Fork
      <4>1. ~(Fork < top)
        BY <3>1, Zenon
      <4> QED BY <2>1, <4>1, ConstantTypes
    <3>2. h <= Fork => Block(h, br) = Block(h, br2)
      BY DEF Block
    <3> QED BY <2>1, <3>1, <3>2
  <2> QED BY <2>2, <2>3 DEF Anchored, h
<1>2. BlocksSound(r, br, top, cut) /\ PassedSound(r, br, top, cut)
  BY DEF ReqSound
<1>3. BlocksSound(r, br2, top2, cut2)
  <2>1. r.safe[1] \in Nat /\ r.safe[1] <= top2
    BY <1>2 DEF BlocksSound
  <2>2. \A i \in DOMAIN r.blocks : Anchored(r.blocks[i], br2, top2, cut2)
    BY <1>1, <1>2 DEF BlocksSound
  <2> QED BY <1>2, <2>1, <2>2 DEF BlocksSound
<1>4. PassedSound(r, br2, top2, cut2)
  BY <1>1, <1>2 DEF PassedSound
<1> QED BY <1>3, <1>4 DEF ReqSound

-----------------------------------------------------------------------------
(* The invariant holds. *)

Standing == req = Idle \/ ReqSound(req, chain.br, sealed, broken, allow)

LEMMA IdleIsNot ==
  req = Idle => req.at = "idle"
BY DEF Idle

LEMMA Initially ==
  Init => ReadsInv
<1> SUFFICES ASSUME Init
             PROVE  ReadsInv
  OBVIOUS
<1> DEFINE lo == Max({1, Start - KEEP + 1})
           n == Start - CONFIRMATIONS
<1>1. lo \in 1 .. MaxHeight /\ lo <= n /\ n \in Nat /\ n <= Start
  <2>1. lo \in {1, Start - KEEP + 1} /\ lo >= 1
    <3>1. 1 \in Int /\ Start - KEEP + 1 \in Int
      BY ConstantTypes
    <3> QED BY <3>1, GreatestOfTwo, Zenon
  <2> HIDE DEF lo
  <2> QED BY <2>1, ConstantTypes
<1>2. chain = [br |-> Trunk, lo |-> lo, hi |-> Start] /\ view = [head |-> Start, safe |-> Block(n, Trunk)]
      /\ allow \in BOOLEAN /\ req = Idle /\ proofs = [ok |-> FALSE, fail |-> FALSE] /\ sealed = n /\ broken = FALSE
  BY DEF Init
<1> HIDE DEF lo, n
<1>3. chain.br = Trunk /\ chain.lo = lo /\ chain.hi = Start /\ view.head = Start /\ view.safe = Block(n, Trunk)
  BY <1>2
<1>4. In(chain, view.safe) /\ view.safe[1] <= sealed
  <2>1. Height(view.safe) = n /\ view.safe[1] = n
    BY <1>3, BlockFacts
  <2>2. n \in lo .. Start
    BY <1>1, ConstantTypes
  <2> QED BY <1>1, <1>2, <1>3, <2>1, <2>2 DEF In
<1>5. chain = [br |-> chain.br, lo |-> chain.lo, hi |-> chain.hi]
  BY <1>2, <1>3
<1>6. ChainSound
  <2>1. chain.lo <= chain.hi - CONFIRMATIONS
    BY <1>1, <1>3 DEF n
  <2>2. chain.br \in Branches /\ chain.lo \in 1 .. MaxHeight /\ chain.hi \in Start .. MaxHeight
        /\ view.head \in Nat /\ view.head <= chain.hi /\ sealed \in Nat
    BY <1>1, <1>2, <1>3, ConstantTypes
  <2>3. DOMAIN proofs = {"ok", "fail"} /\ broken \in BOOLEAN /\ allow \in BOOLEAN
    BY <1>2
  <2> QED BY <1>4, <1>5, <2>1, <2>2, <2>3 DEF ChainSound
<1> QED BY <1>2, <1>6 DEF ReadsInv

LEMMA ChainIsGood ==
  ChainSound => GoodChain(chain) /\ sealed \in Nat
BY ConstantTypes DEF ChainSound, GoodChain

\* A step of the request leaves the chain alone.
LEMMA RequestKeepsChain ==
  ASSUME ChainSound, UNCHANGED <<chain, view, allow, sealed, broken>>, DOMAIN proofs' = {"ok", "fail"}
  PROVE  ChainSound'
BY DEF ChainSound

LEMMA ReceiveStep ==
  ASSUME ReadsInv, NEW kind \in Kinds, NEW parses \in BOOLEAN, NEW q \in Asked(kind), Receive(kind, q, parses)
  PROVE  Standing'
<1> DEFINE r == [at |-> "refresh", next |-> "resolve", kind |-> kind, tag |-> q.tag, want |-> q.want,
                 head |-> 0, safe |-> NoBlock, blocks |-> <<>>, window |-> {}, got |-> <<>>,
                 claim |-> NoBlock, heard |-> NotHeard, answer |-> Err("none")]
           x == req'
<1>1. sealed \in Nat /\ UNCHANGED <<chain, allow, sealed, broken>>
  BY DEF ReadsInv, ChainSound, Receive
<1>2. x = IF kind \in Passthrough /\ ~allow THEN Reply(r, Err("method"))
          ELSE IF ~parses /\ kind # "fee" THEN Reply(r, Err("params"))
          ELSE IF kind \in Passthrough \cup {"receipt", "send"} THEN [r EXCEPT !.at = "claim"]
          ELSE r
  BY DEF Receive
<1>3. /\ DOMAIN r = Fields /\ r.at = "refresh" /\ r.next = "resolve" /\ r.kind = kind /\ r.tag = q.tag
      /\ r.safe = NoBlock /\ r.blocks = <<>> /\ r.got = <<>> /\ r.heard = NotHeard
  BY DEF Fields
<1>4. kind = "logs" => q.tag.by = "hash" \/ (q.tag.from \in Nat /\ q.tag.to \in Nat)
  <2> SUFFICES ASSUME kind = "logs"
               PROVE  q.tag.by = "hash" \/ (q.tag.from \in Nat /\ q.tag.to \in Nat)
    OBVIOUS
  <2>1. q.tag \in LogTags
    BY DEF Asked, Exec, Walk
  <2> QED BY <2>1, ConstantTypes DEF LogTags
<1> HIDE DEF r, x
<1>5. /\ DOMAIN x = Fields /\ x.at \in {"claim", "refresh", "done"} /\ x.next = "resolve" /\ x.kind = kind
      /\ x.tag = q.tag /\ x.safe = NoBlock /\ x.blocks = <<>> /\ x.got = <<>> /\ x.heard = NotHeard
      /\ x.at = "claim" => kind \in Passthrough \cup {"receipt", "send"} /\ (kind \in Passthrough => allow)
      /\ x.at = "refresh" => kind \in Verified
  <2>1. CASE kind \in Passthrough /\ ~allow
    <3>1. x = Reply(r, Err("method"))
      BY <1>2, <2>1
    <3> QED BY <1>3, <3>1, ReplyFields
  <2>2. CASE ~(kind \in Passthrough /\ ~allow) /\ ~parses /\ kind # "fee"
    <3>1. x = Reply(r, Err("params"))
      BY <1>2, <2>2
    <3> QED BY <1>3, <3>1, ReplyFields
  <2>3. CASE ~(kind \in Passthrough /\ ~allow) /\ ~(~parses /\ kind # "fee") /\ kind \in Passthrough \cup {"receipt", "send"}
    <3>1. x = [r EXCEPT !.at = "claim"]
      BY <1>2, <2>3
    <3> QED BY <1>3, <2>3, <3>1 DEF Fields
  <2>4. CASE ~(kind \in Passthrough /\ ~allow) /\ ~(~parses /\ kind # "fee") /\ kind \notin Passthrough \cup {"receipt", "send"}
    <3>1. x = r
      BY <1>2, <2>4
    <3>2. kind \in Verified
      BY <2>4 DEF Kinds
    <3> QED BY <1>3, <3>1, <3>2
  <2> QED BY <2>1, <2>2, <2>3, <2>4
<1>6. ReqSound(x, chain.br, sealed, broken, allow)
  BY <1>1, <1>4, <1>5, Fresh
<1> QED BY <1>1, <1>6 DEF Standing, x

LEMMA ClaimStep ==
  ASSUME ReadsInv, NEW c, Claim(c)
  PROVE  Standing'
<1> DEFINE S(s) == ReqSound(s, chain.br, sealed, broken, allow)
           x == req'
<1>1. req.at = "claim" /\ UNCHANGED <<chain, allow, sealed, broken>>
  BY DEF Claim
<1>2. S(req) /\ req.kind \in Passthrough \cup {"receipt", "send"} /\ (req.kind \in Passthrough => allow)
  <2>1. S(req)
    BY <1>1, IdleIsNot DEF ReadsInv
  <2> QED BY <1>1, <2>1 DEF ReqSound, Placed
<1>3. x = CASE req.kind = "receipt"         -> ToldReceipt(req, c)
            [] req.kind \in {"raw", "send"} -> ToldRaw(req, c)
            [] req.kind = "fee"             -> ToldFee(req, c)
            [] OTHER                        -> Told(req, c, "bind")
  BY DEF Claim
<1> HIDE DEF x
<1>4. \A a : S(Reply(req, a))
  BY <1>1, <1>2, AnsweredEarly
<1>5. allow /\ req.kind # "send" => S(Told(req, c, "bind"))
  <2> SUFFICES ASSUME allow, req.kind # "send"
               PROVE  S(Told(req, c, "bind"))
    OBVIOUS
  <2>1. req.kind \in Passthrough \cup {"receipt"}
    BY <1>2
  <2> QED BY <1>1, <1>2, <2>1, ToldSound
<1>6. req.kind = "receipt" => S(Told(req, c, "resolve"))
  BY <1>1, <1>2, ToldSound
<1> HIDE DEF S
<1>7. CASE req.kind = "receipt"
  <2>1. x = ToldReceipt(req, c)
    BY <1>3, <1>7
  <2>2. S(x)
    BY <1>4, <1>5, <1>6, <1>7, <2>1 DEF ToldReceipt
  <2> QED BY <1>1, <2>2 DEF Standing, x, S
<1>8. CASE req.kind \in {"raw", "send"}
  <2>1. x = ToldRaw(req, c)
    BY <1>3, <1>8
  <2>2. S(x)
    BY <1>4, <2>1 DEF ToldRaw
  <2> QED BY <1>1, <2>2 DEF Standing, x, S
<1>9. CASE req.kind = "fee"
  <2>1. x = ToldFee(req, c)
    BY <1>3, <1>9
  <2>2. allow
    BY <1>2, <1>9 DEF Passthrough
  <2>3. S(x)
    BY <1>4, <1>5, <1>9, <2>1, <2>2 DEF ToldFee, FeeShaped
  <2> QED BY <1>1, <2>3 DEF Standing, x, S
<1>10. CASE req.kind = "tx"
  <2>1. x = Told(req, c, "bind") /\ allow
    BY <1>2, <1>3, <1>10 DEF Passthrough
  <2>2. S(x)
    BY <1>5, <1>10, <2>1
  <2> QED BY <1>1, <2>2 DEF Standing, x, S
<1> QED BY <1>2, <1>7, <1>8, <1>9, <1>10 DEF Passthrough

LEMMA NoClaimStep ==
  ASSUME ReadsInv, NEW a, NoClaim(a)
  PROVE  Standing'
<1>1. req.at = "claim" /\ req' = Reply(req, a) /\ UNCHANGED <<chain, allow, sealed, broken>>
  BY DEF NoClaim
<1>2. ReqSound(req, chain.br, sealed, broken, allow)
  BY <1>1, IdleIsNot DEF ReadsInv
<1>3. ReqSound(req', chain.br, sealed, broken, allow)
  BY <1>1, <1>2, AnsweredEarly
<1> QED BY <1>1, <1>3 DEF Standing

LEMMA RefreshStep ==
  ASSUME ReadsInv, Refresh \/ RefreshFails
  PROVE  Standing'
<1>1. req.at = "refresh" /\ UNCHANGED <<chain, allow, sealed, broken>>
  BY DEF Refresh, RefreshFails
<1>2. ReqSound(req, chain.br, sealed, broken, allow)
  BY <1>1, IdleIsNot DEF ReadsInv
<1>3. view.safe[1] \in Nat /\ view.safe[1] <= sealed
  BY DEF ReadsInv, ChainSound, In, Height
<1>4. CASE Refresh
  <2>1. req' = [req EXCEPT !.at = req.next, !.head = view.head, !.safe = view.safe]
    BY <1>4 DEF Refresh
  <2>2. ReqSound(req', chain.br, sealed, broken, allow)
    BY <1>1, <1>2, <1>3, <2>1, RefreshedSound
  <2> QED BY <1>1, <2>2 DEF Standing
<1>5. CASE RefreshFails
  <2>1. req' = Reply(req, Err("not_synced")) /\ ~Err("not_synced").ok
    BY <1>5, ErrFacts DEF RefreshFails
  <2>2. ReqSound(req', chain.br, sealed, broken, allow)
    BY <1>1, <1>2, <2>1, Refused
  <2> QED BY <1>1, <2>2 DEF Standing
<1> QED BY <1>4, <1>5

LEMMA ResolveStep ==
  ASSUME ReadsInv, Resolve
  PROVE  Standing'
<1> DEFINE found == Resolved(req, chain)
           v == found.value
           w == IF req.kind = "call" THEN Window(chain, v[1]) ELSE {}
<1>1. req.at = "resolve" /\ UNCHANGED <<chain, allow, sealed, broken>>
  BY DEF Resolve
<1>2. ReqSound(req, chain.br, sealed, broken, allow) /\ GoodChain(chain) /\ sealed \in Nat
  BY <1>1, IdleIsNot, ChainIsGood DEF ReadsInv
<1>3. req' = IF ~found.ok THEN Reply(req, found) ELSE [req EXCEPT !.at = "serve", !.blocks = v, !.window = w]
  BY DEF Resolve
<1>4. CASE ~found.ok
  <2>1. ReqSound(req', chain.br, sealed, broken, allow)
    <3> HIDE DEF found
    <3> QED BY <1>1, <1>2, <1>3, <1>4, Refused
  <2> QED BY <1>1, <2>1 DEF Standing
<1>5. CASE found.ok
  <2>1. req' = [req EXCEPT !.at = "serve", !.blocks = v, !.window = w]
    BY <1>3, <1>5
  <2>2. ReqSound(req', chain.br, sealed, broken, allow)
    BY <1>1, <1>2, <1>5, <2>1, FoundSound
  <2> QED BY <1>1, <2>2 DEF Standing
<1> QED BY <1>4, <1>5

LEMMA ServeStep ==
  ASSUME ReadsInv, NEW p \in Replies(req.kind, NextBlock(req)), Serve(p)
  PROVE  Standing' /\ DOMAIN proofs' = {"ok", "fail"}
<1> DEFINE b == NextBlock(req)
           q == [req EXCEPT !.heard = Heard(req, b, p)]
           s == req'
           br == chain.br
           l == req
<1>1. /\ req.at = "serve" /\ UNCHANGED <<chain, allow, sealed, broken>> /\ proofs' = Counted(req, b, p)
      /\ s = IF l.kind = "logs" THEN ServedLogs(q, b, p)
             ELSE IF ~Unproved(l, b, p) THEN Reply(q, ServedBlock(l, b, p))
             ELSE IF ~allow THEN Reply(q, Err("method"))
             ELSE [q EXCEPT !.at = "refresh", !.next = "bind"]
  BY DEF Serve
<1>2. ReqSound(l, br, sealed, broken, allow)
  BY <1>1, IdleIsNot DEF ReadsInv
<1>3. p.labels \in Labels
  BY DEF Replies, Labels
<1>4. ReqSound(s, br, sealed, broken, allow)
  <2>1. /\ ReqSound(l, br, sealed, broken, allow) /\ l.at = "serve" /\ b = NextBlock(l) /\ p.labels \in Labels
        /\ q = [l EXCEPT !.heard = Heard(l, b, p)]
    BY <1>1, <1>2, <1>3
  <2> HIDE DEF s, br, l, q, b
  <2>2. CASE l.kind = "logs"
    <3>1. s = ServedLogs(q, b, p)
      BY <1>1, <2>2
    <3> QED BY ONLY <2>1, <2>2, <3>1, LogsServed
  <2>3. CASE l.kind # "logs"
    <3>1. s = IF ~Unproved(l, b, p) THEN Reply(q, ServedBlock(l, b, p))
              ELSE IF ~allow THEN Reply(q, Err("method"))
              ELSE [q EXCEPT !.at = "refresh", !.next = "bind"]
      BY <1>1, <2>3
    <3> QED BY ONLY <2>1, <2>3, <3>1, ServedSound
  <2> QED BY <2>2, <2>3
<1>5. DOMAIN proofs' = {"ok", "fail"}
  BY <1>1 DEF Counted, ReadsInv, ChainSound
<1> QED BY <1>1, <1>4, <1>5 DEF Standing

LEMMA BindStep ==
  ASSUME ReadsInv, Bind
  PROVE  Standing'
<1>1. /\ req.at = "bind" /\ UNCHANGED <<chain, allow, sealed, broken>>
      /\ req' = Reply(req, IF Binds(req, chain) THEN Ok(req.claim) ELSE Err("not_synced"))
  BY DEF Bind
<1>2. ReqSound(req, chain.br, sealed, broken, allow) /\ GoodChain(chain) /\ sealed \in Nat
  BY <1>1, IdleIsNot, ChainIsGood DEF ReadsInv
<1>3. ReqSound(req', chain.br, sealed, broken, allow)
  BY <1>1, <1>2, BoundObject
<1> QED BY <1>1, <1>3 DEF Standing

\* A sync publishes a read head of the chain it has built.
LEMMA SyncStep ==
  ASSUME ReadsInv, NEW hi \in chain.hi .. MaxHeight, NEW br \in Branches,
         NEW safe \in {hi - CONFIRMATIONS, hi - 1}, Sync(hi, br, safe)
  PROVE  ReadsInv'
<1> DEFINE lo == Max({chain.lo, hi - KEEP + 1})
           top == Max({sealed, safe})
<1>1. /\ chain.lo \in 1 .. MaxHeight /\ chain.hi \in Start .. MaxHeight /\ chain.lo <= chain.hi - CONFIRMATIONS
      /\ sealed \in Nat /\ broken \in BOOLEAN /\ allow \in BOOLEAN /\ DOMAIN proofs = {"ok", "fail"}
  BY DEF ReadsInv, ChainSound
<1>2. hi \in Start .. MaxHeight /\ hi \in Nat /\ hi >= chain.hi /\ safe \in Nat /\ safe <= hi /\ safe >= hi - CONFIRMATIONS
  BY <1>1, ConstantTypes
<1>3. lo \in 1 .. MaxHeight /\ lo <= hi - CONFIRMATIONS
  <2>1. chain.lo \in Int /\ hi - KEEP + 1 \in Int
    BY <1>1, <1>2, ConstantTypes
  <2>2. lo \in {chain.lo, hi - KEEP + 1} /\ lo >= chain.lo
    BY <2>1, GreatestOfTwo, Zenon
  <2> HIDE DEF lo
  <2>3. CASE lo = chain.lo
    <3> QED BY ONLY <1>1, <1>2, <2>3, ConstantTypes
  <2>4. CASE lo = hi - KEEP + 1
    <3>1. lo >= chain.lo /\ chain.lo \in Nat /\ chain.lo >= 1
      BY <1>1, <2>2
    <3>2. hi \in Nat /\ hi <= MaxHeight
      BY <1>2, ConstantTypes
    <3> QED BY ONLY <2>4, <3>1, <3>2, ConstantTypes
  <2> QED BY <2>2, <2>3, <2>4
<1>4. top \in Nat /\ sealed <= top /\ safe <= top
  <2>1. sealed \in Int /\ safe \in Int
    BY <1>1, <1>2
  <2>2. top \in {sealed, safe} /\ top >= sealed /\ top >= safe
    BY <2>1, GreatestOfTwo, Zenon
  <2> HIDE DEF top
  <2> QED BY <1>1, <1>2, <2>2
<1>5. /\ chain' = [br |-> br, lo |-> lo, hi |-> hi] /\ view' = [head |-> hi, safe |-> Block(safe, br)]
      /\ sealed' = top /\ broken' = (broken \/ (br # chain.br /\ Fork < sealed))
      /\ UNCHANGED <<allow, req, proofs>>
  BY DEF Sync
<1> HIDE DEF lo, top
<1>6. chain'.br = br /\ chain'.lo = lo /\ chain'.hi = hi /\ view'.head = hi /\ view'.safe = Block(safe, br)
  BY <1>5
<1>7. broken' \in BOOLEAN
  BY <1>5, Zenon
<1>8. ChainSound'
  <2>1. In(chain', view'.safe) /\ view'.safe[1] <= sealed'
    <3>1. Height(view'.safe) = safe /\ view'.safe[1] = safe
      BY <1>6, BlockFacts
    <3>2. safe \in lo .. hi
      BY <1>2, <1>3, ConstantTypes
    <3> QED BY <1>4, <1>5, <1>6, <3>1, <3>2 DEF In
  <2>2. chain' = [br |-> chain'.br, lo |-> chain'.lo, hi |-> chain'.hi]
    BY <1>5, <1>6
  <2>3. chain'.br \in Branches /\ chain'.lo \in 1 .. MaxHeight /\ chain'.hi \in Start .. MaxHeight
        /\ chain'.lo <= chain'.hi - CONFIRMATIONS /\ view'.head \in Nat /\ view'.head <= chain'.hi
    BY <1>2, <1>3, <1>6
  <2>4. sealed' \in Nat /\ allow' \in BOOLEAN /\ DOMAIN proofs' = {"ok", "fail"}
    BY <1>1, <1>4, <1>5
  <2> QED BY <1>7, <2>1, <2>2, <2>3, <2>4 DEF ChainSound
<1>9. Standing'
  <2>1. CASE req = Idle
    BY <1>5, <2>1 DEF Standing
  <2>2. CASE ReqSound(req, chain.br, sealed, broken, allow)
    <3>1. ReqSound(req, br, sealed', broken', allow)
      <4>1. sealed \in Nat /\ broken \in BOOLEAN /\ sealed' \in Nat /\ sealed <= sealed'
        BY <1>1, <1>4, <1>5
      <4> DEFINE top2 == sealed'
                 cut2 == broken'
      <4>2. (broken => cut2) /\ (br # chain.br /\ Fork < sealed => cut2)
        BY <1>5, Zenon
      <4>3. top2 \in Nat /\ sealed <= top2 /\ cut2 \in BOOLEAN
        BY <1>7, <4>1
      <4> HIDE DEF top2, cut2
      <4>4. ReqSound(req, br, top2, cut2, allow)
        BY <2>2, <4>1, <4>2, <4>3, SyncKeeps
      <4> QED BY <4>4 DEF top2, cut2
    <3> QED BY <1>5, <1>6, <3>1 DEF Standing
  <2> QED BY <2>1, <2>2 DEF ReadsInv
<1> QED BY <1>8, <1>9 DEF ReadsInv, Standing

LEMMA SyncStopsStep ==
  ASSUME ReadsInv, NEW hi \in chain.hi + 1 .. MaxHeight, SyncStops(hi)
  PROVE  ReadsInv'
<1>1. /\ chain = [br |-> chain.br, lo |-> chain.lo, hi |-> chain.hi]
      /\ chain.br \in Branches /\ chain.lo \in 1 .. MaxHeight /\ chain.hi \in Start .. MaxHeight
      /\ chain.lo <= chain.hi - CONFIRMATIONS /\ view.head \in Nat /\ view.head <= chain.hi /\ In(chain, view.safe)
  BY DEF ReadsInv, ChainSound
<1>2. /\ chain' = [chain EXCEPT !.hi = hi]
      /\ UNCHANGED <<view, allow, req, proofs, sealed, broken>>
  BY DEF SyncStops
<1>3. /\ chain'.br = chain.br /\ chain'.lo = chain.lo /\ chain'.hi = hi
      /\ chain' = [br |-> chain'.br, lo |-> chain'.lo, hi |-> chain'.hi]
  BY <1>1, <1>2
<1>4. hi \in Start .. MaxHeight /\ chain.hi < hi
  BY <1>1, ConstantTypes
<1>5. In(chain', view'.safe)
  BY <1>1, <1>2, <1>3, <1>4 DEF In
<1>6. chain'.lo <= chain'.hi - CONFIRMATIONS /\ view'.head <= chain'.hi
  BY <1>1, <1>2, <1>3, <1>4, ConstantTypes
<1>7. ChainSound'
  BY <1>1, <1>2, <1>3, <1>4, <1>5, <1>6 DEF ReadsInv, ChainSound
<1> QED BY <1>2, <1>3, <1>7 DEF ReadsInv

LEMMA Step ==
  ReadsInv /\ [Next]_vars => ReadsInv'
<1> SUFFICES ASSUME ReadsInv, [Next]_vars
             PROVE  ReadsInv'
  OBVIOUS
<1>1. ASSUME Standing', UNCHANGED <<chain, view, allow, sealed, broken>>, DOMAIN proofs' = {"ok", "fail"}
      PROVE  ReadsInv'
  BY <1>1, RequestKeepsChain DEF ReadsInv, Standing
<1>2. DOMAIN proofs = {"ok", "fail"}
  BY DEF ReadsInv, ChainSound
<1>3. CASE \E kind \in Kinds, parses \in BOOLEAN : \E q \in Asked(kind) : Receive(kind, q, parses)
  <2>1. PICK kind \in Kinds, parses \in BOOLEAN : \E q \in Asked(kind) : Receive(kind, q, parses)
    BY <1>3
  <2>2. PICK q \in Asked(kind) : Receive(kind, q, parses)
    BY <2>1
  <2>3. UNCHANGED <<chain, view, allow, proofs, sealed, broken>>
    BY <2>2 DEF Receive
  <2> QED BY <1>1, <1>2, <2>2, <2>3, ReceiveStep
<1>4. CASE \E c \in Claims : Claim(c)
  <2>1. PICK c \in Claims : Claim(c)
    BY <1>4
  <2>2. UNCHANGED <<chain, view, allow, proofs, sealed, broken>>
    BY <2>1 DEF Claim
  <2> QED BY <1>1, <1>2, <2>1, <2>2, ClaimStep
<1>5. CASE \E a \in {Ok(Nil), Err("upstream")} : NoClaim(a)
  <2>1. PICK a \in {Ok(Nil), Err("upstream")} : NoClaim(a)
    BY <1>5
  <2>2. UNCHANGED <<chain, view, allow, proofs, sealed, broken>>
    BY <2>1 DEF NoClaim
  <2> QED BY <1>1, <1>2, <2>1, <2>2, NoClaimStep
<1>6. CASE Refresh \/ RefreshFails
  <2>1. UNCHANGED <<chain, view, allow, proofs, sealed, broken>>
    BY <1>6 DEF Refresh, RefreshFails
  <2> QED BY <1>1, <1>2, <1>6, <2>1, RefreshStep
<1>7. CASE Resolve
  <2>1. UNCHANGED <<chain, view, allow, proofs, sealed, broken>>
    BY <1>7 DEF Resolve
  <2> QED BY <1>1, <1>2, <1>7, <2>1, ResolveStep
<1>8. CASE \E p \in Replies(req.kind, NextBlock(req)) : Serve(p)
  <2>1. PICK p \in Replies(req.kind, NextBlock(req)) : Serve(p)
    BY <1>8
  <2>2. UNCHANGED <<chain, view, allow, sealed, broken>>
    BY <2>1 DEF Serve
  <2> QED BY <1>1, <2>1, <2>2, ServeStep
<1>9. CASE Bind
  <2>1. UNCHANGED <<chain, view, allow, proofs, sealed, broken>>
    BY <1>9 DEF Bind
  <2> QED BY <1>1, <1>2, <1>9, <2>1, BindStep
<1>10. CASE \E hi \in chain.hi + 1 .. MaxHeight : SyncStops(hi)
  BY <1>10, SyncStopsStep
<1>11. CASE \E hi \in chain.hi .. MaxHeight, br \in Branches : \E safe \in {hi - CONFIRMATIONS, hi - 1} : Sync(hi, br, safe)
  BY <1>11, SyncStep
<1>12. CASE UNCHANGED vars
  BY <1>12 DEF vars, ReadsInv, ChainSound
<1> QED BY <1>3, <1>4, <1>5, <1>6, <1>7, <1>8, <1>9, <1>10, <1>11, <1>12 DEF Next

LEMMA ReadsInvHolds == Spec => []ReadsInv
BY Initially, Step, PTL DEF Spec

-----------------------------------------------------------------------------
(* The theorems. *)

\* Whatever was answered from the sealed roots stays on the node's chain, however stale the
\* view the request was given, as long as no read head is reverted (refresh, the wallet_*
\* lookups of blocks.rs, resolve_get_logs_blocks): a block is looked up below a read head that
\* was published, and a rebuild that keeps every such head keeps the block.
THEOREM AnswersStandFast == Spec => []NeverReverted
<1>1. ReadsInv => NeverReverted
  <2> SUFFICES ASSUME ReadsInv, FromRoots, ~broken
               PROVE  \A b \in Range(req.blocks) : b = Block(Height(b), chain.br)
    BY DEF NeverReverted
  <2>1. ReqSound(req, chain.br, sealed, broken, allow)
    BY IdleIsNot DEF ReadsInv, FromRoots, Done
  <2>2. \A i \in DOMAIN req.blocks : req.blocks[i] = Block(Height(req.blocks[i]), chain.br)
    BY <2>1 DEF ReqSound, BlocksSound, Anchored
  <2> QED BY <2>2 DEF Range
<1> QED BY <1>1, ReadsInvHolds, PTL

\* A call runs on the hashes of its own block's ancestors and a range of logs is one stretch of
\* one branch, although the chain may be replaced between the steps of the request
\* (historical_hashes_at_safe, resolve_get_logs_blocks).
THEOREM AnswersOfOneBranch == Spec => []OneChain
<1>1. ReadsInv => OneChain
  <2> SUFFICES ASSUME ReadsInv, FromRoots
               PROVE  OneChain
    BY DEF OneChain
  <2>1. ReqSound(req, chain.br, sealed, broken, allow)
    BY IdleIsNot DEF ReadsInv, FromRoots, Done
  <2>2. ASSUME req.kind = "call"
        PROVE  req.answer.value.hashes \subseteq {Block(n, req.blocks[1][2]) : n \in 1 .. Height(req.blocks[1])}
    <3>1. req.answer.value.hashes = req.window
      BY <2>1, <2>2 DEF ReqSound, AnswerSound, FromRootsOf, FromRoots, Done, TrueOf
    <3>2. req.window \subseteq Ancestors(req.blocks[1])
      BY <2>1, <2>2 DEF ReqSound, BlocksSound, FromRoots
    <3> QED BY <3>1, <3>2 DEF Ancestors
  <2>3. ASSUME req.kind = "logs"
        PROVE  OneStretch(req.blocks)
    BY <2>1, <2>3 DEF ReqSound, BlocksSound, FromRoots
  <2> QED BY <2>2, <2>3 DEF OneChain, OneStretch
<1> QED BY <1>1, ReadsInvHolds, PTL

\* What is passed on without a proof is passed on only where the node allows it, is about the
\* transaction that was asked for, and names the hash, and the number if that is a string, of
\* a block of the node's chain, which stays there (bind_mined_object, bind_result_tx_hash, allow_unverified_passthrough).
THEOREM PassedOnIsBound == Spec => []PassedIsBound
<1>1. ReadsInv => PassedIsBound
  <2> SUFFICES ASSUME ReadsInv, Done, req.next = "bind"
               PROVE  PassedIsBound
    BY DEF PassedIsBound
  <2>1. ReqSound(req, chain.br, sealed, broken, allow)
    BY IdleIsNot DEF ReadsInv, Done
  <2>2. allow
    BY <2>1 DEF ReqSound, Placed
  <2>3. ASSUME req.kind # "fee"
        PROVE  /\ req.answer.value.tx = req.want
               /\ req.answer.value.block # NoBlock /\ ~broken =>
                    /\ req.answer.value.block = Block(Height(req.answer.value.block), chain.br)
                    /\ req.answer.value.hex => req.answer.value.block = Block(req.answer.value.number, chain.br)
    BY <2>1, <2>3 DEF ReqSound, PassedSound, Done, Anchored
  <2> QED BY <2>2, <2>3 DEF PassedIsBound
<1> QED BY <1>1, ReadsInvHolds, PTL

\* A provider that serves what is true of the block is never refused, whatever the method, but
\* for a query that matches more logs than the node hands out (the handlers of state.rs,
\* blocks.rs, receipts.rs, calls.rs and logs.rs).
THEOREM TrueProviderIsServed == Spec => []HonestIsServed
<1>1. ReadsInv => HonestIsServed
  <2> SUFFICES ASSUME ReadsInv, req.at = "done"
               PROVE  HonestIsServed
    BY DEF HonestIsServed
  <2>1. ReqSound(req, chain.br, sealed, broken, allow)
    BY IdleIsNot DEF ReadsInv
  <2> QED BY <2>1 DEF ReqSound, HonestSound, HonestIsServed
<1> QED BY <1>1, ReadsInvHolds, PTL

\* What is answered from the sealed roots is true of the request's blocks, every log of a range
\* included, and a receipt is labelled with its own transaction when the envelopes were
\* served, whatever the provider replies (the handlers of state.rs, blocks.rs, receipts.rs,
\* calls.rs and logs.rs, bind_tx_hashes, bind_receipts).
THEOREM AnswersAreTrue == Spec => []Truthful
<1>1. ReadsInv => TypeOK
  <2> SUFFICES ASSUME ReadsInv
               PROVE  TypeOK
    OBVIOUS
  <2>1. /\ chain.br \in Branches /\ chain.lo \in 1 .. chain.hi /\ chain.hi \in 1 .. MaxHeight
        /\ view.head <= chain.hi /\ In(chain, view.safe) /\ DOMAIN proofs = {"ok", "fail"} /\ broken \in BOOLEAN
    BY ConstantTypes DEF ReadsInv, ChainSound
  <2>2. CASE req = Idle
    <3>1. req.at = "idle"
      BY <2>2, IdleIsNot
    <3> QED BY <2>1, <3>1 DEF TypeOK
  <2>3. CASE ReqSound(req, chain.br, sealed, broken, allow)
    <3>1. req.at \in {"claim", "refresh", "resolve", "serve", "bind", "done"}
      BY <2>3 DEF ReqSound, Placed
    <3>2. req.at = "serve" => Len(req.got) < Len(req.blocks) /\ Range(req.blocks) \subseteq Blocks
      BY <2>3 DEF ReqSound, BlocksSound, GotSound, Range
    <3> QED BY <2>1, <3>1, <3>2 DEF TypeOK
  <2> QED BY <2>2, <2>3 DEF ReadsInv
<1>2. ASSUME ReadsInv, FromRoots
      PROVE  /\ TrueOf(req, req.blocks[1], req.answer.value)
             /\ req.kind = "logs" => req.answer.value = AllLogs(req.blocks)
  <2>1. ReqSound(req, chain.br, sealed, broken, allow)
    BY <1>2, IdleIsNot DEF ReadsInv, FromRoots, Done
  <2> QED BY <1>2, <2>1 DEF ReqSound, AnswerSound, FromRootsOf, FromRoots, Done
<1>3. ReadsInv => LabelsTrue
  BY <1>2 DEF LabelsTrue, TrueOf
<1>4. ReadsInv => AnswersTrue
  <2> SUFFICES ASSUME ReadsInv, FromRoots
               PROVE  AnswersTrue
    BY DEF AnswersTrue
  <2> DEFINE b == req.blocks[1]
             v == req.answer.value
  <2>1. TrueOf(req, b, v) /\ (req.kind = "logs" => v = AllLogs(req.blocks))
    BY <1>2
  <2>2. req.kind \in Verified
    BY DEF FromRoots
  <2> QED BY <2>1, <2>2 DEF AnswersTrue, TrueOf
<1>5. ReadsInv => Truthful
  BY <1>1, <1>3, <1>4 DEF Truthful
<1> QED BY <1>5, ReadsInvHolds, PTL
=============================================================================
