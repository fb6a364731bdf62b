------------------------------ MODULE Upstream ------------------------------
(***************************************************************************)
(* The untrusted data plane (bin/helios-bsc/src/upstream.rs): the HTTP     *)
(* client that asks one provider, with its retries, its batches and its    *)
(* slower ways of asking, and the failover from a primary to a backup.     *)
(*                                                                         *)
(* One request of the node is followed from the call to its result.  It is *)
(* a series of groups of posts: the posts of a group are in flight at once *)
(* and end in any order (the threads of headers_range_parallel), the next  *)
(* group starts when they have all been joined.                            *)
(*                                                                         *)
(* Abstractions.  A header is its height and the provider that served it,  *)
(* a transaction is its hash.  A provider fails in any way, but what it    *)
(* says of headers is true: lies about them are for the seal checks.       *)
(*                                                                         *)
(* Each operator named X_Something is a plausible mistake in X: no         *)
(* definition uses it, and X replaced by it must break a property.         *)
(***************************************************************************)
EXTENDS Integers, Sequences, SequencesExt, FiniteSetsExt

CONSTANTS
  Synced,              \* the height the node has verified
  MaxTip,            \* bound: the highest block of a provider
  TxCount,           \* number of transactions of the block asked for
  HEADER_BATCH, PARALLEL, RAW_TX_BATCH, ATTEMPTS

ASSUME UpstreamConstants ==
  /\ {Synced, MaxTip, TxCount, HEADER_BATCH, PARALLEL, RAW_TX_BATCH, ATTEMPTS} \subseteq Nat \ {0}
  /\ Synced < MaxTip

Providers == {"primary", "backup"}

VARIABLES
  backup,   \* is a backup configured?
  health,   \* how a provider behaves: "good", "nobatch" (refuses batches) or "flaky"
  tips,     \* the highest block of each provider
  req       \* the request and how far it has got, with the tips when it was made (for a property)

vars == <<backup, health, tips, req>>

Idle == [at |-> "idle"]

Null == <<>>

Fail == [st |-> "fail", vals |-> <<>>]

Got(vals) == [st |-> "ok", vals |-> vals]

Waiting == [st |-> "wait", vals |-> <<>>]

Hashes == [i \in 1 .. TxCount |-> <<i>>]

-----------------------------------------------------------------------------
(* What a reply is worth. *)

\* The values of items in the order of their ids.
ById(items) ==
  LET Before(i) == {j \in DOMAIN items : items[j].id < items[i].id \/ (items[j].id = items[i].id /\ j < i)}
  IN  [k \in DOMAIN items |-> items[CHOOSE i \in DOMAIN items : Cardinality(Before(i)) = k - 1].val]

HeadersFromBatch_Repeats(items, from, to) ==
  IF \/ Len(items) # to - from + 1
     \/ \E i \in DOMAIN items : items[i].err \/ items[i].id \notin from .. to \/ items[i].val = Null
  THEN Fail ELSE Got(ById(items))

\* A batch answers exactly the heights it was asked for, in whatever order.
HeadersFromBatch(items, from, to) ==
  IF \/ Len(items) # to - from + 1
     \/ \E i \in DOMAIN items : items[i].err \/ items[i].id \notin from .. to \/ items[i].val = Null
     \/ \E i, j \in DOMAIN items : i # j /\ items[i].id = items[j].id
  THEN Fail ELSE Got(ById(items))

\* keccak256(raw) is the hash that was asked for.
CheckRawTx(raw, want) == raw = want

RawsFromBatch_Unchecked(items, hashes) ==
  IF \/ Len(items) # Len(hashes)
     \/ \E i \in DOMAIN items : items[i].id \notin 0 .. Len(hashes) - 1 \/ items[i].err \/ items[i].val = Null
     \/ \E i, j \in DOMAIN items : i # j /\ items[i].id = items[j].id
  THEN Fail ELSE Got(ById(items))

\* Each hash has one answer, in the slot of its id, and the answer is its preimage.
RawsFromBatch(items, hashes) ==
  IF \/ Len(items) # Len(hashes)
     \/ \E i \in DOMAIN items : items[i].id \notin 0 .. Len(hashes) - 1 \/ items[i].err \/ items[i].val = Null
     \/ \E i, j \in DOMAIN items : i # j /\ items[i].id = items[j].id
     \/ \E i \in DOMAIN hashes : ~CheckRawTx(ById(items)[i], hashes[i])
  THEN Fail ELSE Got(ById(items))

\* The result of a single call.  Receipts that are null count as none, and a null proof is
\* handed on: both are answers, and no other provider is asked.
FromCall(mode, key, val) ==
  CASE mode \in {"number", "send", "single"} -> IF val = Null THEN Fail ELSE Got(<<val>>)
    [] mode = "hashes"                       -> IF val = Null THEN Fail ELSE Got(Hashes)
    [] mode = "one_by_one"                   -> IF val = Null \/ ~CheckRawTx(val, key) THEN Fail ELSE Got(<<val>>)
    [] mode = "receipts"                     -> Got(IF val = Null THEN <<>> ELSE Hashes)
    [] OTHER                                 -> Got(<<val>>)

-----------------------------------------------------------------------------
(* What a provider may reply. *)

Lost == [how |-> "lost", items |-> <<>>]                 \* no HTTP answer within the time limit

Bad == [how |-> "bad", items |-> <<>>]                   \* an RPC error, no JSON, more than MAX_UPSTREAM_RESPONSE_BYTES: not posted again

Unsupported == [how |-> "unsupported", items |-> <<>>]   \* the RPC error "not supported"

Reply(items) == [how |-> "json", items |-> items]

Batches == {"parallel", "serial", "batched"}

\* What p has for a key.
Serve(p, mode, key) ==
  CASE mode = "number"                            -> <<tips[p], p>>
    [] mode \in {"parallel", "serial", "single"}  -> IF key <= tips[p] THEN <<key, p>> ELSE Null
    [] mode \in {"batched", "one_by_one"}         -> key
    [] OTHER                                      -> <<0, p>>

Item(id, val) == [id |-> id, err |-> FALSE, val |-> val]

Orders(s) == {[i \in DOMAIN s |-> s[perm[i]]] : perm \in {f \in [DOMAIN s -> DOMAIN s] : IsInjective(f)}}

\* The ways a batch goes wrong: an answer short, one answered twice, one with an error, one for
\* another request, and, where it is checked, two answers exchanged.
Damaged(items, mode) ==
  LET n == Len(items) IN
    {Front(items), [items EXCEPT ![1] = items[n]], [items EXCEPT ![n].err = TRUE],
     [items EXCEPT ![1].id = MaxTip + 1], [items EXCEPT ![n].val = Null]}
      \cup IF mode # "batched" THEN {}
           ELSE {[i \in 1 .. n |-> Item(items[i].id, items[n + 1 - i].val)]}

BatchReplies(p, mode, keys) ==
  LET items == [i \in DOMAIN keys |->
                  Item(IF mode = "batched" THEN i - 1 ELSE keys[i], Serve(p, mode, keys[i]))]
      good  == {Reply(s) : s \in Orders(items)}
  IN  CASE health[p] = "good"    -> good
        [] health[p] = "nobatch" -> {Bad}
        [] OTHER                 -> good \cup {Lost, Bad} \cup {Reply(s) : s \in Damaged(items, mode)}

CallReplies(p, mode, key) ==
  LET good == {Reply(<<Item(1, Serve(p, mode, key))>>)}
  IN  IF mode = "hash" THEN good \cup {Unsupported}
      ELSE IF health[p] # "flaky" THEN good
      ELSE good \cup {Lost, Bad, Unsupported, Reply(<<Item(1, Null)>>)}

-----------------------------------------------------------------------------
(* The posts of a way of asking. *)

Chunks(s, size) ==
  [k \in 1 .. (Len(s) + size - 1) \div size |-> SubSeq(s, (k - 1) * size + 1, Min({k * size, Len(s)}))]

HeaderChunks(from, to) == Chunks([i \in 1 .. to - from + 1 |-> from + i - 1], HEADER_BATCH)

\* Groups of posts; a post is the sequence of keys it asks for.
Groups(mode, from, to) ==
  CASE mode = "parallel"   -> Chunks(HeaderChunks(from, to), PARALLEL)
    [] mode = "serial"     -> [k \in DOMAIN HeaderChunks(from, to) |-> <<HeaderChunks(from, to)[k]>>]
    [] mode = "single"     -> [i \in 1 .. to - from + 1 |-> <<<<from + i - 1>>>>]
    [] mode = "batched"    -> [k \in DOMAIN Chunks(Hashes, RAW_TX_BATCH) |-> <<Chunks(Hashes, RAW_TX_BATCH)[k]>>]
    [] mode = "one_by_one" -> [i \in DOMAIN Hashes |-> <<<<Hashes[i]>>>>]
    [] OTHER               -> <<<<<<0>>>>>>

Posts(group) == [i \in DOMAIN group |-> [keys |-> group[i], tries |-> 1, res |-> Waiting]]

\* r goes over to asking p in this mode, from the beginning.
Begin(r, p, mode) ==
  LET groups == Groups(mode, r.from, r.to)
  IN  [r EXCEPT !.prov = p, !.mode = mode, !.groups = groups, !.posts = Posts(groups[1]), !.out = <<>>]

Answer(r, res) == [r EXCEPT !.at = "done", !.groups = <<>>, !.posts = <<>>, !.out = <<>>, !.answer = res]

FirstMode(r) == IF r.mode \in {"parallel", "serial", "single"} THEN "parallel"
                ELSE IF r.mode \in {"hashes", "batched", "one_by_one"} THEN "hashes" ELSE r.mode

Slower == [parallel |-> "serial", serial |-> "single", batched |-> "one_by_one"]

Failed_NoBackup(r) ==
  IF r.mode \in DOMAIN Slower THEN Begin(r, r.prov, Slower[r.mode])
  ELSE IF r.mode = "by_number" THEN Begin(r, "primary", IF r.unsupported THEN "retry" ELSE "hash")
  ELSE IF r.mode = "hash" THEN Begin(r, "primary", "retry")
  ELSE Answer(r, Fail)

Failed_InPlace(r) ==
  IF r.mode \in DOMAIN Slower THEN Begin(r, r.prov, Slower[r.mode])
  ELSE IF r.prov = "primary" /\ backup THEN [r EXCEPT !.prov = "backup", !.posts = Posts(r.groups[1])]
  ELSE Answer(r, Fail)

Failed_Again(r) ==
  IF r.mode \in DOMAIN Slower THEN Begin(r, r.prov, Slower[r.mode])
  ELSE IF r.prov = "primary" /\ backup THEN Begin(r, "backup", FirstMode(r))
  ELSE IF r.kind = "proof" THEN Begin(r, "primary", IF r.mode = "by_number" /\ ~r.unsupported THEN "hash" ELSE "retry")
  ELSE Answer(r, Fail)

\* The way of asking that r was on has failed: a slower way, then the backup from its fastest
\* way; a proof by number is asked once more by hash, unless that is known not to be
\* supported, and once more by number.
Failed(r) ==
  IF r.mode \in DOMAIN Slower THEN Begin(r, r.prov, Slower[r.mode])
  ELSE IF r.prov = "primary" /\ backup THEN Begin(r, "backup", FirstMode(r))
  ELSE IF r.mode = "by_number" THEN Begin(r, "primary", IF r.unsupported THEN "retry" ELSE "hash")
  ELSE IF r.mode = "hash" THEN Begin(r, "primary", "retry")
  ELSE Answer(r, Fail)

\* All of it has been answered.  A sync asks for the headers up to the height it was told, by
\* whichever provider; a block's raw transactions follow its hashes.
Complete(r) ==
  CASE r.mode = "number" -> IF r.out[1][1] <= Synced THEN Answer([r EXCEPT !.to = r.out[1][1]], Got(<<>>))
                            ELSE Begin([r EXCEPT !.from = Synced + 1, !.to = r.out[1][1]], "primary", "parallel")
    [] r.mode = "hashes" -> Begin(r, r.prov, "batched")
    [] OTHER             -> Answer(r, Got(r.out))

-----------------------------------------------------------------------------
Init ==
  /\ backup \in BOOLEAN
  /\ health \in [Providers -> {"good", "nobatch", "flaky"}]
  /\ tips \in [Providers -> Synced .. MaxTip]
  /\ req = Idle

FirstOf == [sync |-> "number", raws |-> "hashes", receipts |-> "receipts", proof |-> "by_number", send |-> "send"]

\* The node asks: the headers up to the tip, a block's raw transactions or receipts, a proof
\* at the safe block, or to broadcast a transaction.
Ask(kind) ==
  /\ req = Idle
  /\ req' = Begin([at |-> "busy", kind |-> kind, from |-> 1, to |-> 0, prov |-> "primary", mode |-> FirstOf[kind],
                   groups |-> <<>>, posts |-> <<>>, out |-> <<>>, unsupported |-> FALSE, answer |-> Waiting, seen |-> tips],
                  "primary", FirstOf[kind])
  /\ UNCHANGED <<backup, health, tips>>

Judged(mode, keys, reply) ==
  IF reply.how # "json" THEN Fail
  ELSE IF mode = "batched" THEN RawsFromBatch(reply.items, keys)
  ELSE IF mode \in Batches THEN HeadersFromBatch(reply.items, keys[1], keys[Len(keys)])
  ELSE FromCall(mode, keys[1], reply.items[1].val)

Posted_OnceMore(mode, post, reply) ==
  IF reply.how = "lost" /\ post.tries <= ATTEMPTS THEN [post EXCEPT !.tries = @ + 1]
  ELSE [post EXCEPT !.res = Judged(mode, post.keys, reply)]

\* A post ends: what was lost is posted again, everything else is judged.
Posted(mode, post, reply) ==
  IF reply.how = "lost" /\ post.tries < ATTEMPTS THEN [post EXCEPT !.tries = @ + 1]
  ELSE [post EXCEPT !.res = Judged(mode, post.keys, reply)]

Receive(i, reply) ==
  /\ req' = [req EXCEPT !.posts[i] = Posted(req.mode, req.posts[i], reply),
                        !.unsupported = @ \/ (reply.how = "unsupported" /\ req.mode = "by_number")]
  /\ UNCHANGED <<backup, health, tips>>

Replies(keys) == IF req.mode \in Batches THEN BatchReplies(req.prov, req.mode, keys)
                 ELSE CallReplies(req.prov, req.mode, keys[1])

\* The results of a group, in the order of its posts.
Joined(r) == r.out \o FlattenSeq([i \in DOMAIN r.posts |-> r.posts[i].res.vals])

\* Every post of the group has ended.
Join ==
  /\ req.at = "busy"
  /\ \A i \in DOMAIN req.posts : req.posts[i].res # Waiting
  /\ req' = IF \E i \in DOMAIN req.posts : req.posts[i].res = Fail THEN Failed(req)
            ELSE LET r == [req EXCEPT !.out = Joined(req), !.groups = Tail(@)]
                 IN  IF r.groups = <<>> THEN Complete(r) ELSE [r EXCEPT !.posts = Posts(r.groups[1])]
  /\ UNCHANGED <<backup, health, tips>>

Return ==
  /\ req.at = "done"
  /\ req' = Idle
  /\ UNCHANGED <<backup, health, tips>>

\* A provider's chain grows, between any two replies (bound: by one block during a request).
Grow(p) ==
  /\ req.at = "busy" /\ tips[p] = req.seen[p]
  /\ tips[p] < MaxTip
  /\ tips' = [tips EXCEPT ![p] = @ + 1]
  /\ UNCHANGED <<backup, health, req>>

End == \E i \in DOMAIN req.posts : req.posts[i].res = Waiting /\ \E reply \in Replies(req.posts[i].keys) : Receive(i, reply)

Busy == req.at = "busy" /\ (End \/ Join)

Next ==
  \/ \E kind \in DOMAIN FirstOf : Ask(kind)
  \/ Busy
  \/ Return
  \/ \E p \in Providers : Grow(p)

Spec == Init /\ [][Next]_vars

\* Every HTTP attempt ends within UPSTREAM_TIMEOUT, so a request that is under way moves on.
FairSpec == Spec /\ WF_vars(Busy)

-----------------------------------------------------------------------------
(* Properties. *)

Keys == Range(Hashes) \cup {<<n, p>> : n \in 0 .. MaxTip, p \in Providers}

\* The request is one the client can have in hand: as many posts as a group holds, none tried
\* more than post_json's attempts, and a result only once it has ended.
TypeOK ==
  /\ backup \in BOOLEAN
  /\ health \in [Providers -> {"good", "nobatch", "flaky"}]
  /\ tips \in [Providers -> Synced .. MaxTip]
  /\ req # Idle =>
       /\ req.prov = "backup" => backup
       /\ Len(req.posts) <= PARALLEL
       /\ \A i \in DOMAIN req.posts : req.posts[i].tries \in 1 .. ATTEMPTS
       /\ \A i \in DOMAIN req.out : req.out[i] \in Keys
       /\ (req.answer # Waiting) <=> (req.at = "done")

Answered(kind) == req.at = "done" /\ req.kind = kind /\ req.answer.st = "ok"

\* A sync that is answered holds every header from the one above the node's tip up to the
\* height it was told, once and in order, although the batches were fetched side by side,
\* answered out of order and asked again in slower ways, and although the height may be one
\* provider's and the headers the other's (headers_range, headers_from_batch, fallback).
RangeExact ==
  req.at = "done" /\ Answered("sync") =>
    [i \in DOMAIN req.answer.vals |-> req.answer.vals[i][1]]
      = [i \in 1 .. req.to - Synced |-> Synced + i]

\* The headers of one answer are one provider's: a failover never joins two providers' chains
\* in one list, where their border would look like a reorg (fallback around headers_range).
OneProvider ==
  req.at = "done" /\ Answered("sync") =>
    \A i, j \in DOMAIN req.answer.vals : req.answer.vals[i][2] = req.answer.vals[j][2]

\* The raw transactions of a block come in the order of its hashes: a batch that answers out of
\* order, drops an entry or swaps two never reorders the list that is hashed into
\* transactionsRoot (raw_txs_batched, raw_txs_serial).
RawsInOrder == req.at = "done" /\ Answered("raws") => req.answer.vals = Hashes

\* A request does not fail while one of the providers it may ask answers single calls and has
\* the blocks: whatever the other does and although batches are refused (headers_range,
\* block_raw_transactions, get_proof_at_safe, fallback).
HealthyIsEnough ==
  req.at = "done" /\ req.answer = Fail =>
    \A p \in Providers : (p = "backup" => backup) =>
      health[p] = "flaky" \/ (req.kind = "sync" /\ req.seen[p] < req.to)

\* Every request comes back: retries, slower ways and the failover are all bounded (ATTEMPTS,
\* headers_range, get_proof_at_safe).
ComesBack == req.at = "busy" ~> req.at = "done"

\* What a sync is given is one provider's unbroken range, in however many posts, attempts and
\* ways of asking it was put together (headers_range, fallback).
OneRange == TypeOK /\ RangeExact /\ OneProvider
=============================================================================
