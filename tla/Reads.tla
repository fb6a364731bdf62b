-------------------------------- MODULE Reads --------------------------------
(***************************************************************************)
(* The read handlers of the RPC server: a request takes the published head *)
(* and read head, finds its block in the verified chain under the chain    *)
(* lock, asks the provider for the data and answers with what that block's *)
(* sealed roots admit (bin/helios-bsc/src/rpc_server/state.rs, blocks.rs,  *)
(* receipts.rs, calls.rs, logs.rs, validate.rs).                           *)
(*                                                                         *)
(* One request is followed.  The other workers touch only the chain and    *)
(* the published view, by syncing, so they are the action Sync.  What a    *)
(* handler does after it has copied its block reads nothing shared, so the *)
(* provider's replies and the checks on them are one step.                 *)
(*                                                                         *)
(* Abstractions.  A block is a height and a branch; a state root is the    *)
(* block, a list root is the list (module Trie).  Spelling and the shape   *)
(* of a reply are one bit, but for a block number, which is checked in one *)
(* spelling and not in another.  A provider replies what it likes.         *)
(*                                                                         *)
(* Each operator named X_Something is a plausible mistake in X: no         *)
(* definition uses it, and X replaced by it must break a property.         *)
(***************************************************************************)
EXTENDS Integers, Sequences, SequencesExt, FiniteSetsExt

CONSTANTS
  Branches,     \* the branches a provider may show; they share the blocks up to Fork
  Trunk,        \* the branch that names the shared blocks
  Fork, Start, MaxHeight,
  TxCount,      \* number of transactions of a block, by height
  Wanted,       \* the transactions that are asked for
  Deployed,     \* the height at which the account gets its code
  KEEP, CONFIRMATIONS, PROOF_LOOKBACK, HASHES, MAX_RANGE, MAX_LOGS

Block(n, br) == <<n, IF n <= Fork THEN Trunk ELSE br>>

Blocks == {Block(n, br) : n \in 1 .. MaxHeight, br \in Branches}

Height(b) == b[1]

ASSUME ReadsConstants ==
  /\ {Fork, Start, MaxHeight, KEEP, CONFIRMATIONS, PROOF_LOOKBACK, HASHES, MAX_RANGE, MAX_LOGS}
       \subseteq Nat \ {0}
  /\ CONFIRMATIONS < Start /\ Start <= MaxHeight /\ CONFIRMATIONS < KEEP
  /\ Trunk \in Branches
  /\ TxCount \in [1 .. MaxHeight -> Nat]

Txs(b) == [i \in 1 .. TxCount[Height(b)] |-> <<b, i>>]

CodeOf(b) == IF Height(b) < Deployed THEN "empty" ELSE "code"

VARIABLES
  chain,    \* the verified chain: branch, lowest and highest height
  view,     \* the published head and read head
  allow,    \* allow_unverified_passthrough
  req,      \* the request and how far it has got
  proofs,   \* have proof_ok and proof_fail been counted?
  sealed,   \* the highest read head ever published
  broken    \* has a block at or below it been replaced?

vars == <<chain, view, allow, req, proofs, sealed, broken>>

In(c, b) == Height(b) \in c.lo .. c.hi /\ b = Block(Height(b), c.br)

BlocksOf(c) == {Block(n, c.br) : n \in c.lo .. c.hi}

-----------------------------------------------------------------------------
(* Requests. *)

Exec == {"account", "storage", "proof", "code", "call"}              \* state at a block
Walk == {"header", "count", "index", "uncle", "receipts"}   \* a block's own data
Verified == Exec \cup Walk \cup {"logs", "receipt"}
Passthrough == {"tx", "fee", "raw"}
Kinds == Verified \cup Passthrough \cup {"send"}

Tags ==
  {[by |-> "latest"], [by |-> "pending"]}
    \cup {[by |-> "number", n |-> n] : n \in 1 .. MaxHeight}
    \cup {[by |-> "hash", block |-> b] : b \in Blocks}

\* A hash given to a method that takes a number: it names the read head, or nothing.
Named == {[by |-> "named", block |-> b] : b \in Blocks}

NoBlock == <<0, Trunk>>

NoTx == <<NoBlock, 0>>

Idle == [at |-> "idle"]

\* What a provider has served, for the properties.
NotHeard == [honest |-> FALSE, txs |-> FALSE, receipts |-> FALSE]

Err(code) == [ok |-> FALSE, code |-> code]

Ok(value) == [ok |-> TRUE, value |-> value]

Reply(r, a) == [r EXCEPT !.at = "done", !.answer = a]

\* A log query names a block by its hash, or a range.
LogTags ==
  {[by |-> "hash", block |-> b] : b \in Blocks}
    \cup [by : {"range"}, from : 0 .. MaxHeight, to : 0 .. MaxHeight]

Asked(kind) ==
  CASE kind \in Exec \cup {"receipts"}  -> [tag : Tags, want : {NoTx}]
    [] kind \in Walk \ {"receipts"}     -> [tag : Tags \cup Named, want : {NoTx}]
    [] kind = "logs"                    -> [tag : LogTags, want : {NoTx}]
    [] OTHER                            -> [tag : {[by |-> "latest"]}, want : Wanted]

\* A request comes in.  One that needs the passthrough a node does not allow is refused
\* before it is parsed, any other that does not parse is refused then; the parameters of a
\* fee query go to the provider unparsed.
Receive(kind, q, parses) ==
  /\ req = Idle
  /\ LET r == [at |-> "refresh", next |-> "resolve", kind |-> kind, tag |-> q.tag, want |-> q.want,
               head |-> 0, safe |-> NoBlock, blocks |-> <<>>, window |-> {}, got |-> <<>>,
               claim |-> NoBlock, heard |-> NotHeard, answer |-> Err("none")]
     IN  req' = IF kind \in Passthrough /\ ~allow THEN Reply(r, Err("method"))
                ELSE IF ~parses /\ kind # "fee" THEN Reply(r, Err("params"))
                ELSE IF kind \in Passthrough \cup {"receipt", "send"} THEN [r EXCEPT !.at = "claim"]
                ELSE r
  /\ UNCHANGED <<chain, view, allow, proofs, sealed, broken>>

-----------------------------------------------------------------------------
(* What an unverified object says of itself. *)

\* The transaction it is about, the block it says that is in, whether the block's number is
\* written as a hex string (or is a JSON number, or 0 where there is none), and whether the
\* rest has the shape of such an object.
Claims ==
  [tx : {req.want, NoTx}, block : Blocks \cup {NoBlock}, number : 0 .. MaxHeight, hex : BOOLEAN,
   shape : BOOLEAN]

\* Every optional field of an object but its block is of its kind, and its logs are of the
\* object's own transaction and block.
Shaped(c) == c.shape

Pending(c) == c.block = NoBlock /\ c.number = 0

Nil == [tx |-> NoTx, block |-> NoBlock, number |-> 0, hex |-> FALSE, shape |-> TRUE]

Inconsistent(c) == (c.block = NoBlock) # (c.number = 0)

\* The request goes on, with what it has been told.
Told(r, c, next) == [r EXCEPT !.at = "refresh", !.claim = c, !.next = next]

\* get_transaction_receipt: a pending receipt goes where the unverified ones go, a mined one
\* is proved in the block it names.
ToldReceipt(r, c) ==
  CASE Pending(c)                      -> IF allow THEN Told(r, c, "bind") ELSE Reply(r, Err("method"))
    [] ~Pending(c) /\ Inconsistent(c)  -> Reply(r, Err("not_synced"))
    [] ~Pending(c) /\ ~Inconsistent(c) -> Told(r, c, "resolve")

\* get_raw_tx_by_hash, send_raw: the hash of the bytes must be the one asked for.
ToldRaw(r, c) == Reply(r, IF c.shape /\ c.tx = r.want THEN Ok(c) ELSE Err("proof"))

\* bind_fee_result: the oldest block of a fee history, if it has one, is a hex string.
FeeShaped(c) == Shaped(c) /\ (c.number # 0 => c.hex)

\* unverified_qty: a fee history that names no block is an answer as it is.
ToldFee(r, c) ==
  CASE ~FeeShaped(c)                -> Reply(r, Err("params"))
    [] FeeShaped(c) /\ c.number = 0 -> Reply(r, Ok(c))
    [] FeeShaped(c) /\ c.number # 0 -> Told(r, c, "bind")

\* The object comes before the view is read.
Claim(c) ==
  /\ req.at = "claim"
  /\ req' = CASE req.kind = "receipt"         -> ToldReceipt(req, c)
              [] req.kind \in {"raw", "send"} -> ToldRaw(req, c)
              [] req.kind = "fee"             -> ToldFee(req, c)
              [] OTHER                        -> Told(req, c, "bind")
  /\ UNCHANGED <<chain, view, allow, proofs, sealed, broken>>

NoClaim(a) ==
  /\ req.at = "claim"
  /\ req' = Reply(req, a)
  /\ UNCHANGED <<chain, view, allow, proofs, sealed, broken>>

-----------------------------------------------------------------------------
(* The view and the chain. *)

\* refresh: the published view, which this request or another may just have synced.
Refresh ==
  /\ req.at = "refresh"
  /\ req' = [req EXCEPT !.at = req.next, !.head = view.head, !.safe = view.safe]
  /\ UNCHANGED <<chain, view, allow, proofs, sealed, broken>>

RefreshFails ==
  /\ req.at = "refresh"
  /\ req' = Reply(req, Err("not_synced"))
  /\ UNCHANGED <<chain, view, allow, proofs, sealed, broken>>

\* The read head is published from before the chain was rebuilt.
Sync_HeadBefore(hi, br, safe) ==
  /\ hi >= chain.hi /\ hi > view.head
  /\ br # chain.br => chain.lo <= Fork
  /\ chain' = [br |-> br, lo |-> Max({chain.lo, hi - KEEP + 1}), hi |-> hi]
  /\ view' = [head |-> hi, safe |-> Block(safe, chain.br)]
  /\ sealed' = Max({sealed, safe})
  /\ broken' = (broken \/ (br # chain.br /\ Fork < sealed))
  /\ UNCHANGED <<allow, req, proofs>>

\* A sync of any worker: the chain grows or is rebuilt on another branch, and is published
\* with its read head under the chain lock (module NodeSync).
Sync(hi, br, safe) ==
  /\ hi >= chain.hi /\ hi > view.head
  /\ br # chain.br => chain.lo <= Fork
  /\ chain' = [br |-> br, lo |-> Max({chain.lo, hi - KEEP + 1}), hi |-> hi]
  /\ view' = [head |-> hi, safe |-> Block(safe, br)]
  /\ sealed' = Max({sealed, safe})
  /\ broken' = (broken \/ (br # chain.br /\ Fork < sealed))
  /\ UNCHANGED <<allow, req, proofs>>

\* A sync that a header stops keeps the blocks before it, and publishes nothing.
SyncStops(hi) ==
  /\ hi > chain.hi
  /\ chain' = [chain EXCEPT !.hi = hi]
  /\ UNCHANGED <<view, allow, req, proofs, sealed, broken>>

\* wallet_get_block_by_number: tags and the hash of the read head are its height, heights
\* reach up to it.  The block is found by its number in either case.
ByNumber(tag, safe, c) ==
  LET n == CASE tag.by = "latest" -> Height(safe)
             [] tag.by = "number" -> IF tag.n <= Height(safe) THEN tag.n ELSE 0
             [] tag.by \in {"hash", "named"} -> IF tag.block = safe THEN Height(safe) ELSE 0
             [] OTHER -> 0
  IN  {b \in BlocksOf(c) : Height(b) = n}

\* Any block of the chain will do.
ByHash_AnyHeight(tag, safe, c) == {b \in BlocksOf(c) : tag.by = "hash" /\ b = tag.block}

\* wallet_get_block_by_hash
ByHash(tag, safe, c) ==
  {b \in BlocksOf(c) : tag.by = "hash" /\ b = tag.block /\ Height(b) <= Height(safe)}

\* historical_hashes_at_safe: the first HASHES blocks from HASHES below the block.
Window(c, b) ==
  LET low == Max({c.lo, Height(b) - HASHES})
  IN  {x \in BlocksOf(c) : Height(x) \in low .. Min({Height(b), low + HASHES - 1})}

\* The heights of an eth_getLogs range; 0 stands for a tag, the read head.
LogHeights(tag, safe) ==
  LET N(n) == IF n = 0 THEN Height(safe) ELSE n
  IN  N(tag.from) .. N(tag.to)

Found(bs) == IF bs = {} THEN Err("not_synced") ELSE Ok(SetToSeq(bs))

\* resolve_wallet_exec_block_in: the provider must still have the block's state.
ExecBlock(r, c) ==
  LET bs == ByNumber(r.tag, r.safe, c)
      b  == IF bs = {} THEN ByHash(r.tag, r.safe, c) ELSE bs
  IN  Found({x \in b : r.head - Height(x) <= PROOF_LOOKBACK})

\* local_block_by_number, local_block_by_hash
WalkBlock(r, c) ==
  Found(IF r.tag.by = "hash" THEN ByHash(r.tag, r.safe, c) ELSE ByNumber(r.tag, r.safe, c))

\* A receipt names its block by hash, in the whole of the chain, and is then held against
\* the read head.
ReceiptBlock(r, c) == Found({b \in BlocksOf(c) : b = r.claim.block /\ Height(b) <= Height(r.safe)})

\* resolve_get_logs_blocks
LogBlocks(r, c) ==
  LET span == LogHeights(r.tag, r.safe)
  IN  IF r.tag.by = "hash" THEN Found(ByHash(r.tag, r.safe, c))
      ELSE IF span = {} \/ Cardinality(span) > MAX_RANGE THEN Err("params")
      ELSE IF Max(span) > Height(r.safe) \/ ~(span \subseteq c.lo .. c.hi) THEN Err("not_synced")
      ELSE Ok([i \in 1 .. Cardinality(span) |-> Block(Min(span) + i - 1, c.br)])

\* The blocks of a request, or why there are none.
Resolved(r, c) ==
  CASE r.kind \in Exec     -> ExecBlock(r, c)
    [] r.kind \in Walk     -> WalkBlock(r, c)
    [] r.kind = "receipt"  -> ReceiptBlock(r, c)
    [] r.kind = "logs"     -> LogBlocks(r, c)

\* The hashes are taken when the call runs.
Hashes_Late(r) == Window(chain, r.blocks[1])

\* The hashes a call runs with were taken with its block.
Hashes(r) == r.window

\* The chain must still hold the read head the request was given.
Resolve_SameHead ==
  /\ req.at = "resolve"
  /\ In(chain, req.safe)
  /\ \E found \in {Resolved(req, chain)} :
       req' = IF ~found.ok THEN Reply(req, found)
              ELSE [req EXCEPT !.at = "serve", !.blocks = found.value,
                               !.window = IF req.kind = "call" THEN Window(chain, found.value[1]) ELSE {}]
  /\ UNCHANGED <<chain, view, allow, proofs, sealed, broken>>

\* The chain lock is taken once: for a call the hashes come out with the block.
Resolve ==
  /\ req.at = "resolve"
  /\ \E found \in {Resolved(req, chain)} :
       req' = IF ~found.ok THEN Reply(req, found)
              ELSE [req EXCEPT !.at = "serve", !.blocks = found.value,
                               !.window = IF req.kind = "call" THEN Window(chain, found.value[1]) ELSE {}]
  /\ UNCHANGED <<chain, view, allow, proofs, sealed, broken>>

-----------------------------------------------------------------------------
(* What the provider serves for a block, and what the sealed header admits. *)

\* Nothing, or the data of any block; a list may be left out, receipts may come without
\* their transactions' hashes, or with those of others.
Down == NoBlock

Labels == {"true", "none", "others"}

\* The block whose data a provider passes off as another's.
Wrong(b) == CHOOSE d \in Blocks : d # b /\ Txs(d) # <<>>

Replies(kind, b) ==
  LET one(f, s) == IF kind \in f THEN s ELSE {b}
      any       == {b, Wrong(b), Down}
      some(f)   == IF kind \in f THEN {[up |-> FALSE, list |-> <<>>], [up |-> TRUE, list |-> <<>>]}
                                        \cup {[up |-> TRUE, list |-> Txs(d)] : d \in {b, Wrong(b)}}
                   ELSE {[up |-> TRUE, list |-> Txs(b)]}
      listed    == {"receipts", "receipt", "logs"}
  IN  [proof    : one(Exec, any),
       slot     : one({"storage", "proof"}, any),
       code     : IF kind = "code" THEN {"down", "code", "junk"} ELSE {CodeOf(b)},
       header   : one(Walk \cup {"receipt", "logs"}, any),
       txs      : some({"header", "count", "index"} \cup listed),
       receipts : some(listed),
       labels   : IF kind \in listed THEN Labels ELSE {"true"}]

Honest(b, p) ==
  /\ p.proof = b /\ p.slot = b /\ p.header = b
  /\ p.code = CodeOf(b) \/ CodeOf(b) = "empty"
  /\ p.txs = [up |-> TRUE, list |-> Txs(b)]
  /\ p.receipts = [up |-> TRUE, list |-> Txs(b)]
  /\ p.labels # "others"

\* An empty root is asked for like any other.
Bound_NoShortcut(root, reply) ==
  IF ~reply.up THEN Err("upstream")
  ELSE IF reply.list = <<>> THEN Ok([omitted |-> TRUE, list |-> <<>>])
  ELSE IF reply.list # root THEN Err("proof")
  ELSE Ok([omitted |-> FALSE, list |-> root])

\* A list the provider left out is a list of nothing.
Bound_Empty(root, reply) ==
  IF ~reply.up THEN Err("upstream")
  ELSE IF reply.list # root /\ reply.list # <<>> THEN Err("proof")
  ELSE Ok([omitted |-> FALSE, list |-> reply.list])

\* bind_tx_hashes, bind_tx_envelopes, the root of bind_receipts: an empty root asks for
\* nothing, a list left out proves nothing.
Bound(root, reply) ==
  IF root = <<>> THEN Ok([omitted |-> FALSE, list |-> <<>>])
  ELSE IF ~reply.up THEN Err("upstream")
  ELSE IF reply.list = <<>> THEN Ok([omitted |-> TRUE, list |-> <<>>])
  ELSE IF reply.list # root THEN Err("proof")
  ELSE Ok([omitted |-> FALSE, list |-> root])

\* A receipt as it is handed out: what it says is parsed from the provider's and proved, its
\* block, its place, its gas and its logs are written over with what is known.
BoundReceipt(t, label) == [of |-> t, label |-> label]

Label(t, labels) ==
  CASE labels = "true" -> t [] labels = "none" -> NoTx [] OTHER -> <<t[1], t[2] + 1>>

\* The labels of receipts are not held against the transactions.
Labelled_Echoed(p, list, txs) == Ok([i \in DOMAIN list |-> BoundReceipt(list[i], Label(list[i], p.labels))])

\* A receipt is labelled with its transaction's hash: derived from the envelope at its
\* place when the provider serves the envelopes, else as the provider says.
Labelled(p, list, txs) ==
  LET said(i) == Label(list[i], p.labels)
  IN  IF txs.omitted THEN Ok([i \in DOMAIN list |-> BoundReceipt(list[i], said(i))])
      ELSE IF Len(list) > Len(txs.list) THEN Err("proof")
      ELSE IF \E i \in DOMAIN list : said(i) \notin {NoTx, txs.list[i]} THEN Err("proof")
      ELSE Ok([i \in DOMAIN list |-> BoundReceipt(list[i], txs.list[i])])

\* bind_receipts
BoundReceipts(b, p) ==
  LET rs == Bound(Txs(b), p.receipts)
      ts == Bound(Txs(b), p.txs)
  IN  IF ~rs.ok \/ rs.value.list = <<>> THEN rs
      ELSE IF ~ts.ok THEN ts
      ELSE LET l == Labelled(p, rs.value.list, ts.value)
           IN  IF ~l.ok THEN l ELSE Ok([omitted |-> FALSE, list |-> l.value])

\* load_verified_header: the sealed header is stored, or served again and hashed.
HeaderLoads(b, p) == p.header = b

\* A proof that does not verify, or does not come, is a proof failure.
ProofHolds(b, p) == p.proof = b

\* The answers of the handlers, from a block and the provider's replies: first from a proof
\* that holds.
account_field(b) == Ok(b)

get_storage(b, p) == IF p.slot = b THEN Ok(b) ELSE Err("proof")

\* Every slot that was asked for is proved, or none is handed out.
get_eth_proof(b, p) == IF p.slot = b THEN Ok(b) ELSE Err("proof")

\* An account without code is not asked for it.
get_code(b, p) ==
  IF CodeOf(b) = "empty" THEN Ok("empty") ELSE IF p.code = CodeOf(b) THEN Ok(p.code) ELSE Err("proof")

\* prepare_verified_call, and the call (module Call) on that state and those hashes.
eth_call(r, b) == Ok([state |-> b, hashes |-> Hashes(r)])

\* Then from the transactions of a header that loads: only a block is shown without them.
get_block(t) == Ok(t)

tx_count(t) == IF t.omitted THEN Err("proof") ELSE Ok(Len(t.list))

tx_at_index(t) == IF t.omitted THEN Err("proof") ELSE Ok(IF t.list = <<>> THEN NoTx ELSE t.list[1])

\* And from its receipts.
get_block_receipts(t) == Ok(t.list)

get_transaction_receipt(r, t) ==
  LET mine == {i \in DOMAIN t.list : t.list[i].label = r.want}
  IN  Ok(IF mine = {} THEN NoTx ELSE t.list[Min(mine)].of)

\* A Parlia block has no uncles.
uncle == Ok(NoTx)

ServedState(r, b, p) ==
  IF ~ProofHolds(b, p) THEN Err("proof")
  ELSE CASE r.kind = "account" -> account_field(b)
         [] r.kind = "storage" -> get_storage(b, p)
         [] r.kind = "proof"   -> get_eth_proof(b, p)
         [] r.kind = "code"    -> get_code(b, p)
         [] r.kind = "call"    -> eth_call(r, b)

ServedList(r, b, p) ==
  LET ts == Bound(Txs(b), p.txs)
      rs == BoundReceipts(b, p)
      l  == IF r.kind \in {"receipts", "receipt"} THEN rs ELSE ts
  IN  IF ~HeaderLoads(b, p) THEN Err("proof")
      ELSE IF ~l.ok THEN l
      ELSE CASE r.kind = "header"   -> get_block(l.value)
             [] r.kind = "count"    -> tx_count(l.value)
             [] r.kind = "index"    -> tx_at_index(l.value)
             [] r.kind = "receipts" -> get_block_receipts(l.value)
             [] r.kind = "receipt"  -> get_transaction_receipt(r, l.value)

\* Every handler but eth_getLogs.
ServedBlock(r, b, p) ==
  CASE r.kind \in Exec   -> ServedState(r, b, p)
    [] r.kind = "uncle"  -> uncle
    [] OTHER             -> ServedList(r, b, p)

\* bound_block_receipts
ReceiptsOf(b, p) == IF ~HeaderLoads(b, p) THEN Err("proof") ELSE BoundReceipts(b, p)

\* collect_logs: the blocks in order, the first that cannot be proved ends it, and so does a
\* log too many.  Every transaction has one log that matches.
ServedLogs(r, b, p) ==
  LET of  == ReceiptsOf(b, p)
      got == Append(r.got, [i \in DOMAIN of.value.list |-> of.value.list[i].of])
  IN  IF ~of.ok THEN Reply(r, of)
      ELSE IF of.value.omitted THEN Reply(r, Err("proof"))
      ELSE IF Len(FlattenSeq(got)) > MAX_LOGS THEN Reply(r, Err("params"))
      ELSE IF Len(got) < Len(r.blocks) THEN [r EXCEPT !.got = got]
      ELSE Reply(r, Ok(FlattenSeq(got)))

\* verified_proof, eth_getProof and the calls count what they verify; the slot and the code
\* that other handlers check are not counted.
Counted(r, b, p) ==
  IF r.kind \notin Exec THEN proofs
  ELSE [ok   |-> proofs.ok \/ ProofHolds(b, p),
        fail |-> proofs.fail \/ ~ProofHolds(b, p) \/ (r.kind = "proof" /\ p.slot # b)]

\* The block whose data is wanted next.
NextBlock(r) == r.blocks[Len(r.got) + 1]

\* get_transaction_receipt: a receipt of a block whose receipts are not served is an
\* unverified one.
Unproved(r, b, p) ==
  r.kind = "receipt" /\ HeaderLoads(b, p) /\ BoundReceipts(b, p) = Ok([omitted |-> TRUE, list |-> <<>>])

\* What has been heard, with the replies for one more block.
Heard(r, b, p) ==
  [honest   |-> Honest(b, p) /\ (r.got # <<>> => r.heard.honest),
   txs      |-> p.txs.list # <<>>,
   receipts |-> p.receipts.list # <<>>]

\* The provider's replies for the next block.  Those for the blocks of a range come in
\* groups and in any order, and are taken up in the order of the blocks.
Serve(p) ==
  /\ req.at = "serve"
  /\ LET b == NextBlock(req)
         r == [req EXCEPT !.heard = Heard(req, b, p)]
     IN  /\ req' = IF req.kind = "logs" THEN ServedLogs(r, b, p)
                   ELSE IF ~Unproved(req, b, p) THEN Reply(r, ServedBlock(req, b, p))
                   ELSE IF ~allow THEN Reply(r, Err("method"))
                   ELSE [r EXCEPT !.at = "refresh", !.next = "bind"]
         /\ proofs' = Counted(req, b, p)
  /\ UNCHANGED <<chain, view, allow, sealed, broken>>

\* The object is not held against the read head.
Binds_AnyHeight(r, c) ==
  IF r.kind = "fee" THEN \E b \in BlocksOf(c) : Height(b) = r.claim.number
  ELSE /\ r.claim.shape /\ r.claim.tx = r.want
       /\ ~Inconsistent(r.claim)
       /\ \/ Pending(r.claim)
          \/ In(c, r.claim.block) /\ (r.claim.hex => r.claim.number = Height(r.claim.block))

\* bind_result_tx_hash
SameTx(r) == r.claim.tx = r.want

\* bind_mined_object and bind_fee_oldest_block.  A number that is not a string is not held
\* against the block.
Binds(r, c) ==
  IF r.kind = "fee" THEN r.claim.number <= Height(r.safe) /\ r.claim.number \in c.lo .. c.hi
  ELSE /\ Shaped(r.claim) /\ SameTx(r)
       /\ ~Inconsistent(r.claim)
       /\ \/ Pending(r.claim)
          \/ /\ In(c, r.claim.block) /\ Height(r.claim.block) <= Height(r.safe)
             /\ r.claim.hex => r.claim.number = Height(r.claim.block)

Bind ==
  /\ req.at = "bind"
  /\ req' = Reply(req, IF Binds(req, chain) THEN Ok(req.claim) ELSE Err("not_synced"))
  /\ UNCHANGED <<chain, view, allow, proofs, sealed, broken>>

Init ==
  /\ chain = [br |-> Trunk, lo |-> Max({1, Start - KEEP + 1}), hi |-> Start]
  /\ view = [head |-> Start, safe |-> Block(Start - CONFIRMATIONS, Trunk)]
  /\ allow \in BOOLEAN
  /\ req = Idle
  /\ proofs = [ok |-> FALSE, fail |-> FALSE]
  /\ sealed = Start - CONFIRMATIONS
  /\ broken = FALSE

Next ==
  \/ \E kind \in Kinds, parses \in BOOLEAN : \E q \in Asked(kind) : Receive(kind, q, parses)
  \/ req.at = "claim" /\ \E c \in Claims : Claim(c)
  \/ \E a \in {Ok(Nil), Err("upstream")} : NoClaim(a)
  \/ Refresh \/ RefreshFails \/ Resolve
  \/ req.at = "serve" /\ \E p \in Replies(req.kind, NextBlock(req)) : Serve(p)
  \/ Bind
  \/ \E hi \in chain.hi + 1 .. MaxHeight : SyncStops(hi)
  \/ \E hi \in chain.hi .. MaxHeight, br \in Branches : \E safe \in {hi - CONFIRMATIONS, hi - 1} : Sync(hi, br, safe)

Spec == Init /\ [][Next]_vars

\* A worker goes on with its request: every call it makes ends, with a reply or an error.
Progress ==
  \/ NoClaim(Err("upstream")) \/ Refresh \/ Resolve
  \/ req.at = "serve" /\ \E p \in Replies(req.kind, NextBlock(req)) : Serve(p)
  \/ Bind

FairSpec == Spec /\ WF_vars(Progress)

-----------------------------------------------------------------------------
(* Properties. *)

Done == req.at = "done" /\ req.answer.ok

\* Answered from the roots of the request's own blocks.
FromRoots == Done /\ req.kind \in Verified /\ req.next = "resolve" /\ req.blocks # <<>>

\* Shapes.
TypeOK ==
  /\ chain.br \in Branches /\ chain.lo \in 1 .. chain.hi /\ chain.hi \in 1 .. MaxHeight
  /\ view.head <= chain.hi /\ In(chain, view.safe)
  /\ req.at \in {"idle", "claim", "refresh", "resolve", "serve", "bind", "done"}
  /\ req.at = "serve" => Len(req.got) < Len(req.blocks) /\ Range(req.blocks) \subseteq Blocks
  /\ DOMAIN proofs = {"ok", "fail"} /\ broken \in BOOLEAN

AllLogs(blocks) == FlattenSeq([k \in DOMAIN blocks |-> Txs(blocks[k])])

\* Whatever the provider replies, an answer says what is true of the request's block: the
\* state and the code, how many transactions it has and which is first, every log of every
\* block of a range.  Where the provider leaves a list out, only the two methods that are
\* documented to leave it out too answer.
AnswersTrue ==
  FromRoots =>
    LET b == req.blocks[1]
        v == req.answer.value
    IN  CASE req.kind \in {"account", "storage", "proof"} -> v = b
          [] req.kind = "code"     -> v = CodeOf(b)
          [] req.kind = "call"     -> v.state = b
          [] req.kind = "header"   -> v.list = Txs(b) \/ (~req.heard.txs /\ v.list = <<>>)
          [] req.kind = "count"    -> v = Len(Txs(b))
          [] req.kind = "index"    -> v = IF Txs(b) = <<>> THEN NoTx ELSE Txs(b)[1]
          [] req.kind = "receipts" -> \/ [i \in DOMAIN v |-> v[i].of] = Txs(b)
                                      \/ ~req.heard.receipts /\ v = <<>>
          [] req.kind = "logs"     -> v = AllLogs(req.blocks)
          [] OTHER -> TRUE

\* A receipt is that of the transaction it is labelled with, and the receipt of a
\* transaction is never another's nor denied, if the provider served the envelopes.
LabelsTrue ==
  FromRoots /\ req.heard.txs =>
    /\ req.kind = "receipts" => \A i \in DOMAIN req.answer.value : req.answer.value[i].label = req.answer.value[i].of
    /\ req.kind = "receipt" =>
         req.answer.value = IF req.want \in Range(Txs(req.blocks[1])) THEN req.want ELSE NoTx

\* A block that has been answered from is never off the node's chain afterwards, however
\* stale the view the request was given, as long as no read head has been reverted.
NeverReverted ==
  FromRoots /\ ~broken => \A b \in Range(req.blocks) : b = Block(Height(b), chain.br)

\* A call runs against the ancestors of its own block, and a range of logs is one stretch
\* of one branch, even when the chain is replaced under the request.
OneChain ==
  FromRoots =>
    /\ req.kind = "call" =>
         req.answer.value.hashes \subseteq {Block(n, req.blocks[1][2]) : n \in 1 .. Height(req.blocks[1])}
    /\ req.kind = "logs" => \E br \in Branches : \A i \in DOMAIN req.blocks :
         req.blocks[i] = Block(Height(req.blocks[1]) + i - 1, br)

\* An object passed through unverified is the one that was asked for, and the block whose
\* hash it names is on the node's chain and stays there.  So is the one whose number it
\* names, if the number is a string.
PassedIsBound ==
  Done /\ req.next = "bind" =>
    LET v == req.answer.value
    IN  /\ allow
        /\ req.kind # "fee" => v.tx = req.want
        /\ req.kind # "fee" /\ v.block # NoBlock /\ ~broken =>
             /\ v.block = Block(Height(v.block), chain.br)
             /\ v.hex => v.block = Block(v.number, chain.br)

\* A provider that serves what is true is never refused: a request whose block was found is
\* answered, unless it matches too many logs.
HonestIsServed ==
  req.at = "done" /\ req.heard.honest
    => req.answer.ok \/ (req.kind = "logs" /\ req.answer = Err("params"))

\* Every request is answered, whatever happens to the chain meanwhile.
Answered == (req.at # "idle") ~> (req.at = "done")

\* An answer built from the sealed roots is true in what it says and in whose it says it is,
\* whatever the provider replied or left out.
Truthful == TypeOK /\ AnswersTrue /\ LabelsTrue
=============================================================================
