-------------------------------- MODULE Call --------------------------------
(***************************************************************************)
(* Verified eth_call and eth_estimateGas (execution/src/call.rs): the      *)
(* accounts a call names are proved against the state root of a verified   *)
(* block and loaded, the call runs on what is loaded, and what it misses   *)
(* is proved, loaded and the call run again; an estimate searches for the  *)
(* least gas on top of that.  Proofs are those of proof.rs and mpt.rs      *)
(* (module Trie).                                                          *)
(*                                                                         *)
(* Abstractions.  The EVM (revm) is a machine that reads: what it reads    *)
(* next depends on the code of the callee and on all it has read, each     *)
(* read costs one unit of gas.  A code hash is the code.  The provider     *)
(* answers with anything that departs in one part from what is true, or    *)
(* with all that is true of another state.                                 *)
(*                                                                         *)
(* Each operator named X_Something is a plausible mistake in X: no         *)
(* definition uses it, and X replaced by it must break a property.         *)
(***************************************************************************)
EXTENDS Trie, FiniteSetsExt

CONSTANTS
  AccountKey,        \* the trie key of each account
  SlotKey,           \* the trie key of each slot
  Precompiles,       \* addresses of precompiles: "local", "bls", "bsc"
  Values, Long,      \* what a slot may hold; the values that fill a node of their own
  Worlds,            \* the states a block may have
  Funds,             \* what each precompile holds in each of them
  Requests,          \* the calls a client may make
  Op(_, _),          \* what a code does after it has read a sequence of values
  Number, Known,     \* the block of the call, and the earlier blocks whose hash is held
  CANCUN_TIME, PRAGUE_TIME, OSAKA_MENDEL_TIME,
  CALL_GAS_CAP, MAX_TX_GAS, TX_GAS, BLOCKHASH_WINDOW,
  MAX_PROOF_ROUNDS, MAX_CALL_ACCOUNTS, MAX_PROOF_STORAGE_KEYS, MAX_ESTIMATE_ITERS,
  MAX_PROOF_NODES, MAX_PROOF_STORAGE_ENTRIES,
  MaxOps             \* bound: the longest run

Accounts == DOMAIN AccountKey
Slots    == DOMAIN SlotKey

Named    == Accounts \cup Precompiles

Wide == "wide"   \* a key that is longer than a slot

Fetched == [a : Named, slots : Seq(Slots)]

CallRequest ==
  [kind : {"call", "estimate"}, to : Named, from : Named, coinbase : Named, gas : Nat, limit : Nat,
   time : Nat, list : Seq(Fetched), large : BOOLEAN]

\* How far n halvings narrow a search: 2^n.
Halvings[n \in 0 .. MAX_ESTIMATE_ITERS] == IF n = 0 THEN 1 ELSE 2 * Halvings[n - 1]

ASSUME CallConstants ==
  /\ {CALL_GAS_CAP, MAX_TX_GAS, TX_GAS, MAX_PROOF_ROUNDS, MAX_CALL_ACCOUNTS,
      MAX_PROOF_STORAGE_KEYS, MAX_ESTIMATE_ITERS} \subseteq Nat \ {0}
  /\ CANCUN_TIME <= PRAGUE_TIME /\ PRAGUE_TIME <= OSAKA_MENDEL_TIME
  /\ CALL_GAS_CAP < Halvings[MAX_ESTIMATE_ITERS]
  /\ Known \subseteq 0 .. Number - 1
  /\ Precompiles \cap Accounts = {} /\ MaxOps \in Nat

\* keccak256 keeps addresses, and slots, apart.
ASSUME KeysApart ==
  /\ IsFiniteSet(Accounts) /\ AccountKey \in Injection(Accounts, Keys)
  /\ IsFiniteSet(Slots) /\ SlotKey \in Injection(Slots, Keys)
  /\ Wide \notin Slots

ASSUME StatesTyped == \A w \in Worlds, a \in Accounts : w[a].store \in [Slots -> Values]

ASSUME FundsTyped == Funds \in [Worlds -> [Precompiles -> Nat]]

ASSUME RequestsTyped == Requests \subseteq CallRequest

VARIABLES
  world,    \* the state under the verified state root
  req,      \* the request
  pc,       \* "open", "seed", "run", "fetch" or "done"
  queue,    \* the fetches that remain to be made before the first run
  db,       \* ProofDb: the loaded accounts
  want,     \* what the run that failed was missing
  rounds,   \* proof rounds used
  search,   \* the gas of the current run, and the search of an estimate
  ans,      \* what the call ended with
  honest    \* has the provider told the truth so far (for the properties)

vars == <<world, req, pc, queue, db, want, rounds, search, ans, honest>>

-----------------------------------------------------------------------------
(* The chain's state. *)

Word(v) == [v |-> v, big |-> v \in Long]

Storage(w, a) ==
  LET set == {s \in Slots : w[a].store[s] # 0}
  IN [k \in {SlotKey[s] : s \in set} |-> Word(w[a].store[CHOOSE s \in set : SlotKey[s] = k])]

AccountOf(w, a) ==
  [bal |-> w[a].bal, code |-> w[a].code, root |-> TrieRoot(Storage(w, a)), big |-> TRUE]

empty_account == [bal |-> 0, code |-> "none", root |-> EMPTY_TRIE_ROOT, big |-> TRUE]

\* The account of each address in each state, and the root of each state.
State == [w \in Worlds |-> [a \in Accounts |-> AccountOf(w, a)]]

StateRoot ==
  [w \in Worlds |->
     LET live == {a \in Accounts : State[w][a] # empty_account}
     IN TrieRoot([k \in {AccountKey[a] : a \in live} |->
                    State[w][CHOOSE a \in live : AccountKey[a] = k]])]

\* No state of the chain is empty.
ASSUME StatesLive == \A w \in Worlds : \E a \in Accounts : State[w][a] # empty_account

-----------------------------------------------------------------------------
(* The rules of the block. *)

Shanghai == 0
Cancun   == 1
Prague   == 2
Osaka    == 3

evm_spec_at(time) ==
  Cardinality({t \in 1 .. 3 : time >= <<CANCUN_TIME, PRAGUE_TIME, OSAKA_MENDEL_TIME>>[t]})

precompile_kind(a, spec) ==
  CASE a \notin Precompiles -> "Account"
    [] a \in Precompiles /\ (a = "local" \/ (a = "bls" /\ spec >= Prague)) -> "Local"
    [] OTHER -> "Unsupported"

call_gas(r) ==
  Min({IF r.gas = 0 THEN CALL_GAS_CAP ELSE r.gas, CALL_GAS_CAP, r.limit}
      \cup IF evm_spec_at(r.time) >= Osaka THEN {MAX_TX_GAS} ELSE {})

-----------------------------------------------------------------------------
(* Proofs (proof.rs).  A reply is [addr, nodes, claim, entries, code]: the *)
(* account it speaks of, its proof, the account claimed, and for some      *)
(* slots a key, a proof and a claimed value.                               *)

Bad(err) == [err |-> err, db |-> <<>>]

\* What a trie proves of an account and of a slot: a sequence of one, or empty.
verify_account_proof(root, a, nodes) ==
  LET w == verify_trie_proof(root, AccountKey[a], nodes)
  IN CASE w.end = "absent" -> <<empty_account>> [] w.end = "bad" -> <<>> [] OTHER -> w.vals

verify_storage_proof(root, s, nodes) ==
  LET w == verify_trie_proof(root, SlotKey[s], nodes)
  IN CASE root = EMPTY_TRIE_ROOT \/ w.end = "absent" -> <<0>>
       [] root # EMPTY_TRIE_ROOT /\ w.end = "bad" -> <<>>
       [] OTHER -> <<w.vals[1].v>>

\* The bytes that come for an account hash to its code hash; one without code needs none.
verify_account_code(acc, code) == acc.code = "none" \/ code = acc.code

\* The account a reply proves: a sequence of one, or empty when it is refused.
verify_eth_get_proof(root, a, reply) ==
  LET acc == verify_account_proof(root, a, reply.nodes)
  IN IF /\ reply.addr = a
        /\ Len(reply.nodes) <= MAX_PROOF_NODES
        /\ Len(reply.entries) <= MAX_PROOF_STORAGE_ENTRIES
        /\ \A i \in DOMAIN reply.entries : Len(reply.entries[i].nodes) <= MAX_PROOF_NODES
        /\ acc = <<reply.claim>>
     THEN acc ELSE <<>>

\* The value of slot s: the first entry for s is the one that is verified.  Under an empty
\* root there is nothing to verify.
verify_storage_slot(acc, s, entries) ==
  LET e == entries[CHOOSE i \in DOMAIN entries :
                     entries[i].key = s /\ \A j \in 1 .. i - 1 : entries[j].key # s]
      v == verify_storage_proof(acc.root, s, e.nodes)
  IN CASE acc.root = EMPTY_TRIE_ROOT -> <<0>>
       [] acc.root # EMPTY_TRIE_ROOT -> IF v = <<e.value>> THEN v ELSE <<>>

Put(f, k, v) == [x \in DOMAIN f \cup {k} |-> IF x = k THEN v ELSE f[x]]

\* One more entry of a reply.
Entry(acc, entries, st, e) ==
  CASE st.err # "" -> st
    [] st.err = "" /\ e.key = Wide -> [st EXCEPT !.err = "proof"]
    [] st.err = "" /\ e.key # Wide ->
         LET v == verify_storage_slot(acc, e.key, entries)
         IN IF v = <<>> THEN [st EXCEPT !.err = "proof"]
            ELSE IF Cardinality(DOMAIN st.slots) >= MAX_PROOF_STORAGE_KEYS
                    /\ e.key \notin DOMAIN st.slots
            THEN [st EXCEPT !.err = "budget"]
            ELSE [st EXCEPT !.slots = Put(@, e.key, v[1])]

\* The slots that were loaded before are forgotten.
Held_Fresh(d, a) == <<>>

Held(d, a) == IF a \in DOMAIN d THEN d[a].slots ELSE <<>>

\* The first account over the limit let in.
Full_OneMore(d, a) == a \notin DOMAIN d /\ Cardinality(DOMAIN d) > MAX_CALL_ACCOUNTS

Full(d, a) == a \notin DOMAIN d /\ Cardinality(DOMAIN d) >= MAX_CALL_ACCOUNTS

\* The entries of a reply taken in one by one, on top of the slots held.
TakeIn(acc, entries, held) ==
  LET st[i \in 0 .. Len(entries)] ==
        IF i = 0 THEN [err |-> "", slots |-> held] ELSE Entry(acc, entries, st[i - 1], entries[i])
  IN st[Len(entries)]

load_proven_account(d, a, acc, reply) ==
  LET st == TakeIn(acc, IF acc.root = EMPTY_TRIE_ROOT THEN <<>> ELSE reply.entries, Held(d, a))
  IN CASE ~verify_account_code(acc, reply.code) -> Bad("proof")
       [] verify_account_code(acc, reply.code) /\ Full(d, a) -> Bad("budget")
       [] OTHER -> IF st.err # "" THEN Bad(st.err)
                   ELSE [err |-> "", db |-> Put(d, a, [info |-> acc, slots |-> st.slots])]

fetch_and_load(root, d, a, slots, reply) ==
  LET acc == verify_eth_get_proof(root, a, reply)
  IN CASE Cardinality(slots) > MAX_PROOF_STORAGE_KEYS -> Bad("budget")
       [] Cardinality(slots) <= MAX_PROOF_STORAGE_KEYS /\ acc = <<>> -> Bad("proof")
       [] OTHER -> load_proven_account(d, a, acc[1], reply)

-----------------------------------------------------------------------------
(* What a provider may reply when asked for account a and slots.           *)

Truth(w, a, slots) ==
  LET acc == State[w][a]
  IN [addr |-> a, nodes |-> ProofOf(StateRoot[w], AccountKey[a]), claim |-> acc, code |-> acc.code,
      entries |-> [i \in 1 .. Len(slots) |->
                     [key |-> slots[i], nodes |-> ProofOf(acc.root, SlotKey[slots[i]]),
                      value |-> w[a].store[slots[i]]]]]

\* The chain's tries are no deeper than a proof may be long, and a reply may hold what may be asked.
ASSUME ProofsFit ==
  /\ MAX_PROOF_STORAGE_KEYS <= MAX_PROOF_STORAGE_ENTRIES
  /\ {MAX_PROOF_NODES, MAX_PROOF_STORAGE_ENTRIES} \subseteq Nat
  /\ \A w \in Worlds, a \in Accounts :
       /\ Len(ProofOf(StateRoot[w], AccountKey[a])) <= MAX_PROOF_NODES
       /\ \A s \in Slots : Len(ProofOf(State[w][a].root, SlotKey[s])) <= MAX_PROOF_NODES

StateNodes == UNION {NodesOf(StateRoot[w]) : w \in Worlds}

StorageNodes == UNION {NodesOf(State[w][a].root) : w \in Worlds, a \in Accounts}

StateProofs == BoundedSeq(StateNodes, MAX_PROOF_NODES)

Entries == [key : Slots \cup {Wide}, nodes : BoundedSeq(StorageNodes, 2), value : Values]

\* The true reply with one part changed, and the true reply of any state.
Replies(a, slots) ==
  LET t == Truth(world, a, slots)
  IN {[t EXCEPT !.nodes = p] : p \in StateProofs}
     \cup {[t EXCEPT !.claim = State[w][b]] : w \in Worlds, b \in Accounts}
     \cup {[t EXCEPT !.addr = b] : b \in Accounts}
     \cup {[t EXCEPT !.code = c] : c \in {w[b].code : w \in Worlds, b \in Accounts}}
     \cup {[t EXCEPT !.entries = es] :
             es \in UNION {{<<e>>, <<e>> \o t.entries, t.entries \o <<e>>} : e \in Entries}}
     \cup {[t EXCEPT !.entries = <<>>]}
     \cup {Truth(w, a, slots) : w \in Worlds}

-----------------------------------------------------------------------------
(* Running a call.  A run is a sequence of reads, each from what is loaded *)
(* (ReadDb) or, for the properties, from the chain's state (ReadWorld).    *)
(* It first reads the caller, the callee and the coinbase.                 *)

Got(v) == [st |-> "", val |-> v]

Miss(kind) == [st |-> kind, val |-> 0]

\* The account of a precompile that holds bal.
Native(bal) == [empty_account EXCEPT !.bal = bal, !.code = "native"]

HashOf(n) == <<"hash", n>>

Expired(n) == n >= Number \/ n + BLOCKHASH_WINDOW < Number

\* A precompile the local EVM lacks read as what its proof shows: an empty account.
basic_Empty(d, a, spec) ==
  CASE a \in Precompiles -> Got(IF precompile_kind(a, spec) = "Local" THEN Native(0) ELSE empty_account)
    [] a \in DOMAIN d -> Got(d[a].info)
    [] a \notin Precompiles \cup DOMAIN d -> Miss("missing")

basic(d, a, spec) ==
  LET kind == precompile_kind(a, spec)
  IN CASE kind = "Unsupported" -> Miss("unsupported")
       [] kind = "Local" -> Got(Native(0))
       [] kind = "Account" /\ a \in DOMAIN d -> Got(d[a].info)
       [] kind = "Account" /\ a \notin DOMAIN d -> Miss("missing")

storage(d, a, s) ==
  CASE a \notin DOMAIN d -> Miss("missing")
    [] a \in DOMAIN d /\ s \in DOMAIN Held(d, a) -> Got(d[a].slots[s])
    [] a \in DOMAIN d /\ s \notin DOMAIN Held(d, a) ->
         IF d[a].info.root = EMPTY_TRIE_ROOT THEN Got(0) ELSE Miss("missing")

block_hash(n) ==
  CASE Expired(n) -> Got(HashOf(0))
    [] ~Expired(n) /\ n \in Known -> Got(HashOf(n))
    [] ~Expired(n) /\ n \notin Known -> Miss("nohash")

\* What a call of a precompile sees of its account: that it is one.
Callee(got) == IF got.st = "" THEN Got([code |-> got.val.code]) ELSE got

ReadDb(d, spec, op) ==
  CASE op.op = "account" -> basic(d, op.a, spec)
    [] op.op = "native"  -> Callee(basic(d, op.a, spec))
    [] op.op = "slot"    -> storage(d, op.a, op.s)
    [] op.op = "hash"    -> block_hash(op.n)

\* f is what the precompiles hold: Funds[w] on the chain.
ReadWorld(w, f, op) ==
  CASE op.op = "account" /\ op.a \in Precompiles -> Got(Native(f[op.a]))
    [] op.op = "native" -> Callee(Got(Native(f[op.a])))
    [] op.op = "account" /\ op.a \in Accounts -> Got(State[w][op.a])
    [] op.op = "slot" -> Got(w[op.a].store[op.s])
    [] op.op = "hash" -> Got(HashOf(IF Expired(op.n) THEN 0 ELSE op.n))

Account(a) == [op |-> "account", a |-> a]

\* A call looks at the account it calls, and of a precompile at no more than that it is one.
Called(a) == [op |-> IF a \in Precompiles THEN "native" ELSE "account", a |-> a]

\* What a code may do next.
Ops ==
  [op : {"account"}, a : Named] \cup [op : {"native"}, a : Precompiles]
  \cup [op : {"slot"}, a : Accounts, s : Slots]
  \cup [op : {"hash"}, n : Nat] \cup [op : {"gas"}]
  \cup [op : {"stop"}, out : Int, refund : Nat] \cup [op : {"revert"}, out : Int]

\* Anything else is an invalid instruction.
NextOp(r, hist) ==
  CASE Len(hist) = 0 -> Account(r.from)
    [] Len(hist) = 1 -> Called(r.to)
    [] Len(hist) = 2 -> Account(r.coinbase)
    [] OTHER -> LET op == Op(hist[2].code, hist) IN IF op \in Ops THEN op ELSE [op |-> "invalid"]

Start(r, gas) ==
  [hist |-> <<>>, st |-> IF gas < TX_GAS THEN "invalid" ELSE "",
   used |-> TX_GAS, out |-> 0, op |-> Account(r.to), seen |-> {}]

\* One step of a run m (the values read, the gas spent, and how it ended), where got is what
\* a read comes back with.
StepVm(r, gas, m, got) ==
  LET op   == NextOp(r, m.hist)
      cost == IF Len(m.hist) < 3 THEN 0 ELSE 1
  IN CASE m.st # "" -> m
       [] m.st = "" /\ op.op = "stop" ->
            [m EXCEPT !.st = "success", !.out = op.out,
                      !.used = IF op.refund < @ THEN @ - op.refund ELSE 0]
       [] m.st = "" /\ op.op = "revert" -> [m EXCEPT !.st = "revert", !.out = op.out]
       [] m.st = "" /\ op.op = "invalid" -> [m EXCEPT !.st = "halt"]
       [] m.st = "" /\ op.op = "gas" ->
            [m EXCEPT !.hist = Append(@, gas - m.used)]
       [] m.st = "" /\ op.op \in {"account", "native", "slot", "hash"} ->
            IF m.used + cost > gas THEN [m EXCEPT !.st = "halt"]
            ELSE IF got.st # "" THEN [m EXCEPT !.st = got.st, !.op = op]
            ELSE [m EXCEPT !.hist = Append(@, got.val), !.used = @ + cost, !.seen = @ \cup {op}]

transact_call(d, r, gas) ==
  LET m[n \in 0 .. MaxOps] ==
        IF n = 0 THEN Start(r, gas)
        ELSE LET p == m[n - 1]
             IN StepVm(r, gas, p, ReadDb(d, evm_spec_at(r.time), NextOp(r, p.hist)))
  IN m[MaxOps]

OnChain(w, f, r, gas) ==
  LET m[n \in 0 .. MaxOps] ==
        IF n = 0 THEN Start(r, gas)
        ELSE LET p == m[n - 1] IN StepVm(r, gas, p, ReadWorld(w, f, NextOp(r, p.hist)))
  IN m[MaxOps]

-----------------------------------------------------------------------------
(* The request. *)

Nothing == [st |-> "", out |-> 0]

Ans(st, out) == [st |-> st, out |-> out]

Init ==
  /\ world \in Worlds /\ req \in Requests
  /\ pc = "open" /\ queue = <<>> /\ db = <<>> /\ rounds = 0 /\ honest = TRUE
  /\ want = Account(req.to) /\ ans = Nothing
  /\ search = [gas |-> 0, lo |-> 0, hi |-> 0, iters |-> 0]

Fail(err) == pc' = "done" /\ ans' = Ans(err, 0)

Fetch(a, slots) == [a |-> a, slots |-> slots]

access_list_within_caps(list) ==
  /\ Len(list) <= MAX_CALL_ACCOUNTS
  /\ \A i \in DOMAIN list : Len(list[i].slots) <= MAX_PROOF_STORAGE_KEYS
  /\ FoldLeft(LAMBDA n, e : n + Len(e.slots), 0, list) <= MAX_PROOF_STORAGE_KEYS

\* seed_call_accounts, seed_access_list: no address twice among the first three.
Seeds(r) ==
  LET unless(a, seen) == IF a \in seen THEN <<>> ELSE <<Fetch(a, <<>>)>>
  IN unless(r.to, {}) \o unless(r.from, {r.to}) \o unless(r.coinbase, {r.to, r.from}) \o r.list

Plain(a) == precompile_kind(a, evm_spec_at(req.time)) = "Account"

\* eth_call_verified, eth_estimate_gas_verified up to the first fetch.
Open ==
  /\ pc = "open"
  /\ \/ /\ req.large \/ ~access_list_within_caps(req.list)
        /\ Fail("invalid")
        /\ UNCHANGED queue
     \/ /\ ~req.large /\ access_list_within_caps(req.list)
        /\ pc' = "seed" /\ queue' = Seeds(req)
        /\ UNCHANGED ans
  /\ UNCHANGED <<world, req, db, want, rounds, search, honest>>

NoReply ==
  /\ \/ pc = "seed" /\ queue # <<>> /\ Plain(Head(queue).a)
     \/ pc = "fetch"
  /\ Fail("upstream") /\ honest' = FALSE
  /\ UNCHANGED <<world, req, queue, db, want, rounds, search>>

\* A precompile has nothing to load.
Skip ==
  /\ pc = "seed" /\ queue # <<>> /\ ~Plain(Head(queue).a)
  /\ queue' = Tail(queue)
  /\ UNCHANGED <<world, req, pc, db, want, rounds, search, ans, honest>>

Seed ==
  /\ pc = "seed" /\ queue # <<>> /\ Plain(Head(queue).a)
  /\ LET f == Head(queue)
     IN \E r \in Replies(f.a, f.slots) :
          \E got \in {fetch_and_load(StateRoot[world], db, f.a, ToSet(f.slots), r)} :
            /\ honest' = (honest /\ r = Truth(world, f.a, f.slots))
            /\ \/ got.err # "" /\ Fail(got.err) /\ UNCHANGED db
               \/ got.err = "" /\ db' = got.db /\ UNCHANGED <<pc, ans>>
  /\ queue' = Tail(queue)
  /\ UNCHANGED <<world, req, want, rounds, search>>

\* The first run, at all the gas the request may have.
StartRun ==
  /\ pc = "seed" /\ queue = <<>>
  /\ search' = [search EXCEPT !.gas = call_gas(req)]
  /\ \/ /\ req.kind = "estimate" /\ call_gas(req) < TX_GAS
        /\ Fail("halt")
     \/ /\ req.kind = "call" \/ call_gas(req) >= TX_GAS
        /\ pc' = "run" /\ UNCHANGED ans
  /\ UNCHANGED <<world, req, queue, db, want, rounds, honest>>

slot_is_proven(d, a, s) == d[a].info.root = EMPTY_TRIE_ROOT \/ s \in DOMAIN d[a].slots

\* The fetch of what a run missed.  A slot that was asked for and left out ends the call.
FetchMissing ==
  /\ pc = "fetch"
  /\ LET slots == IF want.op = "slot" THEN <<want.s>> ELSE <<>>
     IN \E r \in Replies(want.a, slots) :
          \E got \in {fetch_and_load(StateRoot[world], db, want.a, ToSet(slots), r)} :
            /\ honest' = (honest /\ r = Truth(world, want.a, slots))
            /\ \/ got.err # "" /\ Fail(got.err) /\ UNCHANGED db
               \/ /\ got.err = "" /\ db' = got.db
                  /\ IF want.op = "slot" => slot_is_proven(got.db, want.a, want.s)
                     THEN pc' = "run" /\ UNCHANGED ans ELSE Fail("omitted")
  /\ UNCHANGED <<world, req, queue, want, rounds, search>>

\* The gas the first run used taken for gas that is too little.
FirstLo_Used(used) == used

\* The first run's gas, less one, is too little.
FirstLo(used) == IF used = 0 THEN 0 ELSE used - 1

\* The search after a run at its gas: m.  hi is 0 before the first run is over.
Narrowed(s, m) ==
  LET hint == FirstLo(m.used)
  IN CASE s.hi = 0 -> [s EXCEPT !.lo = hint, !.hi = s.gas]
       [] s.hi # 0 /\ m.st = "success" ->
            [s EXCEPT !.hi = s.gas, !.lo = IF hint > @ /\ hint < s.gas THEN hint ELSE @]
       [] s.hi # 0 /\ m.st # "success" -> [s EXCEPT !.lo = s.gas]

Searching(s) == s.lo + 1 < s.hi /\ s.iters < MAX_ESTIMATE_ITERS

\* estimate_gas_search, after a run: its end, or the next gas to try.
Probe(s) ==
  IF Searching(s)
  THEN /\ search' = [s EXCEPT !.gas = s.lo + (s.hi - s.lo) \div 2, !.iters = @ + 1]
       /\ UNCHANGED <<pc, ans>>
  ELSE /\ pc' = "done" /\ ans' = Ans("success", s.hi)
       /\ search' = s

\* execution_output: a run that came to an end is what the call is answered with.
Finish(m) ==
  /\ pc' = "done" /\ ans' = Ans(m.st, IF m.st \in {"success", "revert"} THEN m.out ELSE 0)
  /\ UNCHANGED search

\* transact_call_proven: one run, and what is missing when it stops at a miss.
Execute ==
  /\ pc = "run"
  /\ \E m \in {transact_call(db, req, search.gas)} :
       \/ /\ m.st = "missing" /\ rounds >= MAX_PROOF_ROUNDS
          /\ Fail("budget") /\ UNCHANGED <<want, rounds, search>>
       \/ /\ m.st = "missing" /\ rounds < MAX_PROOF_ROUNDS
          /\ rounds' = rounds + 1 /\ want' = m.op /\ pc' = "fetch" /\ UNCHANGED <<ans, search>>
       \/ /\ m.st \in {"nohash", "unsupported"}
          /\ Fail(m.st) /\ UNCHANGED <<want, rounds, search>>
       \/ /\ m.st \in {"success", "revert", "halt", "invalid"}
          /\ IF req.kind = "call" \/ (search.hi = 0 /\ m.st # "success")
             THEN Finish(m) ELSE Probe(Narrowed(search, m))
          /\ UNCHANGED <<want, rounds>>
  /\ UNCHANGED <<world, req, queue, db, honest>>

Next == Open \/ NoReply \/ Skip \/ Seed \/ StartRun \/ FetchMissing \/ Execute

Spec == Init /\ [][Next]_vars

-----------------------------------------------------------------------------
(* Properties. *)

Ran(r) == r.st \in {"success", "revert", "halt", "invalid"}

\* The caps hold whatever the provider sends and the call reads: accounts and
\* slots loaded, proof rounds of the whole call or estimate, probes.
TypeOK ==
  /\ pc \in {"open", "seed", "run", "fetch", "done"}
  /\ DOMAIN db \subseteq Accounts /\ Cardinality(DOMAIN db) <= MAX_CALL_ACCOUNTS
  /\ \A a \in DOMAIN db : /\ DOMAIN db[a].slots \subseteq Slots
                           /\ Cardinality(DOMAIN db[a].slots) <= MAX_PROOF_STORAGE_KEYS
  /\ rounds \in 0 .. MAX_PROOF_ROUNDS /\ search.iters \in 0 .. MAX_ESTIMATE_ITERS
  /\ search.lo <= search.hi

\* Whatever proofs a provider sends, what is loaded is what the state under the
\* sealed root holds: no account or slot is taken for absent or zero that is not.
LoadedIsTrue ==
  \A a \in DOMAIN db : /\ db[a].info = State[world][a]
                       /\ \A s \in DOMAIN db[a].slots : db[a].slots[s] = world[a].store[s]

\* All that request r reads in state w at any gas it may be run with, and what of it needs a proof.
Reads(w, f, r) == UNION {OnChain(w, f, r, g).seen : g \in 0 .. call_gas(r)}

Proved(w, f, r) == {op \in Reads(w, f, r) : op.op # "hash" /\ op.a \in Accounts}

\* Does the run look at the balance of a precompile that holds one (BALANCE, EXTCODEHASH, a call
\* with value)?  The local EVM has an empty account there, and answers with that.
LooksAtFunds ==
  \E op \in Reads(world, Funds[world], req) :
    op.op = "account" /\ op.a \in Precompiles /\ Funds[world][op.a] # 0

\* A call that is answered is answered with what the chain's own run gives at the
\* gas the chain would allow, in however many rounds it was put together.
AnswersTrue ==
  pc = "done" /\ req.kind = "call" /\ Ran(ans) /\ ~req.large
  /\ access_list_within_caps(req.list)
    => LET m == OnChain(world, Funds[world], req, call_gas(req))
       IN ans.st = m.st /\ (m.st \in {"success", "revert"} => ans.out = m.out)

\* The gas up to the cap at which the call succeeds on the chain.
Enough == {g \in TX_GAS .. call_gas(req) : OnChain(world, Funds[world], req, g).st = "success"}

\* More gas does not make the call fail, nor changes what it spends.
Steady ==
  /\ \A g \in Enough : g .. call_gas(req) \subseteq Enough
  /\ \A g, h \in Enough :
       OnChain(world, Funds[world], req, g).used = OnChain(world, Funds[world], req, h).used

\* An estimate is gas at which the call succeeds on the chain and, for a call whose course does
\* not depend on its gas, the least such gas: not what the run with all the gas used.
EstimateExact ==
  pc = "done" /\ req.kind = "estimate" /\ ans.st = "success" =>
    ans.out \in Enough /\ (Steady => \A g \in Enough : ans.out <= g)

\* Does the fetch f of the seeding bring what op reads?
Covers(f, op) == f.a = op.a /\ (op.op = "slot" => op.s \in ToSet(f.slots))

\* The reads that cost a round, the accounts, and the slots of an account that a request needs.
Later(w, f, r) == {op \in Proved(w, f, r) : \A e \in ToSet(Seeds(r)) : ~Covers(e, op)}

Needed(w, f, r) == Accounts \cap ({e.a : e \in ToSet(Seeds(r))} \cup {op.a : op \in Proved(w, f, r)})

NeededOf(w, f, r, a) ==
  {s \in Slots : \/ \E e \in ToSet(Seeds(r)) : e.a = a /\ s \in ToSet(e.slots)
                 \/ \E op \in Proved(w, f, r) : op.op = "slot" /\ op.a = a /\ op.s = s}

WithinLimits(w, f, r) ==
  /\ Cardinality(Later(w, f, r)) <= MAX_PROOF_ROUNDS
  /\ Cardinality(Needed(w, f, r)) <= MAX_CALL_ACCOUNTS
  /\ \A a \in Needed(w, f, r) : Cardinality(NeededOf(w, f, r, a)) <= MAX_PROOF_STORAGE_KEYS

\* What a call with a provider that tells the truth may end with: no refusal of a proof; no budget
\* unless it needs more than the limits allow, what its access list brings not counted as rounds;
\* no want of a precompile or a block hash unless it reads one.
Served(w, f, r, st) ==
  /\ st \notin {"proof", "omitted", "upstream"}
  /\ st = "unsupported" =>
       \E op \in Reads(w, f, r) : /\ op.op \in {"account", "native"}
                                  /\ precompile_kind(op.a, evm_spec_at(r.time)) = "Unsupported"
  /\ st = "nohash" => \E op \in Reads(w, f, r) : op.op = "hash" /\ ~Expired(op.n) /\ op.n \notin Known
  /\ st = "budget" => ~WithinLimits(w, f, r)

\* With a provider that tells the truth a call is not refused for its proofs, and it runs out of
\* budget only when it really needs more than the limits allow (transact_call_proven).
HonestIsServed == pc = "done" /\ honest /\ ~LooksAtFunds => Served(world, Funds[world], req, ans.st)

\* What is loaded is true and within the caps, whatever the provider sends and the call reads
\* (load_proven_account, fetch_and_load).
LoadedWithinCaps == TypeOK /\ LoadedIsTrue

\* A call's result and an estimate are those of the chain (eth_call_verified,
\* eth_estimate_gas_verified), for a run that does not look at a precompile's own balance.
ResultTrue == ~LooksAtFunds => AnswersTrue /\ EstimateExact
=============================================================================
