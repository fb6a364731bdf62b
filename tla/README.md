# helios-bsc in TLA+

helios-bsc is a light client for BNB Smart Chain. It walks headers from a trusted
checkpoint, checks each one against the Parlia sealing rules it tracks in a *snapshot*,
follows reorganisations, and serves JSON-RPC reads that it proves against the verified
state roots. It keeps its verified tip in a file, asks untrusted providers for everything
else, and has a soak runner that gates releases.

Paths in this file are relative to the repository. Every definition that models code is
listed with its source lines under `map` in `PROJECT.json`.

## 1. Inventory

| Component | State | Operations | Interacts with | Hard part | Module |
|---|---|---|---|---|---|
| Fork table (`helios-bsc-config`) | none | `params_at`, `miner_history_check_len`, `attestation_target_window` | snapshot, seal checks | boundaries between forks | `Snapshot` (partly) |
| Snapshot (`consensus/snapshot.rs`) | sealing set, pending switch, recents, vote sets, attestation, ancestors | `from_checkpoint`, `seed_turn_length`, `apply_header` | called by the sync loop | order of the effects of one header; votes that straddle a switch; a refused header that leaves something behind | `Snapshot`, `SnapshotWalk` |
| Votes (`consensus/vote.rs`) | none | decode, quorum, source and target rules | snapshot | which set a vote is checked against | `Snapshot` |
| Seal checks (`consensus/seal.rs`) | none | `verify_seal_coinbase`, `verify_cascading_vs_parent`, `verify_out_of_turn_backoff` | snapshot, sync | clock and gas-limit rules that compare with a block the header may not build on | `Snapshot`, `NodeSync` (partly) |
| Bootstrap (`sync.rs`, `consensus/lib.rs`) | the checkpoint | `seed_epoch_state`, `epoch_seed_at`, `walk_from_checkpoint` | snapshot, upstream | what a checkpoint cannot carry | `Bootstrap` |
| Sync loop (`rpc_server.rs`, `sync.rs`) | chain, snapshot, rollback points, published view | `refresh_now`, `resync_locked`, `recover_from_link_break`, `record_rollback` | HTTP workers, the poller, upstream | heights sampled outside the lock, torn batches, recovery | `NodeSync` |
| Checkpoint store and writer (`rpc_server.rs`, `sync.rs`, `main.rs`) | a file, `persist_lock` | `persist_verified_tip`, `atomic_write`, `write_checkpoint`, `load_checkpoint` | sync loop, bootstrap, the operator | a death between two file operations; two writers; the set in force near an activation | `Store` |
| Coalescing, view, gauges, dispatch, HTTP (`rpc_server.rs`, `http.rs`, `helios-bsc-rpc`) | four locks, view, gauges | `refresh`, `published_if_fresh`, `serve_one`, `dispatch`, `dispatch_caught`, `handle`, `status_fields`, `metrics_text` | every handler | panics, poisoned locks, publication in several steps | `Server` |
| Read handlers (`rpc_server/*.rs`) | none | state, blocks, receipts, calls, logs, pass-through, send | view, chain, upstream | chain replaced between two looks; lists left out; labels nobody proves | `Reads` |
| Filters (`rpc_server/logs.rs`) | up to 64 cursors with a time to live | install, poll, uninstall | sync loop | the cursor is read and written in two critical sections | `Filters`, `FilterFeed` |
| Upstream (`upstream.rs`) | none | attempts, batches, slower modes, failover | everything | late, lost, reordered, repeated replies | `Upstream` |
| Proofs and tries (`execution/mpt.rs`, `proof.rs`, `ordered_trie.rs`) | none | `verify_trie_proof`, account and storage proofs, ordered roots | reads, calls | exclusion proofs, inlined nodes, cut-off proofs | `Trie` |
| Verified call (`execution/call.rs`) | `ProofDb`, rounds | seed, run, fetch what was missed, run again; estimate | `Reads`, `Trie` | limits, absent versus unknown, the search for the least gas | `Call` |
| Soak runner, diff tool (`main.rs`, `soak_state.rs`, `diff.rs`) | a state file | sessions, rounds, bursts, verdict | the client, an oracle | a death between the saves | `Soak` |

What makes each correct: the snapshot counts exactly the seals Parlia counts, adopts only
votes of a quorum of the right set, switches sets at the right block and never moves
finality back; the bootstrap ends with the snapshot a full node has, or refuses; the sync
loop keeps chain, snapshot and rollback points in step and ends on the upstream's branch;
the file is whole at every moment; an answer is true of one block of the node's chain,
whatever a provider says; a filter passes nothing over; nobody waits for ever.
`PROJECT.json` lists the hazards one by one with the line where each bites.

## 2. Modules

`Snapshot` holds no variables: it is the snapshot as operators. A snapshot is a record with
the fields of the Rust struct; `Accepts(s, h)` is the conjunction of the checks of
`apply_header`, `Apply(s, h)` its effect, `Refuse(s, h)` what a refused header leaves behind
(the code prunes `recents` before its last checks). Addresses are numbers, so that the address
order is `<`. BLS and ECDSA are replaced by what they establish: the recovered signer and the
set of keys that signed. Two modules extend it:

* `SnapshotWalk`: one snapshot (`snap`) walks headers an upstream offers (`AcceptHeader`,
  `RefuseHeader`); `history` remembers the newest `Horizon` headers and is read by properties only.
* `Bootstrap`: an honest chain is sealed block by block; `full` is the snapshot of a full node,
  `boot` the client's, seeded by `Start` or `Restart` from a checkpoint of the current block and
  two epoch headers. Every difference between them comes from what the checkpoint does not carry.

`NodeSync` is the sync loop over a fixed tree of blocks. A snapshot is named by the block it
stands at; blocks have clocks and gas limits, which `verify_cascading_vs_parent` compares. `tip[w]` is the height thread `w` sampled before it took the lock (`SampleTip`);
`SyncWithSnapshot`, `SyncTooFar` and `SyncLookback` are the critical section of `refresh_now`,
recovery, rollback point and publication included. A process starts with a checkpoint or
without one. The upstream moves to a heavier branch at any time (`MoveCanon`); an answer
may join blocks of two branches, contain a bad block, or fail.

`Store` is the checkpoint file. `file` is what the name designates, `disk` what a power loss may
leave of it; each writer (`job[w]`) goes through create, write, sync, rename and directory sync as
single actions, behind `persist_lock` for the node's threads and without it for the operator, who may run
`write-checkpoint` again at any time, over an older file and beside a running node: nothing keeps the two apart.
`Kill`, `PowerLoss` and the boot come between any two of them.

`Filters` is the filter store and its workers; each stretch of a poll between two locks is an
action. It has a history variable `feed` and implements `FilterFeed`, which says what a client may
rely on: an id names one filter, a log filter reports an unbroken stretch from its first block.

`Server` is what threads share: the four locks (taken in the order persist, chain, snapshot, finality)
with their poisoning, the gauges as single stores and loads, the view, the tip that a sync persists after
it has published (a node with a checkpoint store, as the runbooks set it up), requests from the socket to the reply with batches and
notifications, and a panic in any handler or in the middle of a sync.

`Reads` follows one request through its handler: the claim of a head, the resolution of the
block under the chain lock, replies of a provider that may say anything, the binding to
sealed roots. Other threads are the action `Sync`, which may replace the chain in between.

`Upstream` follows one request of the node through groups of posts in flight at once, with
attempts, batches, slower modes and the backup.

`Trie` builds and walks Patricia tries with inlined and hashed nodes; `Call` extends it with
`ProofDb`, the proof rounds and the estimate: `Open` checks the request and queues the accounts it names,
`Seed` proves and loads one of them, `Skip` passes over a precompile, `Execute` runs the call on what is
loaded, `FetchMissing` proves what the run missed. The EVM is a machine that reads (`StepVm`): what it
reads next may depend on all it has read, so a call needs several rounds. `transact_call` is its run on
`ProofDb`, `OnChain`, which the properties compare it with, the run on the whole state, in which a precompile
may hold a balance (`Funds`).

`Soak` is the runner: sessions, rounds, bursts, saves, a kill between any two steps, resumption
and the verdict; outcomes of single comparisons are free.

`MC...` modules give the constants their values; `...Proofs` modules hold the theorems (section 5).
How the modules fit: `NodeSync` takes "the snapshot accepts this child" from `Snapshot` as a set of good
blocks; `Server`, `Filters` and `Reads` take "a sync moves the chain" from `NodeSync`; `Reads` takes
"a list binds to its root" and "a proof is of its root" from `Trie`; `Store` takes "a start is refused
inside an activation window" from `Bootstrap`, and `Soak` takes "a file is replaced in one step" from
`Store`.

An operator `X_Something` is a plausible mistake in `X`, kept beside it; nothing uses it, and
`PROJECT.json` (`mutants`) says which property it breaks. A property that is a conjunction of
named parts has a mistake for each part.

## 3. Runs

| Run | States | Properties |
|---|---|---|
| `SnapshotWalk` | 63,076 | `TypeOK`, `SealLimit`, `AdoptedVotesAreQuorum`, `JustifiedIsWalked`, `FinalityAdvances`, `ActivationOnSchedule` |
| `Bootstrap` | 81,394 | `NeverWedged`, `RefusesExactlyPending`, `Converges` |
| `NodeSync` | 4,504 | `InStep`, `ReorgRecoverable`, `HeadNeverRegresses`, `FollowsWithinDepth`, `CatchesUp` |
| `Filters` | 310,897 | `StoreExact`, `RefinesFeed`, `Answered` |
| `Store` | 4,748,620 | `FileSound`, `WrittenBoots`, `AnchorKept`, `NeverBackwards` |
| `Soak` | 1,356,204 | `AccountTrue`, `FullTimeCounts` |
| `Reads` | 562,978 | `Truthful`, `NeverReverted`, `OneChain`, `PassedIsBound`, `HonestIsServed`, `Answered` |
| `Upstream` | 214,439 | `OneRange`, `RawsInOrder`, `HealthyIsEnough`, `ComesBack` |
| `Server` | 99,552 | `PublishedInOrder`, `NeverMixed`, `AnswersMatch`, `ServedForEver` |
| `Call` | 1,753 | `LoadedWithinCaps`, `ResultTrue`, `HonestIsServed` |
| `SoakForgets` | violation | `PassMeansNoDifference` |
| `NodeSyncClock` | violation | `EveryReorgRecovers` |

**Snapshot.** `SealLimit`: `recents` answers what the blocks on the chain say
(`RecentsFaithful`), so nobody seals more than a turn in a window (`NoOverSealing`).
`AdoptedVotesAreQuorum`: an adopted vote was signed by two thirds of the set in force below its
target. `JustifiedIsWalked`, `FinalityAdvances`: heads name walked blocks and move only as the
protocol allows. `ActivationOnSchedule`: sets switch exactly where Parlia's rule, stated
without a pending record, switches them.

**Bootstrap.** `NeverWedged`: the client accepts what the full node accepted. `Converges`: schedule
(`SameSchedule`), seal limits (`HistoryConverges`) and justified head (`JustifiedAgrees`) are the
full node's, from the first block, the first full window and the first vote on.
`RefusesExactlyPending`: a start is refused exactly while a switch is announced and not done.

**Sync loop.** `InStep`: chain and snapshot end at the same block, the chain is one branch
(`Aligned`), rollback points ascend and lie on it (`RollbacksOnChain`). `ReorgRecoverable`: while a
retained point is on the upstream's branch, an untorn sync succeeds, unless the clock or the gas limit of the last
block or of a retained point hides the fork (`CascadeHides`; without that exception it is
`EveryReorgRecovers`, which the code's comment claims and `NodeSyncClock` refutes).
`HeadNeverRegresses`, `FollowsWithinDepth`, and under fairness `CatchesUp`: the chain ends level with
the upstream, unless its branch is out of reach (`OutOfReach`).

**Store.** `FileSound`: the name designates nothing or a whole checkpoint (`NeverTruncated`) with the
set that seals its block (`SetInForce`), and the lock is held only while a thread writes.
`AnchorKept`: once durable, there always is one. `NeverBackwards`: no node replaces what a node
wrote by an older block; only a power loss, or the operator, makes the file older. `WrittenBoots`: what the operator writes can be started from.

**Filters.** `StoreExact`: the store is within its limit, and the cursor is what has been reported
while polls do not overlap. `RefinesFeed`: the refinement. `Answered`: halving ends.

**Server.** `PublishedInOrder`: between two holders of the chain lock, gauges and view are of the
newest sync. `NeverMixed`: no status of two syncs, nothing from a chain a panic left half
changed. `AnswersMatch`: a batch is answered member by member. `ServedForEver`: no thread is
lost, none waits for ever.

**Reads.** `Truthful`: answers and labels are true. `NeverReverted`, `OneChain`: the blocks answered
from are of one branch and stay on the chain. `PassedIsBound`: what passes unverified is
the object asked for, and the block whose hash it names is on the node's chain, under the number it names if that is a
string (`v.hex`); without the proviso TLC refutes it (observation 16). `HonestIsServed`: the checks refuse no honest provider. `Answered`.

**Upstream.** `OneRange`: a range is whole, in order and one provider's. `RawsInOrder`.
`HealthyIsEnough`: one good provider suffices. `ComesBack`.

**Call.** `LoadedWithinCaps`: what is loaded is what the root says, within the limits. `ResultTrue`:
results and estimates are the chain's, unless the run looks at the balance of a precompile that holds one
(`LooksAtFunds`; without that exception TLC refutes it, observation 17). `HonestIsServed`: no call is
refused for true proofs, and none runs out of budget that does not need more than the limits allow, with the same exception.

**Soak.** `AccountTrue`: time and comparisons in the file are real and counted once.
`FullTimeCounts`: a full run is not failed as short.

### Bounds

*Snapshot, Bootstrap.* Three validators are the fewest for which a quorum is not everybody; set
sizes 2 and 3 give different committees, turn lengths 1 and 2 different delays and windows. In
`SnapshotWalk` epochs of two blocks become six at a fork, so switches follow each other closely and
the last one, the votes around it and the blocks after it fit below `MaxNumber`; one walk starts
before and one after the change. `Horizon` covers the sealing window and the
vote window. Headers offered: every sealer, both clock outcomes, every admissible vote, and headers
wrong in one respect. `Bootstrap` stops at `MaxHeight`.

*NodeSync.* The tree has two forks, one above and one below the rollback points, a late block, one
that raises the gas limit, and three bad ones. `ROLLBACK_EVERY` 2, `ROLLBACK_KEEP` 2, `KEEP` 5 are in the order of the code (16, 16, 512)
and all reached. `MaxSync` 3 lets the tip run away, and puts the boot checkpoint out of reach of
a replay in the higher branches. Clocks go with heights, but for the late block; gas limits move by less than a tenth,
so that the two blocks that move it in opposite directions are too far apart from each other and not from their parents.

*Store.* Two threads (symmetric) and the operator, who writes twice: once before the first start and once
over a file in use. Epochs of four blocks with delays 1 and 2, `MaxHead` 11, one reorganisation,
two crashes: a crash during the write that follows a crash. *Soak.* Two addresses, one with a call
probe, three sessions, so that a resumed run is resumed again. *Filters.* A limit of one filter and two ids, so that
one is evicted; a span over the cap and a block over it by itself. *Server.* One worker and the
poller are two threads that both sync and publish; each request form once, each screening failure
once, batches with a member skipped in the middle. *Reads.* Two branches that part below the read
heads, blocks with no, one and two transactions, a window of three blocks. *Upstream.* Three
batches, two in flight at once. *Call.* Four accounts and three slots over two-nibble keys give
branches, extensions, inlined leaves and absent keys; the codes need three rounds, more than the
limits, precompiles, block hashes, gas-dependent reads and the balance of a precompile, which one holds in two of
the three states.

Deadlock is not checked where time, ids or sessions run out by a bound, or a request ends.

### Fairness

* `NodeSync`: `WF` on the poller's `SampleTip` (the poll loop runs every 1.8 s); `SF` on a sync of the
  poller that no reorganisation tears, because torn answers need a reorganisation during a
  request and the upstream moves finitely often. None for HTTP workers or the upstream.
* `Filters`, `Reads`, `Upstream`: `WF` on the request under way: every HTTP attempt has a timeout and
  the worker goes on with a reply or an error. None on new requests, syncs or ticks.
* `Server`: `SF` per thread, because a lock is let go again and again (its holders are away for a
  network call or a sleep between two holds) and a waiting thread gets it in the end; `WF` on
  the poller's wake-up. `std::sync::Mutex` promises no order, hence strong fairness and no more.

## 4. Observations

Found while modelling. The first and the sixth have a run. Where an entry names a constant or a proviso, the
passing run excludes the case by it, and TLC shows the counterexample once it is changed.

1. `SoakForgets`: `soak_until` stops at a difference before counting it (`main.rs:1667`), so the state
   file says `mismatched: 0`, and a later, resumed run can end with GATE: PASS: the check at `main.rs:1780`,
   `if tot.mismatched > 0 { bail! }`, finds nothing to fail for. `docs/runbooks/long-soak.md:90` tells the operator to look at `mismatch>0`.
2. Keyless start (`Keyless = TRUE`, `NeverWedged`): without vote keys the BEP-524 prune
   (`snapshot.rs:403`) never runs, so a validator the network lets seal again is refused for good.
   `snapshot.rs:205` says that without keys "nothing else changes".
3. Start on the activation block (`AtActivation = TRUE`, `NeverWedged`): the block that the message at
   `sync.rs:453` recommends. The next header may vote for it with the old set, which the client
   does not know.
4. The first vote after a start is adopted whole even if it is not contiguous
   (`snapshot.rs:371`), which names a finalized block before a full node does; hence `Converges`
   is about the justified head.
5. The epoch length may change at a height that is no boundary of the old length (500 is no
   multiple of 200), contrary to the comment at `snapshot.rs:610`. Historical on mainnet.
6. `NodeSyncClock`: `sync.rs:320` checks clock and gas limit against the last block before the snapshot looks at
   the parent link. After an orphan with a late clock the winning branch looks too early, and after one
   that moved the gas limit it may look out of bounds. `TimestampTooEarly` and `GasLimitBound` are none of the
   phrases of `is_link_err` (the test at `sync.rs:976` has the latter as an example): the recovery is not entered, and
   as every later sync asks for the same height, it never is. A late retained snapshot ends the
   recovery in the same way. `rpc_server.rs:1040` says that a point on the losing branch "fails
   that walk at its first header, and the next one back is tried".
7. A lookback node that has fallen a window behind takes a fresh window of any branch
   (`rpc_server.rs:999`); `FollowsWithinDepth` has that proviso. `config/src/lib.rs:257` states the
   bound without it.
8. A tip persisted between an announcement and its activation (`rpc_server.rs:775`) is refused by
   the next start; `docs/runbooks/proof-fail-storm.md:32` recommends to persist the tip for the sake
   of the restart, without that exception.
9. A block filter that is polled less often than the chain window moves loses hashes without an
   error (`logs.rs:297`).
10. The four gauges are single relaxed stores; a scrape between them (`rpc_server.rs:626`) shows values
    of two syncs. `docs/slo.md:71` calls them "published together".
11. `proof_fail` also counts transport errors of a proof request, while `docs/slo.md:75` reads it as a
    lying upstream.
12. A transaction whose broadcast succeeded and whose reply was lost is sent again
    (`upstream.rs:265`), and the caller may see the provider's "already known" as an error.
13. A provider that stands still looks healthy: nothing compares its height with a clock.
14. In a batch, one panicking member loses the answers of all; a batch of notifications only is
    answered with `[]`. Metrics scrapes share the workers with requests.
15. A block or its receipts may be answered with `[]` when the provider leaves the list out, as
    `docs/rpc-matrix.md:26,34` document; `Truthful` has that exception and no other.
16. Numbers as JSON numbers (`v.hex`, `PassedIsBound`): `bind_mined_object` compares `blockNumber` with the local header only if it is a JSON string
    (`validate.rs:378`); a JSON number goes through unread. `docs/rpc-matrix.md:35` has "`blockNumber` matching
    that header". `blockHash` is compared in either case.
17. Funded precompiles (`LooksAtFunds`, `ResultTrue`): `ProofDb` answers for a precompile with `AccountInfo::default()` (`call.rs:410`), on the ground that
    "no account state is needed" (`call.rs:228`). A precompile's address can hold a balance on the chain; a run that
    looks at it sees an empty account, and its result may differ from a full node's.

## 5. Proofs

Theorems hold for every value of the constants the named assumptions of a module admit. TLC
evaluates the assumptions in the run of the module, and each inductive invariant below
was checked by TLC as an invariant of that run before it was proved.

| Module | Theorem | States |
|---|---|---|
| `ConsensusProofs` | `TypeCorrect` | `WalkSpec => []TypeOK` |
| | `JustifiedOnWalk` | `WalkSpec => []JustifiedIsWalked` |
| | `FinalityNeverRegresses` | `WalkSpec => FinalityAdvances` |
| | `SwitchesOnSchedule` | `WalkSpec => ActivationOnSchedule` |
| | `OneGenerationIsEnough` | `WalkSpec /\ []DelayCoversVotes => []AdoptedVotesAreQuorum` |
| | `SealLimitHolds` | `WalkSpec /\ []HorizonCoversWindow => []SealLimit` |
| | `RefusesOnlyPendingSwitches` | `Spec /\ []LengthSettled /\ []DelayWithinEpoch => []RefusesExactlyPending` |
| | `ScheduleIsRebuilt` | `Spec /\ []LengthSettled /\ []DelayWithinEpoch => []SameSchedule`, a part of `Converges` |
| | `NeverWedges` | `Spec /\ []LengthSettled /\ []DelayWithinEpoch => []NeverWedged`, where `Keyless` and `AtActivation` are false |
| | `ClientConverges` | `Spec /\ []LengthSettled /\ []DelayWithinEpoch => []Converges`, where `Keyless` and `AtActivation` are false |
| `NodeSyncProofs` | `ChainSnapshotInStep` | `Spec => []InStep` |
| | `CoveredReorgsRecover` | `Spec => []ReorgRecoverable` |
| | `PublishedHeadMonotone` | `Spec => HeadNeverRegresses` |
| | `LeavesWithinDepth` | `Spec => FollowsWithinDepth` |
| `FilesProofs` | `FileAlwaysSound` | `Spec => []FileSound` |
| | `WrittenAlwaysBoots` | `Spec => []WrittenBoots` |
| | `AnchorNeverLost` | `Spec => AnchorKept` |
| | `FileNeverBackwards` | `Spec => NeverBackwards` |
| | `AccountAlwaysTrue` | `SoakSpec => []AccountTrue` |
| | `FullTimeAlwaysCounts` | `SoakSpec => FullTimeCounts` |
| `FiltersProofs` | `StoreAlwaysExact` | `Spec => []StoreExact` |
| | `FiltersKeepTheirPromise` | `Spec => RefinesFeed`, that is, `Filters` implements `FilterFeed` |
| `ServerProofs` | `AlwaysPublishedInOrder` | `Spec => []PublishedInOrder` |
| | `AnswersNeverMixed` | `Spec => []NeverMixed` |
| | `AnswersAlwaysMatch` | `Spec => []AnswersMatch` |
| `ReadsProofs` | `AnswersStandFast` | `Spec => []NeverReverted` |
| | `AnswersOfOneBranch` | `Spec => []OneChain` |
| | `PassedOnIsBound` | `Spec => []PassedIsBound` |
| | `TrueProviderIsServed` | `Spec => []HonestIsServed` |
| | `AnswersAreTrue` | `Spec => []Truthful`, of every read, log queries included |
| `UpstreamProofs` | `FailsOnlyWithoutHealthy` | `Spec => []HealthyIsEnough` |
| | `RawsComeInOrder` | `Spec => []RawsInOrder` |
| | `SyncGetsOneRange` | `Spec => []OneRange` |
| `CallProofs` | `TrieProofsSound` | what `verify_trie_proof` accepts from the root of a map is true of the map |
| | `TrieProofsComplete` | `verify_trie_proof` accepts the proof a full node builds of a map that is not empty, for a key the map has and for one it lacks |
| | `LoadedAlwaysTrue` | `Spec => []LoadedWithinCaps` |
| | `ResultsAlwaysTrue` | `Spec => []ResultTrue` |
| | `HonestAlwaysServed` | `Spec => []HonestIsServed` |

**Snapshot.** For every validator universe, fork table, checkpoint set and set of offered headers.

* `TypeOK` is inductive because the pending record is typed with a nonempty set and a turn
  above zero, which `EpochExtraPresent` and the header type give.
* `JustifiedIsWalked` is not: a vote is compared with `ancestors`, not with the history. `WalkInv`
  adds that each remembered ancestor is the block the walk applied at that height.
* `FinalityAdvances` follows from `WalkInv`: the source rule ties a new vote to the old
  justified head, `source_below_target` makes it move forward.
* `ActivationOnSchedule` needs that a pending record lies where Parlia's rule would
  switch (`ScheduleInv`): the height is fixed one epoch header earlier than the rule looks at it.
* `AdoptedVotesAreQuorum` needs that the snapshot still has the vote set of every block a vote
  may target (`VoteSetsKept`). The snapshot keeps one earlier generation, which
  `snapshot.rs:212` calls enough; the proof shows what that takes, `DelayCoversVotes`: no set is
  replaced before the votes for its predecessor have run out. For a set of 21 the delay is at
  least 10 blocks and a vote reaches back 3. For fewer than four validators with turn length 1 it does not hold.
* `SealLimit` needs that `recents` holds exactly the sealers of the window that still count
  (`RecentsExact`). The proof corrected the statement: before Maxwell a finalized block does not
  end the count, so the observer notes with each block below which height seals were
  settled (`settled`); the earlier statement used the present finalized block and was too weak.
  `HorizonCoversWindow` is about the observer of the model, not the code: it must remember a window.

**Sync loop.** For every tree of blocks, answers torn anywhere, any number of threads. A chain
is a `Piece`, consecutive blocks of the branch of its last block; following parents leads
back along one branch (`Linked`, by a least counterexample), so a walk makes a longer piece
and a cut leaves one. `NodeInv` adds to `InStep`: in lookback mode there are no rollback points and
at least `MinChain` blocks; sampled heights are above zero; the published head is not above the
chain. `InStep` alone lets a lookback chain shrink, after which the head falls. For
`ReorgRecoverable`: an honest branch, walked untorn, succeeds or breaks the link at its first
header (`HonestWalk`), so the newest retained snapshot that does not break it succeeds.
`NodeConstants` assumes what the boot ensures: a chain that starts has a confirmation-depth head,
which takes `MinChain` blocks at least, and both windows are longer than that head is deep. The
attempt to prove the property without `CascadeHides` led to the first half of observation 6.

**Store.** For any number of threads and any place of a crash. `StoreInv` relates each writer's
step to the temporary file it owns, the lock to its holder, and `disk` to what the name designated
since the last directory sync. `Forward` has a thread write a block between the one a node wrote last and the
tip; a file of the operator's is outside of it, as it may come at any time, so a restart from it begins the order anew.

**Soak.** For every list of addresses, target, number of rounds and sessions, and any place of a crash. `AccountTrue`
is not inductive: nothing in it relates the sessions in memory to the clock. `SoakInv` adds that a run which has
opened a session may add the time since that session's end without claiming more than it spent in its
loop, and that at the deadline it reaches the target (`Running`); a run which has not has the
sessions of the file, and what is left is what they do not cover (`Unopened`). The sum of the sessions
(`soaked_secs`) is a recursive function; a touch or a new session changes it by what the last session gains
(`SoakedLast`, `SoakedAppend`). That such a function exists for a list of any length is
`AlongExists`, by the least length for which it would not.

**Filters.** For any number of threads, ids and heights. `FilterInv` relates each poll under way
to the cursor it read: a cursor that is written back belongs to the filter that was read, or
that filter is gone. With it every step of `Filters` is a step of `FilterFeed` or leaves it alone.

**Server.** For any number of workers, requests and panics. `ServerInv` relates what each thread
has taken from the published state to the lock it held then, and each lock to the steps at which a thread holds it:
a thread that persists holds `persist_lock` while it waits for the chain lock, and none waits the other way round. `NeverMixed` compares a status
field by field with the sync it names. `AnswersMatch`, for batches of any length, rests on
`RepliesSound`: while a worker goes through a batch, the answers it has are those of the members
before the one at hand that expect one, each at the place `Place` counts for it. The
proof showed that two of the alternatives of `Screened` overlapped for a malformed member, a case the code tests first.

**Reads.** For every number of branches, heights, window sizes and replies. `ReadsInv` says what a
request knows at each of its steps: once its block has been found, the block was on the chain, at
or below a read head published before, and while no read head is reverted every later chain agrees
with that one up to the head (`Anchored`), so nothing found can leave the chain. The blocks of a
log range are consecutive blocks of one branch from the moment they are looked up (`OneStretch`).
For `HonestIsServed` and `AnswersAreTrue` the checks of a handler are taken one kind at a time:
what `Bound`, `BoundReceipts` and the proof checks accept is the block's own list, field by field, and what is
true passes each of them. A log query's answer is the
lists of its blocks joined by `FlattenSeq`; each of these lists has been checked against the receipts root of
its block, so it is the block's own, for a range of any length.

**Upstream.** For every batch size, number of attempts, number of transactions and height.
`UpstreamInv` accounts for a request under way: whoever it has given up on was unfit to answer
(`Tried`), a single call that has failed had an unfit provider (`Ended`), and what it has of a
block's raw transactions is the hashes up to the cut where its remaining groups begin (`RawsAt`). A
batch may fail without the provider being unfit, which is why the slower ways are needed; and `hash` may be
refused by anyone, so by then every provider must have failed by number already. `RawsInOrder`
rests on a lemma about batches: `RawsFromBatch` accepts a reply only if, ordered by id, it is
the hashes asked for, and the pieces `Chunks` cuts, one after the other, are the whole list
(`CutsAreBatches`, `HashesJoin`). `OneRange` needs `HeldInv`: whatever way a sync is being served (whole
batches side by side, smaller ones, single headers), the headers it holds are those below the ones it has yet
to ask for, in order and all of the provider it is asking now; what an earlier provider gave is
dropped when the next one is tried. The groups fetched side by side lie end to end, an accepted reply is the
provider's headers at exactly the numbers asked for, and `FlattenSeq` of runs that lie
end to end is one run (by the least place where it is not). Stating it for every constant
showed that the model's set of batch keys was too small for blocks with more transactions than `MaxTip`.

**Bootstrap.** For every chain of headers, sets and turn lengths, and any number of restarts.
`BootstrapInv` says where a full node stands between two epoch headers (`OnSchedule`): the newest set
seals already, or it is pending with the height that the set of the epoch before it fixes, and the old set
seals. This is what the two headers served to `seed_epoch_state` can tell, so the client's comparison
with `ActivateAt` answers exactly whether a switch is pending (`RefusedPending`), and the set,
turn length and switch it starts with are the full node's; from equal schedules one header makes
equal schedules (`SameAfter`). A refused header leaves the client behind for good, hence the conjunct that
it is never ahead of the chain. There are two hypotheses: the epoch length no longer changes
(`LengthSettled`; observation 5 is why it is needed), and a set takes over before the next one is
announced (`DelayWithinEpoch`; 175 blocks of 1000 for 21 validators with turns of 16). `GenesisSettled` assumes
that the chain starts with no switch pending.

`NeverWedged` and the rest of `Converges` compare two snapshots of which the client's begins at its checkpoint.
`FollowInv` says that from `walk_start` on both have the same sealers and ancestors; that the client knows the
vote set before the last switch unless that switch was before its checkpoint; and that its justified head is
the full node's, or none while the full node's lies before the checkpoint. What only the full node
knows cannot decide anything the client enforces: a window the client enforces lies inside its
walk, and a vote can only be for a block whose hash it has. A seal or a vote
that passes with the full node then passes with the client, header by header. The two theorems exclude the
starts of observations 2 and 3 (`Keyless`, `AtActivation`), for which `NeverWedged` is false, and no others.
`GenesisWalked` assumes that the full node has walked the chain before the first block as well.

**Call.** For every state, request, code, length and alphabet of keys, and limit, whatever the provider replies.

* `TrieProofsSound`: a node of the trie is named by its stem, the nibbles above it (`NodeAt`), and the trie
  is a function of stems. At each step of a walk the nibbles walked so far are a stem of the key, and the
  reference that is followed is the one to the node of that stem, or there is no key under it
  (`Refers`, `WalkSound`); each node takes a nibble at least, so `KeyLen + 1` steps end it. Inlined and hashed nodes differ only in
  who supplies the node. A proof cut short, with a node too many or of another key ends as "bad". That a
  hash stands for one node is the assumption made of keccak256.
* `LoadedWithinCaps` then needs that what was loaded earlier stays true while entries are added one by
  one, and that the fetch under way is of an account and not of a precompile.
* `ResultTrue` compares runs. While `ProofDb` is true a run on it goes step by step as the run on the
  chain does, until it stops at a read that it cannot answer (`RunsAlike`), for as long as it does not look at a funded precompile; so a run that comes to an end
  has the chain's result, and a run that stopped is discarded, whatever it had read. For an estimate
  `CallInv` says of a search under way that `hi` suffices on the chain, and that, for a call which is `Steady`,
  nothing up to `lo` does and the distance between them halves with each probe: the search
  has closed before `MAX_ESTIMATE_ITERS` probes, as `CallConstants` has `CALL_GAS_CAP < 2^MAX_ESTIMATE_ITERS`.
* The proof showed what an estimate rests on. The search takes it that more gas never makes a call fail, and `FirstLo`
  that the gas a call spends does not depend on the gas it is given. A contract that looks at its
  remaining gas may break both; then the answer still suffices, which is proved without the condition, but need
  not be the least (`EstimateExact`).

* `TrieProofsComplete`: the proof is what a full node gathers as it goes down the trie (`Climb`). The climb and the
  walk of `verify_trie_proof` keep in step: after the same number of nodes both stand at the same
  reference with the same nibbles left, and what the walk has yet to take is what the climb has yet to
  gather (`InStep`). When the climb ends there is nothing left over, so the walk neither
  runs short nor finds a node too many. The empty map has no proof: `verify_trie_proof` refuses every empty list of
  nodes (`mpt.rs:72`), and the empty storage root is answered before it is called (`proof.rs:250`).
* `HonestIsServed` then follows in three steps. A true reply passes every check and is loaded whole, unless it finds no
  room (`TruthTaken`, `TruthFetched`); room is wanting only when the call needs more accounts or slots than
  the limits allow (`OneMore`). A run stops at a read that the chain's run makes as well (`RunsTrail`), and
  that no seeding brought, so it is one of `Later`. Each round thus loads one more read of `Later`, and none is
  loaded twice: `HonestInv` has `rounds` no larger than the number of those loaded (`Gathered`), over all the probes
  of an estimate.
* The attempt to prove `HonestIsServed` showed that an earlier statement was false beyond the checked
  instance: it let a call read one precompile and be refused for another, and did not tell a read that an access list
  brings, which costs no round, from one that does.

`KeysApart` assumes that keccak256 keeps the keys of the accounts, and of the slots, apart; `StatesTyped` and
`RequestsTyped` are types. `ProofsFit` assumes that the chain's tries are no deeper than `MAX_PROOF_NODES` (32), and
that a reply may hold as many entries as may be asked for (both caps are 64); a deeper trie could not be proved to this client at all.

Where a proof needs induction over numbers, it takes the least member of the set of
counterexamples (`WFMin`). Two things stay with TLC:

* liveness (`CatchesUp`, `Answered`, `ServedForEver`, `ComesBack`): fairness
  and `ENABLED` are out of the prover's reach;
* `EveryReorgRecovers` and `PassMeansNoDifference`, which are false.

## 6. Plan

The safety properties that hold of the models are all proved; what is left to the model checker is listed
above. The next extension would be
`newest_safe`'s counting of distinct sealers, now a fixed distance below the tip.

## 7. Not modelled

* The health probe, `doctor` and `info`: one request and a printed line, without state.
* The types crate and hex conversions; RLP of headers, transactions and receipts, raw
  transaction envelopes, sender recovery; keccak, ECDSA and BLS: byte formats and hash
  functions, entered in the models as the facts they establish.
* `newest_safe`'s counting of distinct sealers: the confirmation-depth head is a fixed distance
  below the tip. In fast mode `safe` is the read head, as in the code.
* Field ranges of headers, fee and SLO constants.
* revm, which is third-party; `diff_vs_oracle` of `probe-safe`; wording of errors and logs.
* The mock upstream and the adversarial tests, which are test code.
