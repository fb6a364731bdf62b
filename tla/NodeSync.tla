------------------------------ MODULE NodeSync ------------------------------
(***************************************************************************)
(* The sync loop of a running node: the verified chain, the snapshot at    *)
(* its end, the rollback points, and the view that is published to         *)
(* readers; what they go through when the canonical chain is reorganised,  *)
(* and when one request straddles the reorganisation.                      *)
(*                                                                         *)
(* bin/helios-bsc/src/rpc_server.rs (refresh_now, resync_locked,           *)
(* recover_from_link_break, record_rollback) and bin/helios-bsc/src/sync.rs*)
(* (append_new_with_snapshot, verify_header_chain_from, is_link_err,       *)
(* accept_lookback_resync, walk_from_checkpoint).                          *)
(*                                                                         *)
(* Abstractions.  Blocks form a fixed tree.  A snapshot is determined by   *)
(* the block it stands at, because it is a function of the branch below    *)
(* it; whether it accepts a child is the child's membership in Good        *)
(* (module Snapshot says what that means).  The block interval and the     *)
(* divisor of the gas limit bound, which depend on the fork a header's     *)
(* number and time are in, are data of the block.  The confirmation-depth  *)
(* head is the block SafeLag below the tip.  The recovery tries its points *)
(* on one set of answers.                                                  *)
(*                                                                         *)
(* Each operator named X_Something is a plausible mistake in X: no         *)
(* definition uses it, and X replaced by it must break a property.         *)
(***************************************************************************)
EXTENDS Integers, Sequences, FiniteSetsExt

CONSTANTS
  Block,
  Path,        \* Path[b]: the blocks from height 1 up to b
  Milli,       \* Milli[b]: the millisecond clock of b
  Gas,         \* Gas[b]: the gas limit of b
  Sealed,      \* the blocks that carry the seal of the miner they name
  Good,        \* those the snapshot at their parent accepts as well
  Weight,      \* Weight[b]: total difficulty of the branch that ends in b
  Interval,    \* Interval[b]: least distance between the clocks of b and its parent
  Divisor,     \* Divisor[b]: of the parent's gas limit, b may move away by less than this part
  MIN_GAS_LIMIT,
  Worker,      \* threads that sync: HTTP workers and the poller
  Poller,      \* the one that syncs without being asked
  None,
  Origin,      \* the checkpoint a process may boot from
  Boots,       \* where the snapshot stands when a process starts: Start, or None without a checkpoint
  Start,       \* the block the bootstrap walk ended at
  MaxSync, Lookback, MaxReorgDepth, ROLLBACK_EVERY, ROLLBACK_KEEP, KEEP, MinChain,
  SafeLag

Number(b) == Len(Path[b])

Parent == [b \in Block |-> IF Number(b) = 1 THEN None ELSE Path[b][Number(b) - 1]]

ASSUME TreeIsConsistent ==
  \A b \in Block :
    /\ Path[b] \in Seq(Block)
    /\ Path[b] # <<>>
    /\ Path[b][Number(b)] = b
    /\ \A i \in 1 .. Number(b) : Path[Path[b][i]] = SubSeq(Path[b], 1, i)

\* verify_cascading_vs_parent: what a block must keep of the clock and the gas limit of the
\* block before it.
Fit ==
  [prev \in Block |-> {b \in Block :
     \/ Gas[prev] = 0
     \/ /\ Milli[b] >= Milli[prev] + Interval[b]
        /\ Gas[b] >= MIN_GAS_LIMIT
        /\ \A diff \in {Gas[b] - Gas[prev], Gas[prev] - Gas[b]} : diff < Gas[prev] \div Divisor[b]}]

Cascades(prev, b) == b \in Fit[prev]

\* The blocks whose whole branch passes every check.
Honest ==
  {b \in Block : \A i \in 1 .. Number(b) :
     /\ Path[b][i] \in Good
     /\ i > 1 => Cascades(Path[b][i - 1], Path[b][i])}

\* A window of Lookback blocks that ends at height `to`, cut off at the root.
WindowStart(to) == Max({1, to - Lookback + 1})

\* Only the newest KEEP blocks stay.
Trim(c) == IF Len(c) > KEEP THEN SubSeq(c, Len(c) - KEEP + 1, Len(c)) ELSE c

\* The confirmation-depth head exists.
HasSafe(c) == Len(c) > SafeLag

\* The chain of a process that has just started, with the snapshot at s.
BootChain(s) ==
  IF s = None THEN SubSeq(Path[Start], WindowStart(Number(Start)), Number(Start))
  ELSE Trim(SubSeq(Path[Start], Number(Origin), Number(Start)))

\* A process that finds no confirmation-depth head does not start, and that head takes
\* MinChain blocks at least (15 distinct sealers above it).
ASSUME NodeConstants ==
  /\ None \notin Block /\ None \notin Nat
  /\ Good \subseteq Sealed
  /\ {Milli, Gas, Interval} \subseteq [Block -> Nat] /\ MIN_GAS_LIMIT \in Nat
  /\ Divisor \in [Block -> Nat \ {0}]
  /\ Start \in Honest
  /\ Poller \in Worker
  /\ \E i \in 1 .. Number(Start) : Path[Start][i] = Origin
  /\ Boots \subseteq {Start, None}
  /\ {MaxSync, Lookback, MaxReorgDepth, KEEP, MinChain, SafeLag} \subseteq Nat
  /\ {ROLLBACK_EVERY, ROLLBACK_KEEP} \subseteq Nat \ {0}
  /\ SafeLag < Lookback /\ SafeLag < KEEP /\ MinChain <= SafeLag + 1
  /\ \A s \in Boots : HasSafe(BootChain(s))

VARIABLES
  canon,       \* the upstream's own head
  chain,       \* verified blocks, oldest first
  snap,        \* the block the snapshot stands at, None in lookback mode
  rollbacks,   \* retained snapshots, oldest first
  tip,         \* tip[w]: the height w read from the upstream, None when idle
  view         \* the published head and confirmation-depth block

vars == <<canon, chain, snap, rollbacks, tip, view>>

LastBlock(c) == c[Len(c)]

LastNumber(c) == Number(LastBlock(c))

FirstNumber(c) == Number(c[1])

-----------------------------------------------------------------------------
(* What an upstream answers. *)

\* A batch that straddles a reorganisation from one branch to another: heights up to `cut`
\* come from the old branch, the rest from the new one.
Served(old, new, cut) ==
  [n \in 1 .. Number(new) |-> IF n <= cut THEN Path[old][n] ELSE Path[new][n]]

\* Every answer of an upstream on a given branch; the empty one is a request that failed.
Answers ==
  [new \in Block |->
     {<<>>} \cup
     UNION {{Served(old, new, cut) : cut \in 0 .. Min({Number(old), Number(new)})} : old \in Block}]

\* The answer an upstream gives when it is asked in a quiet moment.
Settled == Path[canon]

Reaches(ans, to) == to \in DOMAIN ans

-----------------------------------------------------------------------------
(* Checks on one header, and walks over a range of them. *)

\* The checks of append_new_with_snapshot, and of the replay: clock and gas limit against
\* the last block of the chain, the seal, then the snapshot's own checks, parent link first.
SnapshotStep(prev, at, b) ==
  IF ~Cascades(prev, b) \/ b \notin Sealed THEN "other"
  ELSE IF Parent[b] # at THEN "link"
  ELSE IF b \notin Good THEN "other"
  ELSE "ok"

\* The checks of verify_header_chain_from: the seal, the parent link, then the clock and
\* the gas limit.
PlainStep(prev, b) ==
  IF b \notin Sealed THEN "other"
  ELSE IF prev # None /\ Parent[b] # prev THEN "link"
  ELSE IF prev # None /\ ~Cascades(prev, b) THEN "other"
  ELSE "ok"

\* Clock and gas limit are checked after the snapshot has advanced.
Walked_CascadeLast(c, at, ans, to) ==
  LET last == LastNumber(c)
      below(n) == IF n = last + 1 THEN at ELSE ans[n - 1]
      linked(n) == Parent[ans[n]] = below(n) /\ ans[n] \in Good
      unfit(n)  == ~Cascades(IF n = last + 1 THEN LastBlock(c) ELSE ans[n - 1], ans[n])
      bad  == {n \in last + 1 .. to : ~linked(n) \/ unfit(n)}
      upto == IF bad = {} THEN to ELSE Min(bad) - 1
  IN  IF to <= last THEN [chain |-> c, snap |-> at, err |-> "ok"]
      ELSE IF ~Reaches(ans, to) THEN [chain |-> c, snap |-> at, err |-> "other"]
      ELSE [chain |-> c \o SubSeq(ans, last + 1, upto),
            snap  |-> IF bad # {} /\ linked(Min(bad)) THEN ans[Min(bad)] ELSE below(upto + 1),
            err   |-> IF bad = {} THEN "ok"
                      ELSE SnapshotStep(below(Min(bad)), below(Min(bad)), ans[Min(bad)])]

\* Walk the chain c, with the snapshot at block `at`, up to height `to`.  A header that
\* is refused keeps the ones before it.
Walked(c, at, ans, to) ==
  LET last == LastNumber(c)
      below(n, base) == IF n = last + 1 THEN base ELSE ans[n - 1]
      step(n) == SnapshotStep(below(n, LastBlock(c)), below(n, at), ans[n])
      bad  == {n \in last + 1 .. to : step(n) # "ok"}
      upto == IF bad = {} THEN to ELSE Min(bad) - 1
  IN  IF to <= last THEN [chain |-> c, snap |-> at, err |-> "ok"]
      ELSE IF ~Reaches(ans, to) THEN [chain |-> c, snap |-> at, err |-> "other"]
      ELSE [chain |-> c \o SubSeq(ans, last + 1, upto),
            snap  |-> below(upto + 1, at),
            err   |-> IF bad = {} THEN "ok" ELSE step(Min(bad))]

\* append_new_with_snapshot: the walk, and the trim once it has succeeded.
AppendNew(c, at, ans, to) ==
  LET r == Walked(c, at, ans, to)
  IN  [r EXCEPT !.chain = IF r.err = "ok" /\ to > LastNumber(c) THEN Trim(@) ELSE @]

\* verify_header_chain_from over heights from .. to, after the block prev (None for a
\* fresh window): all or nothing.
VerifyHeaderChain(prev, ans, from, to) ==
  LET before(n) == IF n = from THEN prev ELSE ans[n - 1]
      bad == {n \in from .. to : PlainStep(before(n), ans[n]) # "ok"}
  IN  IF ~Reaches(ans, to) THEN [chain |-> <<>>, err |-> "other"]
      ELSE IF bad = {} THEN [chain |-> SubSeq(ans, from, to), err |-> "ok"]
      ELSE [chain |-> <<>>, err |-> PlainStep(before(Min(bad)), ans[Min(bad)])]

\* A link failure read as any other error.
IsLinkErr_Masked(err) == FALSE

IsLinkErr(err) == err = "link"

-----------------------------------------------------------------------------
(* Reorganisations, with a snapshot. *)

\* The part of the chain up to height n.
UpTo(c, n) == SubSeq(c, 1, n - FirstNumber(c) + 1)

\* A retained snapshot is tried when the chain still holds its block.
Usable(point, c, to) ==
  /\ FirstNumber(c) <= Number(point)
  /\ Number(point) <= LastNumber(c)
  /\ Number(point) <= to

Retry(point, c, ans, to) == AppendNew(UpTo(c, Number(point)), point, ans, to)

\* Only the newest point is tried.
SearchEnd_Newest(c, ans, to) ==
  {rollbacks[i] : i \in {k \in DOMAIN rollbacks :
                           /\ k = Len(rollbacks)
                           /\ Usable(rollbacks[k], c, to)
                           /\ ~IsLinkErr(Retry(rollbacks[k], c, ans, to).err)}}

\* recover_from_link_break tries the points newest first, until the walk from one of them
\* no longer breaks a parent link: that point, if there is one.
SearchEnd(c, ans, to) ==
  LET ends == {i \in DOMAIN rollbacks :
                 /\ Usable(rollbacks[i], c, to)
                 /\ ~IsLinkErr(Retry(rollbacks[i], c, ans, to).err)}
  IN  {rollbacks[i] : i \in {k \in ends : \A j \in ends : j <= k}}

\* The points of the branch that lost are kept.
PopAbove_Kept(points, point) == points

\* The points left once the chain has been rewound to `point`.
PopAbove(points, point) ==
  SubSeq(points, 1, Max({0} \cup {i \in DOMAIN points : Number(points[i]) <= Number(point)}))

\* walk_from_checkpoint: the replay from the checkpoint of the boot.
ReplayAllowed(ans, to) ==
  /\ to - Number(Origin) <= MaxSync
  /\ Reaches(ans, to)
  /\ ans[Number(Origin)] = Origin

Replay(ans, to) == AppendNew(<<Origin>>, Origin, ans, to)

\* The number of points is not bounded.
RecordRollback_Uncapped(points, at, floor) ==
  LET kept == SelectSeq(points, LAMBDA p : Number(p) >= floor)
  IN  IF kept = <<>> \/ Number(at) >= Number(LastBlock(kept)) + ROLLBACK_EVERY
      THEN Append(kept, at) ELSE kept

\* record_rollback: forget the points the chain no longer covers, then keep the current
\* state when ROLLBACK_EVERY blocks have passed since the newest point.
RecordRollback(points, at, floor) ==
  LET first == Min({Len(points) + 1} \cup {i \in DOMAIN points : Number(points[i]) >= floor})
      kept  == SubSeq(points, first, Len(points))
      due   == kept = <<>> \/ Number(at) >= Number(LastBlock(kept)) + ROLLBACK_EVERY
      grown == Append(kept, at)
  IN  IF ~due THEN kept
      ELSE SubSeq(grown, Max({1, Len(grown) - ROLLBACK_KEEP + 1}), Len(grown))

-----------------------------------------------------------------------------
(* Reorganisations, without a snapshot. *)

\* The two windows share a block, however old.
ReorgWithinDepth_AnyDepth(old, new) == \E i \in DOMAIN old, j \in DOMAIN new : new[j] = old[i]

\* reorg_within_depth: the two windows share a block near the old tip.
ReorgWithinDepth(old, new) ==
  \E i \in DOMAIN old :
    /\ Number(old[i]) >= LastNumber(old) - MaxReorgDepth
    /\ \E j \in DOMAIN new : new[j] = old[i]

WalkHeaders(ans, to) == VerifyHeaderChain(None, ans, WindowStart(to), to)

\* resync_locked without a snapshot.
ResyncLookback(ans, again, to) ==
  LET last  == LastNumber(chain)
      fresh == WalkHeaders(ans, to)
      added == VerifyHeaderChain(LastBlock(chain), ans, last + 1, to)
      anew  == WalkHeaders(again, to)
      keep(e) == [chain |-> chain, err |-> e]
  IN  IF to > last + Lookback \/ Len(chain) < MinChain
      THEN IF fresh.err = "ok" THEN fresh ELSE keep("other")
      ELSE IF to <= last THEN keep("ok")
      ELSE IF added.err = "ok" THEN [added EXCEPT !.chain = Trim(chain \o @)]
      ELSE IF IsLinkErr(added.err) /\ anew.err = "ok" /\ ReorgWithinDepth(chain, anew.chain)
      THEN anew
      ELSE keep("other")

-----------------------------------------------------------------------------
(* Actions. *)

\* The head is the height that was sampled.
Published_Sampled(c, to) == [head |-> to, safe |-> c[Len(c) - SafeLag]]

\* The view published while the chain lock is held: the head is read off the chain, not
\* from the height sampled before the lock.
Published(c, to) == [head |-> LastNumber(c), safe |-> c[Len(c) - SafeLag]]

Init ==
  /\ canon = Start
  /\ snap \in Boots
  /\ chain = BootChain(snap)
  /\ rollbacks = IF snap = None THEN <<>> ELSE <<Start>>
  /\ tip = [w \in Worker |-> None]
  /\ view = Published(chain, Number(Start))

\* The upstream's chain grows, or is reorganised to a heavier branch.
MoveCanon(b) ==
  /\ b \in Honest
  /\ Weight[b] > Weight[canon]
  /\ canon' = b
  /\ UNCHANGED <<chain, snap, rollbacks, tip, view>>

\* refresh_now reads the upstream's height, before it takes any lock.
SampleTip(w) ==
  /\ tip[w] = None
  /\ tip' = [tip EXCEPT ![w] = Number(canon)]
  /\ UNCHANGED <<canon, chain, snap, rollbacks, view>>

\* The part of refresh_now under the locks ends: c is the chain, err says whether it has
\* been brought up to date.
Publish(w, c, err) ==
  /\ view' = IF err = "ok" /\ HasSafe(c) THEN Published(c, tip[w]) ELSE view
  /\ tip' = [tip EXCEPT ![w] = None]
  /\ UNCHANGED canon

\* The tip is too far away: nothing is walked.
SyncTooFar(w) ==
  /\ snap # None
  /\ tip[w] # None
  /\ tip[w] > LastNumber(chain) + MaxSync
  /\ tip' = [tip EXCEPT ![w] = None]
  /\ UNCHANGED <<canon, chain, snap, rollbacks, view>>

\* A walk with outcome r ends the sync, with these rollback points.
Commit(w, r, points) ==
  /\ chain' = r.chain
  /\ snap' = r.snap
  /\ rollbacks' = IF r.err = "ok" THEN RecordRollback(points, r.snap, FirstNumber(r.chain))
                  ELSE points
  /\ Publish(w, r.chain, r.err)

\* recover_from_link_break, after the append r.  Recovery that fails leaves the node as
\* that append left it.
RecoverFromLinkBreak(w, r, ans) ==
  \/ \E point \in SearchEnd(r.chain, ans, tip[w]) :
     \E q \in {Retry(point, r.chain, ans, tip[w])} :
       IF q.err = "ok" THEN Commit(w, q, PopAbove(rollbacks, point)) ELSE Commit(w, r, rollbacks)
  \/ /\ SearchEnd(r.chain, ans, tip[w]) = {}
     /\ IF ReplayAllowed(ans, tip[w]) /\ Replay(ans, tip[w]).err = "ok"
        THEN Commit(w, Replay(ans, tip[w]), <<>>)
        ELSE Commit(w, r, rollbacks)

\* resync_locked with a snapshot: `ans` answers the append, `again` the recovery.
SyncWithSnapshot(w, ans, again) ==
  /\ snap # None
  /\ tip[w] # None
  /\ tip[w] <= LastNumber(chain) + MaxSync
  /\ \E r \in {AppendNew(chain, snap, ans, tip[w])} :
       IF IsLinkErr(r.err) THEN RecoverFromLinkBreak(w, r, again) ELSE Commit(w, r, rollbacks)

SyncLookback(w, ans, again) ==
  /\ snap = None
  /\ tip[w] # None
  /\ \E r \in {ResyncLookback(ans, again, tip[w])} :
       /\ chain' = r.chain
       /\ Publish(w, r.chain, r.err)
  /\ UNCHANGED <<snap, rollbacks>>

\* The answers to a thread that is about to sync.
Replies(w) == IF tip[w] = None THEN {} ELSE Answers[canon]

\* The answers to the second round of requests: there is none unless the first broke a link.
Repeated(w, ans) ==
  LET append == IF snap # None THEN AppendNew(chain, snap, ans, tip[w])
                ELSE VerifyHeaderChain(LastBlock(chain), ans, LastNumber(chain) + 1, tip[w])
  IN  IF IsLinkErr(append.err) THEN Answers[canon] ELSE {<<>>}

Next ==
  \/ \E b \in Block : MoveCanon(b)
  \/ \E w \in Worker : SampleTip(w)
  \/ \E w \in Worker : SyncTooFar(w)
  \/ \E w \in Worker : \E ans \in Replies(w) : \E again \in Repeated(w, ans) :
       SyncWithSnapshot(w, ans, again) \/ SyncLookback(w, ans, again)

\* A sync of the poller that no reorganisation tears.
SettledSync ==
  \/ SyncWithSnapshot(Poller, Settled, Settled)
  \/ SyncLookback(Poller, Settled, Settled)

Fairness ==
  /\ WF_vars(SampleTip(Poller))
  /\ SF_vars(SettledSync)

Spec == Init /\ [][Next]_vars /\ Fairness

-----------------------------------------------------------------------------
(* Properties. *)

\* Shapes, and the bound on the rollback points that record_rollback keeps.
TypeOK ==
  /\ canon \in Block
  /\ chain \in Seq(Block) /\ chain # <<>>
  /\ snap \in Block \cup {None}
  /\ rollbacks \in Seq(Block) /\ Len(rollbacks) <= ROLLBACK_KEEP
  /\ tip \in [Worker -> Nat \cup {None}]
  /\ view \in [head : Nat, safe : Block]

OnBranch(b, c) == Number(b) <= Number(c) /\ Path[c][Number(b)] = b

\* Whatever the upstream serves and however often a walk breaks off, the verified chain is
\* an unbroken piece of one branch, every header of which passed its checks, and the
\* snapshot stands at its last block: a snapshot one block off would refuse every later
\* header.
Aligned ==
  /\ snap # None => snap = LastBlock(chain)
  /\ chain = SubSeq(Path[LastBlock(chain)], FirstNumber(chain), LastNumber(chain))
  /\ \A i \in 2 .. Len(chain) :
       /\ chain[i] \in (IF snap = None THEN Sealed ELSE Good)
       /\ Cascades(chain[i - 1], chain[i])

\* The retained snapshots ascend, and lie on the chain they would rewind: recovery puts a
\* snapshot back on top of the chain's blocks without comparing the two.
RollbacksOnChain ==
  /\ \A i, j \in DOMAIN rollbacks : i < j => Number(rollbacks[i]) < Number(rollbacks[j])
  /\ \A i \in DOMAIN rollbacks :
       Number(rollbacks[i]) >= FirstNumber(chain) => OnBranch(rollbacks[i], LastBlock(chain))

\* A reorganisation that the retained snapshots cover: one of them, in the chain's window,
\* is on the upstream's branch.
Covered ==
  /\ snap # None
  /\ Number(canon) <= LastNumber(chain) + MaxSync
  /\ \E i \in DOMAIN rollbacks :
       /\ Usable(rollbacks[i], chain, Number(canon))
       /\ OnBranch(rollbacks[i], canon)

\* An untorn sync brings the node to the upstream's branch.
Recovers ==
  LET to == Number(canon)
      r  == AppendNew(chain, snap, Settled, to)
  IN  IF IsLinkErr(r.err)
      THEN \E point \in SearchEnd(r.chain, Settled, to) :
             Retry(point, r.chain, Settled, to).err = "ok"
      ELSE r.err = "ok"

\* The upstream's next block is too early to be a child of b, or its gas limit is too far
\* from that of b.
UnfitAfter(b) == Number(b) < Number(canon) /\ ~Cascades(b, Path[canon][Number(b) + 1])

\* The cascading check is made before the parent link is compared, so that a last block or
\* a retained snapshot that was late, or moved the gas limit the other way, hides the
\* reorganisation: the sync fails on the clock or the gas limit, which is no link error.
CascadeHides ==
  \/ UnfitAfter(LastBlock(chain))
  \/ \E i \in DOMAIN rollbacks : Usable(rollbacks[i], chain, Number(canon)) /\ UnfitAfter(rollbacks[i])

\* While one retained snapshot in the chain's window is on the upstream's branch, an
\* untorn sync follows that branch, whatever the depth of the reorganisation and whatever
\* earlier syncs left behind, unless the cascading check hides it.
ReorgRecoverable == Covered /\ ~CascadeHides => Recovers

\* What recover_from_link_break says of itself: a retained snapshot on the losing branch
\* fails the walk at its first header, and the next one back is tried, until one is on the
\* upstream's branch.
EveryReorgRecovers == Covered => Recovers

\* The published head never moves back, though each sync works from a height that was
\* sampled before it waited for the lock.
HeadNeverRegresses == [][view'.head >= view.head]_vars

\* The height of the last block two branches have in common, 0 when there is none.
ForkHeight(a, b) ==
  Max({0} \cup {n \in 1 .. Min({Number(a), Number(b)}) : Path[a][n] = Path[b][n]})

WithinDepth == ForkHeight(LastBlock(chain), LastBlock(chain')) >= LastNumber(chain) - MaxReorgDepth

\* Without a snapshot a node leaves its branch only for one that forks off within
\* MaxReorgDepth of its tip, as long as it has not fallen a whole window behind.
FollowsWithinDepth ==
  [][snap = None /\ LastNumber(chain') <= LastNumber(chain) + Lookback => WithinDepth]_chain

\* The upstream's branch is out of reach.  With a snapshot: too far ahead, or no retained
\* snapshot is on it and the checkpoint is too old to replay from, or the cascading
\* check hides the fork.  Without: the two windows share no block near the tip.
OutOfReach ==
  IF snap # None
  THEN \/ Number(canon) > LastNumber(chain) + MaxSync
       \/ ~Covered /\ Number(canon) - Number(Origin) > MaxSync
       \/ CascadeHides
  ELSE ~ReorgWithinDepth(chain, SubSeq(Settled, WindowStart(Number(canon)), Number(canon)))

\* Once the upstream settles on a branch within reach, the poller brings the chain level
\* with it, over any number of reorganisations and torn answers before that.
CatchesUp == <>[](LastNumber(chain) >= Number(canon) \/ OutOfReach)

\* The three things a sync keeps, of which a broken walk or a recovery may leave one
\* behind: chain, snapshot and rollback points are in step (resync_locked, record_rollback).
InStep == TypeOK /\ Aligned /\ RollbacksOnChain
=============================================================================
