-------------------------------- MODULE Store --------------------------------
(***************************************************************************)
(* The checkpoint file: who writes it, what a crash leaves of it, and what *)
(* the next start of the process makes of it.                              *)
(*                                                                         *)
(* write-checkpoint (bin/helios-bsc/src/main.rs) makes the first one, and  *)
(* may be run again over an old one, beside a running node too; a node     *)
(* overwrites it with its verified tip whenever a sync has made the chain  *)
(* longer (persist_verified_tip, rpc_server.rs), on whichever thread       *)
(* synced.  Both go through atomic_write (sync.rs): a temporary file, with *)
(* a name of its own, is created, written, synced and renamed over the     *)
(* name, and the directory is synced.  A kill may come between any two of  *)
(* these steps; so may a power loss, which also takes back what was not    *)
(* synced.                                                                 *)
(*                                                                         *)
(* Abstractions.  A block is its height and the branch it is on; a         *)
(* reorganisation leaves the epoch headers alone.  A set is named by the   *)
(* epoch block that announced it.  The clock is the height of the chain.   *)
(* The oracle and the header check compare the block with the canonical    *)
(* one.  A set the operator types in (--sealing-set) is taken on the       *)
(* operator's word and left out.                                           *)
(*                                                                         *)
(* Each operator named X_Something is a plausible mistake in X: no         *)
(* definition uses it, and X replaced by it must break a property.         *)
(***************************************************************************)
EXTENDS Integers, FiniteSets

CONSTANTS
  Worker,      \* threads that sync and persist
  Operator,    \* whoever runs write-checkpoint
  Nobody,
  EpochLength,
  Delay(_),    \* Delay(e): minerHistoryCheckLen of the set announced at e
  MaxAge,      \* --max-checkpoint-age-hours, in blocks
  MaxSync,
  FirstHead, MaxHead, MaxBranch, MaxCrash,
  MaxRuns      \* runs of write-checkpoint

Writer == Worker \cup {Operator}

Absent  == [is |-> "absent"]

Partial == [is |-> "partial"]

ASSUME StoreConstants ==
  /\ {EpochLength, MaxAge, MaxSync, FirstHead, MaxHead} \subseteq Nat \ {0}
  /\ {MaxBranch, MaxCrash, MaxRuns} \subseteq Nat
  /\ 2 * EpochLength <= FirstHead /\ FirstHead <= MaxHead
  /\ \A e \in 0 .. MaxHead : Delay(e) \in 0 .. EpochLength - 1
  /\ Operator \notin Worker
  /\ Nobody \notin Writer \cup [n : Nat, branch : Nat]

VARIABLES
  head,     \* height of the canonical chain
  branch,   \* branch[n]: the branch block n of the canonical chain is on
  tip,      \* the newest verified block of the running process, Nobody when it is down
  job,      \* job[w]: the write w is busy with
  lock,     \* who holds persist_lock
  file,     \* what the name of the checkpoint designates
  disk,     \* what it may designate after a power loss
  crashes,
  runs      \* runs of write-checkpoint so far

vars == <<head, branch, tip, job, lock, file, disk, crashes, runs>>

Canonical(n) == [n |-> n, branch |-> branch[n]]

Idle == [at |-> "idle"]

-----------------------------------------------------------------------------
(* Which sealing set a block has. *)

EpochOf(n) == (n \div EpochLength) * EpochLength

\* epoch_seed_at: the set announced at the newest epoch block has taken over, a delay
\* later that is measured with the set before it.
Active(n) == n >= EpochOf(n) + Delay(EpochOf(n) - EpochLength)

\* The set that seals block n.
InForce(n) == IF Active(n) THEN EpochOf(n) ELSE EpochOf(n) - EpochLength

\* validators_from_activated_epoch measures the delay with the announced set itself.
Activated(e, n) == n >= e + Delay(e)

\* Any epoch below the block will do.
Writable_AnyEpoch(n, e) == Activated(e, n) /\ Active(n)

\* The activation window is not looked at.
Writable_NoWindow(n, e) == Activated(e, n) /\ e = EpochOf(n)

\* What write-checkpoint demands of a block and the epoch its set is read from, named by
\* the operator or the newest one: the epoch's own delay, then
\* assert_outside_activation_window.
Writable(n, e) == Activated(e, n) /\ Active(n) /\ e = EpochOf(n)

\* The attestation says which command made the checkpoint.
Checkpoint(b, e, by) ==
  [is |-> "whole", n |-> b.n, branch |-> b.branch, set |-> e, by |-> by]

-----------------------------------------------------------------------------
(* The chain. *)

Extend ==
  /\ head < MaxHead
  /\ head' = head + 1
  /\ branch' = [branch EXCEPT ![head + 1] = branch[head]]
  /\ UNCHANGED <<tip, job, lock, file, disk, crashes, runs>>

\* The blocks above n give way to a longer branch.
Reorganise(n) ==
  /\ head < MaxHead
  /\ branch[head] < MaxBranch
  /\ head' = head + 1
  /\ branch' = [m \in DOMAIN branch |-> IF m > n /\ m <= head + 1 THEN branch[head] + 1 ELSE branch[m]]
  /\ UNCHANGED <<tip, job, lock, file, disk, crashes, runs>>

-----------------------------------------------------------------------------
(* Starting a write. *)

Begin(w, content) == [job EXCEPT ![w] = [at |-> "create", content |-> content]]

\* write-checkpoint for block n, with the set announced at epoch e: whatever the name
\* designates is replaced, and no lock is asked for.
WriteCheckpoint(n, e) ==
  /\ runs < MaxRuns
  /\ job[Operator] = Idle
  /\ Writable(n, e)
  /\ runs' = runs + 1
  /\ job' = Begin(Operator, Checkpoint(Canonical(n), e, "operator"))
  /\ UNCHANGED <<head, branch, tip, lock, file, disk, crashes>>

\* A sync brings the chain up to block n.  It ends with a write if the chain has grown and
\* nothing was refused on the way.
Sync(w, n, ok) ==
  /\ tip # Nobody
  /\ job[w] = Idle
  /\ n > tip.n
  /\ tip' = Canonical(n)
  /\ job' = IF ok THEN [job EXCEPT ![w] = [at |-> "persist"]] ELSE job
  /\ UNCHANGED <<head, branch, lock, file, disk, crashes, runs>>

\* The tip is read before the lock is taken.
Persist_ReadFirst(w) ==
  \/ /\ job[w].at = "persist"
     /\ job' = [job EXCEPT ![w] = [at |-> "wait", content |-> Checkpoint(tip, InForce(tip.n), "node")]]
     /\ UNCHANGED <<head, branch, tip, lock, file, disk, crashes, runs>>
  \/ /\ job[w].at = "wait"
     /\ lock = Nobody
     /\ lock' = w
     /\ job' = Begin(w, job[w].content)
     /\ UNCHANGED <<head, branch, tip, file, disk, crashes, runs>>

\* persist_verified_tip: under persist_lock, the tip and its snapshot are read under their
\* locks, and held against the header.
Persist(w) ==
  /\ job[w].at = "persist"
  /\ lock = Nobody
  /\ lock' = w
  /\ job' = Begin(w, Checkpoint(tip, InForce(tip.n), "node"))
  /\ UNCHANGED <<head, branch, tip, file, disk, crashes, runs>>

\* There is no header to write, or not the right one.
PersistFails(w) ==
  /\ job[w].at = "persist"
  /\ lock = Nobody
  /\ job' = [job EXCEPT ![w] = Idle]
  /\ UNCHANGED <<head, branch, tip, lock, file, disk, crashes, runs>>

-----------------------------------------------------------------------------
(* atomic_write *)

\* A writer that is done keeps the lock.
Release_Leaked(w) == lock

Release(w) == IF lock = w THEN Nobody ELSE lock

CreateTemp(w) ==
  /\ job[w].at = "create"
  /\ job' = [job EXCEPT ![w].at = "write"]
  /\ UNCHANGED <<head, branch, tip, lock, file, disk, crashes, runs>>

WriteTemp(w) ==
  /\ job[w].at = "write"
  /\ job' = [job EXCEPT ![w].at = "sync"]
  /\ UNCHANGED <<head, branch, tip, lock, file, disk, crashes, runs>>

SyncTemp(w) ==
  /\ job[w].at = "sync"
  /\ job' = [job EXCEPT ![w].at = "rename"]
  /\ UNCHANGED <<head, branch, tip, lock, file, disk, crashes, runs>>

\* The target is removed first.
Rename_RemoveFirst(w) ==
  \/ /\ job[w].at = "rename"
     /\ job' = [job EXCEPT ![w].at = "renaming"]
     /\ file' = Absent
     /\ disk' = disk \cup {Absent}
     /\ UNCHANGED <<head, branch, tip, lock, crashes, runs>>
  \/ /\ job[w].at = "renaming"
     /\ job' = [job EXCEPT ![w].at = "syncdir"]
     /\ file' = job[w].content
     /\ disk' = disk \cup {job[w].content}
     /\ UNCHANGED <<head, branch, tip, lock, crashes, runs>>

\* The temporary file is renamed as soon as it is written.
Rename_Unsynced(w) ==
  /\ job[w].at \in {"sync", "rename"}
  /\ job' = [job EXCEPT ![w].at = "syncdir"]
  /\ file' = job[w].content
  /\ disk' = disk \cup {IF job[w].at = "sync" THEN Partial ELSE job[w].content}
  /\ UNCHANGED <<head, branch, tip, lock, crashes, runs>>

\* The name designates the new file at once, after a power loss the new or the old one.
Rename(w) ==
  /\ job[w].at = "rename"
  /\ job' = [job EXCEPT ![w].at = "syncdir"]
  /\ file' = job[w].content
  /\ disk' = disk \cup {job[w].content}
  /\ UNCHANGED <<head, branch, tip, lock, crashes, runs>>

\* Best effort: the directory may not be synced.
SyncDir(w, ok) ==
  /\ job[w].at = "syncdir"
  /\ job' = [job EXCEPT ![w] = Idle]
  /\ lock' = Release(w)
  /\ disk' = IF ok THEN {file} ELSE disk
  /\ UNCHANGED <<head, branch, tip, file, crashes, runs>>

\* A step up to the rename fails: the temporary file is removed and the old one stays.
WriteFails(w) ==
  /\ job[w].at \in {"create", "write", "sync", "rename"}
  /\ job' = [job EXCEPT ![w] = Idle]
  /\ lock' = Release(w)
  /\ UNCHANGED <<head, branch, tip, file, disk, crashes, runs>>

-----------------------------------------------------------------------------
(* Stopping and starting. *)

\* The next start accepts a checkpoint: it is whole and not too old (load_checkpoint), the
\* block is the upstream's (header_matches_checkpoint), no set is about to take over
\* (seed_epoch_state) and the walk is not too long.
Boots(cp) ==
  /\ cp.is = "whole"
  /\ head - cp.n <= MaxAge
  /\ head - cp.n <= MaxSync
  /\ cp.branch = branch[cp.n]
  /\ Active(cp.n)

\* run --checkpoint: walk to the head, and persist the tip at once.
Boot(w) ==
  /\ tip = Nobody
  /\ Boots(file)
  /\ tip' = Canonical(head)
  /\ job' = [job EXCEPT ![w] = [at |-> "persist"]]
  /\ UNCHANGED <<head, branch, lock, file, disk, crashes, runs>>

\* The node is gone, and with the host the operator's command too; temporary files stay
\* behind and are never looked at.
Down(gone) ==
  /\ crashes < MaxCrash
  /\ crashes' = crashes + 1
  /\ tip' = Nobody
  /\ job' = [w \in Writer |-> IF w \in gone THEN Idle ELSE job[w]]
  /\ lock' = Nobody
  /\ UNCHANGED <<head, branch, runs>>

\* The node is killed.  A command that is killed looks like one that fails.
Kill == Down(Worker) /\ UNCHANGED <<file, disk>>

PowerLoss ==
  /\ Down(Writer)
  /\ file' \in disk
  /\ disk' = {file'}

Init ==
  /\ head = FirstHead
  /\ branch = [n \in 1 .. MaxHead |-> 0]
  /\ tip = Nobody
  /\ job = [w \in Writer |-> Idle]
  /\ lock = Nobody
  /\ file = Absent
  /\ disk = {Absent}
  /\ crashes = 0
  /\ runs = 0

Write(w) ==
  \/ CreateTemp(w)
  \/ WriteTemp(w)
  \/ SyncTemp(w)
  \/ Rename(w)
  \/ \E ok \in BOOLEAN : SyncDir(w, ok)

Next ==
  \/ Extend
  \/ \E n \in EpochLength .. head - 1 : Reorganise(n)
  \/ \E n \in EpochLength .. head : \E e \in {EpochOf(n), EpochOf(n) - EpochLength} : WriteCheckpoint(n, e)
  \/ \E w \in Worker, n \in 1 .. head, ok \in BOOLEAN : Sync(w, n, ok)
  \/ \E w \in Worker : Persist(w) \/ PersistFails(w) \/ Boot(w)
  \/ \E w \in Writer : Write(w) \/ WriteFails(w)
  \/ Kill
  \/ PowerLoss

Spec == Init /\ [][Next]_vars

-----------------------------------------------------------------------------
(* Properties. *)

Content == {Absent, Partial} \cup
  [is : {"whole"}, n : 1 .. MaxHead, branch : 0 .. MaxBranch, set : 0 .. MaxHead,
   by : {"operator", "node"}]

\* Shapes, and persist_lock is held exactly while a thread is writing.
TypeOK ==
  /\ head \in FirstHead .. MaxHead
  /\ branch \in [1 .. MaxHead -> 0 .. MaxBranch]
  /\ tip = Nobody \/ tip \in [n : 1 .. head, branch : 0 .. MaxBranch]
  /\ file \in Content /\ disk \subseteq Content
  /\ crashes \in 0 .. MaxCrash /\ runs \in 0 .. MaxRuns
  /\ \A w \in Worker : lock = w <=> job[w].at \notin {"idle", "persist", "wait"}

\* At no point of a write, whatever fails and whatever a crash takes back, does the name
\* designate a truncated checkpoint.
NeverTruncated == Partial \notin disk \cup {file}

\* Once a checkpoint is on disk there always is one: a crash leaves the operator with an
\* older trust anchor at worst.
AnchorKept == [][Absent \notin disk => Absent \notin disk' \cup {file'}]_vars

\* What the node has written.
OfNode(cp) == cp.is = "whole" /\ cp.by = "node"

\* Several threads persist, each some time after its sync: what the node has written is
\* replaced by an older block only by the operator or by a power loss.
NeverBackwards ==
  [][OfNode(file) /\ OfNode(file') /\ file'.n < file.n => tip' = Nobody]_vars

\* The set in the file is the one that seals the file's block, though write-checkpoint
\* and the boot measure the activation delay with different sets.
SetInForce == \A cp \in disk \cup {file} : cp.is = "whole" => cp.set = InForce(cp.n)

\* What the operator has just put in place is accepted by the boot, unless the block was
\* orphaned or has grown old since.
WrittenBoots ==
  job[Operator].at = "syncdir" =>
    LET cp == job[Operator].content IN
    \/ Boots(cp)
    \/ cp.branch # branch[cp.n]
    \/ head - cp.n > MaxAge \/ head - cp.n > MaxSync

\* Whatever fails and wherever the host dies, the name designates nothing or a whole
\* checkpoint with the set in force, and a failed write gives persist_lock back
\* (atomic_write, persist_verified_tip, write_checkpoint).
FileSound == TypeOK /\ NeverTruncated /\ SetInForce
=============================================================================
