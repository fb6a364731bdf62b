----------------------------- MODULE Bootstrap ------------------------------
(***************************************************************************)
(* A client that starts from a checkpoint of an honest chain, next to a    *)
(* full node that has walked that chain all along.                         *)
(*                                                                         *)
(* full is the full node's snapshot: the same rules with nothing unknown   *)
(* (every block of the sealing window, every ancestor, every vote seen).   *)
(* boot is the client's snapshot, None before it starts.  epochs is what   *)
(* the upstream serves for the last two epoch headers.  The client walks   *)
(* the headers the full node accepted, in their order; what it does with   *)
(* one depends on nothing later, so it takes each when it is sealed.       *)
(*                                                                         *)
(* bin/helios-bsc/src/sync.rs (seed_epoch_state, walk_from_checkpoint),    *)
(* crates/helios-bsc-consensus/src/{snapshot,lib}.rs (epoch_seed_at,       *)
(* checkpoint_at_snapshot).                                                *)
(***************************************************************************)
EXTENDS Snapshot

CONSTANTS
  Genesis,       \* what the full node and the chain may look like at the start
  Sealable(_),   \* the headers that may be sealed on top of the full node's snapshot
  Keyless,       \* may a checkpoint be without vote keys?
  AtActivation,  \* may a checkpoint sit on the block where a set takes over?
  MaxHeight      \* bound: highest block of the chain

VARIABLES full, boot, epochs

vars == <<full, boot, epochs>>

ASSUME BootstrapConstants ==
  MaxHeight \in Nat /\ Keyless \in BOOLEAN /\ AtActivation \in BOOLEAN

\* epoch_records: what an epoch header installs.
Epoch == [validators : ValidatorSet \ {{}}, turn_length : Nat \ {0}]

\* The chain starts on or after the block where the set of its newest epoch takes over.
ASSUME GenesisSettled ==
  \A g \in Genesis :
    LET s == g.full
        e == (s.number \div s.epoch_length) * s.epoch_length
        d == e - s.epoch_length
    IN  /\ s.number \in Nat /\ s.epoch_length \in EpochLengths /\ s.pending = None
        /\ d \in Nat /\ g.epochs \in [{d, e} -> Epoch]
        /\ s.validators = g.epochs[e].validators /\ s.turn_length = g.epochs[e].turn_length
        /\ s.number >= e + MinerHistoryCheckLen(Cardinality(g.epochs[d].validators), g.epochs[d].turn_length)
        /\ DOMAIN s = DOMAIN FromCheckpoint(0, s.hash, 0, {}, {}, 0)

\* The full node has walked the chain before that block too: nothing it needs is unknown to it.
ASSUME GenesisWalked ==
  \A g \in Genesis :
    LET s == g.full
    IN  /\ s.milli_known = TRUE /\ s.walk_start = 0
        /\ s.vote_set = s.validators /\ s.prev_vote_set # {}
        /\ s.set_changed_at \in 0 .. s.number
        /\ DOMAIN s.recents \subseteq 0 .. s.number
        /\ DOMAIN s.ancestors \subseteq 0 .. s.number
        /\ s.number \in DOMAIN s.ancestors /\ s.ancestors[s.number] = s.hash
        /\ s.attestation # None =>
             /\ s.attestation \in VoteData
             /\ s.attestation.source_number < s.attestation.target_number
             /\ s.attestation.target_number < s.number

Init ==
  /\ \E g \in Genesis : full = g.full /\ epochs = g.epochs
  /\ boot = None

-----------------------------------------------------------------------------
(* seed_epoch_state *)

EpochBlock == (full.number \div full.epoch_length) * full.epoch_length

PrevEpochBlock == EpochBlock - full.epoch_length

\* Slip: the activation is measured with the announcing epoch's own set.
ActivateAt_OwnDelay ==
  EpochBlock + MinerHistoryCheckLen(Cardinality(epochs[EpochBlock].validators),
                                    epochs[EpochBlock].turn_length)

\* Where the set announced by the newest epoch header takes over: measured with the set
\* of the epoch before it.
ActivateAt ==
  EpochBlock + MinerHistoryCheckLen(Cardinality(epochs[PrevEpochBlock].validators),
                                    epochs[PrevEpochBlock].turn_length)

\* epoch_seed_at answers Active: the announced set is the sealing one already.
SeedActive == full.number >= ActivateAt

\* Slip: the turn length of the epoch before.
Seed_PreviousTurn(votes) ==
  FromCheckpoint(full.number, full.hash, full.epoch_length, full.validators, votes,
                 epochs[PrevEpochBlock].turn_length)

\* The snapshot a client starts with on a checkpoint of the current block.
Seed(votes) ==
  FromCheckpoint(full.number, full.hash, full.epoch_length, full.validators, votes,
                 epochs[EpochBlock].turn_length)

StartAllowed == ~AtActivation => full.number # full.set_changed_at

-----------------------------------------------------------------------------

\* Start with a checkpoint written for the current block, with vote keys or without.
Start(votes) ==
  /\ boot = None
  /\ SeedActive
  /\ StartAllowed
  /\ ~Keyless => votes # {}
  /\ boot' = Seed(votes)
  /\ UNCHANGED <<full, epochs>>

\* Stop, and start again from the tip that was persisted.
Restart ==
  /\ boot # None
  /\ boot.number = full.number
  /\ SeedActive
  /\ StartAllowed
  /\ boot' = Seed(boot.vote_set)
  /\ UNCHANGED <<full, epochs>>

\* A block is sealed and walked.
Seal(h) ==
  /\ h \in Header
  /\ h.number <= MaxHeight
  /\ Accepts(full, h)
  /\ full' = Apply(full, h)
  /\ epochs' = IF IsEpoch(full, h.number)
               THEN [e \in {EpochBlock, h.number} |->
                       IF e = h.number
                       THEN [validators |-> h.validators, turn_length |-> h.turn_length]
                       ELSE epochs[e]]
               ELSE epochs
  /\ boot' = IF boot = None THEN None
             ELSE IF Accepts(boot, h) THEN Apply(boot, h) ELSE Refuse(boot, h)

Next ==
  \/ \E votes \in {{}, full.validators} : Start(votes)
  \/ Restart
  \/ \E h \in Sealable(full) : Seal(h)

Spec == Init /\ [][Next]_vars

-----------------------------------------------------------------------------

\* A client is up and has not refused a block.
InStep == boot # None /\ boot.number = full.number

\* A started client never refuses a block the full node accepted: it would refuse it on
\* every later attempt too, and never move again.
NeverWedged == boot # None => boot.number = full.number /\ boot.hash = full.hash

\* The sealing set, the turn length and the announced switch, read back from two epoch
\* headers, are the full node's at every block from the first on.
SameSchedule ==
  InStep => /\ boot.validators = full.validators
            /\ boot.turn_length = full.turn_length
            /\ boot.pending = full.pending
            /\ boot.epoch_length = full.epoch_length

\* epoch_seed_at refuses a checkpoint exactly while a switch is announced and not done.
RefusesExactlyPending == SeedActive <=> full.pending = None

\* Once every block of the sealing window was walked, the client limits each validator
\* exactly as the full node does.
HistoryConverges ==
  InStep /\ RecentsWindowWalked(boot) =>
    \A v \in Validator : SignRecently(boot, v) <=> SignRecently(full, v)

\* A client that knows of a justified block knows the full node's.
JustifiedAgrees ==
  InStep /\ boot.attestation # None =>
    /\ full.attestation # None
    /\ boot.attestation.target_number = full.attestation.target_number
    /\ boot.attestation.target_hash = full.attestation.target_hash

\* What the two epoch headers and the walk after a start rebuild is what a full node has:
\* the schedule at once, the seal limits and the justified head as soon as they are known.
Converges == SameSchedule /\ HistoryConverges /\ JustifiedAgrees
=============================================================================
