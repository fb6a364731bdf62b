---------------------------- MODULE SnapshotWalk ----------------------------
(***************************************************************************)
(* One snapshot walking headers an untrusted upstream presents, from the   *)
(* checkpoint it was seeded with (Snapshot::from_checkpoint followed by    *)
(* any number of Snapshot::apply_header calls).                            *)
(*                                                                         *)
(* snap is the code's state.  history is an observer that no action reads: *)
(* what the last Horizon accepted headers said, the vote set that was in   *)
(* force after each of them, and the finalized block below which seals no  *)
(* longer counted (from Maxwell on).                                       *)
(***************************************************************************)
EXTENDS Snapshot

CONSTANTS
  Checkpoints,   \* the seeded snapshots a walk may start from
  Offered(_),    \* the headers an upstream may present to a given snapshot
  MaxNumber,     \* bound: highest block the walk may reach
  Horizon        \* bound: how many blocks the observer remembers

VARIABLES snap, history

walkVars == <<snap, history>>

ASSUME WalkConstants ==
  /\ MaxNumber \in Nat
  /\ Horizon \in Nat \ {0}

\* s is what from_checkpoint and seed_turn_length make of some checkpoint file.
Seeded(s) ==
  /\ s.number \in Nat
  /\ s.hash \in Hash
  /\ s.validators \in ValidatorSet \ {{}}
  /\ s.turn_length \in Nat \ {0}
  /\ s.epoch_length \in EpochLengths
  /\ s.vote_set \in {{}, s.validators}
  /\ s = FromCheckpoint(s.number, s.hash, s.epoch_length, s.validators, s.vote_set,
                        s.turn_length)

ASSUME CheckpointsSeeded == \A s \in Checkpoints : Seeded(s)

WalkInit ==
  /\ snap \in Checkpoints
  /\ history = [b \in {snap.number} |->
                  [hash |-> snap.hash, signer |-> None, vote_set |-> snap.vote_set, settled |-> 0]]

\* The observer's record of an accepted header.
Remember(h) ==
  [b \in {c \in DOMAIN history \cup {h.number} : c + Horizon > h.number} |->
     IF b = h.number
     THEN [hash |-> h.hash, signer |-> h.signer, vote_set |-> snap'.vote_set,
           settled |-> IF h.time >= MAXWELL_TIME THEN FinalizedNumber(snap')
                       ELSE history[snap.number].settled]
     ELSE history[b]]

AcceptHeader(h) ==
  /\ Accepts(snap, h)
  /\ h.number <= MaxNumber
  /\ snap' = Apply(snap, h)
  /\ history' = Remember(h)

RefuseHeader(h) ==
  /\ ~Accepts(snap, h)
  /\ snap' = Refuse(snap, h)
  /\ UNCHANGED history

WalkNext == \E h \in Offered(snap) : h \in Header /\ (AcceptHeader(h) \/ RefuseHeader(h))

WalkSpec == WalkInit /\ [][WalkNext]_walkVars

-----------------------------------------------------------------------------
\* The shape of the snapshot the code's struct promises.
IsSnapshot(s) ==
  /\ s \in [number : Nat, hash : Hash, epoch_length : EpochLengths,
            turn_length : Nat \ {0}, validators : ValidatorSet \ {{}},
            pending : PendingEpoch \cup {None}, recents : {s.recents},
            vote_set : ValidatorSet, prev_vote_set : ValidatorSet, set_changed_at : Nat,
            attestation : VoteData \cup {None}, milli_known : BOOLEAN,
            walk_start : Nat, ancestors : {s.ancestors}]
  /\ s.recents \in [DOMAIN s.recents -> Validator]
  /\ DOMAIN s.recents \subseteq Nat
  /\ s.ancestors \in [DOMAIN s.ancestors -> Hash]
  /\ DOMAIN s.ancestors \subseteq Nat

\* Type invariant: every header, also a refused one, leaves a well-formed snapshot, with a
\* nonempty sealing set and a turn length of at least one (Snapshot::apply_header).
TypeOK == IsSnapshot(snap)

-----------------------------------------------------------------------------
(* The sealing history. *)

\* Highest of a nonempty finite set of numbers.
Newest(S) == CHOOSE n \in S : \A m \in S : m <= n

\* The blocks v sealed above `floor` that still count: sealed on this walk, after the
\* last switch of the sealing set (BEP-404) and, from Maxwell on, above the finalized
\* block (BEP-524).
CountedSeals(v, floor) ==
  LET low == Newest({floor, snap.set_changed_at, history[snap.number].settled, snap.walk_start - 1})
  IN  {b \in DOMAIN history : b > low /\ history[b].signer = v}

\* The sealing limit of the code, read off a map that is trimmed in four different
\* places (even by a header that is then refused), answers exactly what the blocks
\* on the chain say: v sealed turn_length of the last Delay blocks.
RecentsFaithful ==
  \A v \in Validator :
    SignRecently(snap, v)
      <=> Cardinality(CountedSeals(v, Monus(snap.number, Delay(snap)))) >= snap.turn_length

\* No validator ever gets more than turn_length of any Delay + 1 consecutive blocks
\* past the walk: a minority cannot produce the chain by itself.
NoOverSealing ==
  \A v \in Validator :
    Cardinality(CountedSeals(v, Monus(snap.number, Delay(snap) + 1))) <= snap.turn_length

-----------------------------------------------------------------------------
(* Fast finality. *)

\* Whatever header arrives next, a vote it makes the snapshot adopt was signed by two
\* thirds of the set that was in force one block below its target, also when the
\* sealing set switched between that block and the header.
AdoptedVotesAreQuorum ==
  \A h \in Offered(snap) :
    h \in Header /\ Accepts(snap, h) /\ AttestationAdopted(snap, h)
    /\ h.attestation.data.target_number - 1 \in DOMAIN history
      => LET set == history[h.attestation.data.target_number - 1].vote_set
         IN  /\ h.attestation.voters \subseteq set
             /\ 3 * Cardinality(h.attestation.voters) >= 2 * Cardinality(set)

\* The justified block is a block of this walk, and the finalized one lies below it.
JustifiedIsWalked ==
  snap.attestation # None =>
    /\ snap.attestation.source_number < snap.attestation.target_number
    /\ snap.attestation.target_number < snap.number
    /\ snap.attestation.target_number \in DOMAIN history =>
         snap.attestation.target_hash = history[snap.attestation.target_number].hash

\* Finality only moves forward, and it moves only onto the block that was justified
\* before the step, when that block's child is justified: two justified in a row.
FinalityStep ==
  snap.attestation # None =>
    /\ snap'.attestation # None
    /\ JustifiedNumber(snap') >= JustifiedNumber(snap)
    /\ \/ /\ snap'.attestation.source_number = snap.attestation.source_number
          /\ snap'.attestation.source_hash = snap.attestation.source_hash
       \/ /\ snap'.attestation.source_number = snap.attestation.target_number
          /\ snap'.attestation.source_hash = snap.attestation.target_hash
          /\ snap'.attestation.target_number = snap'.attestation.source_number + 1

\* No header, accepted or refused, takes a FinalityStep backwards: adopt_attestation.
FinalityAdvances == [][FinalityStep]_walkVars

-----------------------------------------------------------------------------
(* Epochs. *)

EpochStart(n) == n - (n % snap.epoch_length)

\* Parlia's own rule, stated without a pending switch: the set changes at the block whose
\* offset in its epoch is the check length of the set in force below it, once an epoch.
SwitchScheduled(n) ==
  /\ n % snap.epoch_length = Delay(snap)
  /\ snap.walk_start <= EpochStart(n)
  /\ snap.set_changed_at < EpochStart(n)

\* The client switches sealing sets at exactly the blocks Parlia does, although it fixes
\* the height when it reads the epoch header and Parlia decides at the block itself.
ActivationOnSchedule ==
  [][snap'.number # snap.number =>
       (snap'.set_changed_at = snap'.number <=> SwitchScheduled(snap'.number))]_walkVars

\* Who may seal next is read off the map recents as Parlia reads it off the chain, and so
\* no validator ever had more than its share of a window (sign_recently).
SealLimit == RecentsFaithful /\ NoOverSealing
=============================================================================
