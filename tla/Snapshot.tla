------------------------------ MODULE Snapshot ------------------------------
(***************************************************************************)
(* The Parlia sealing-set snapshot of the light client as pure operators:  *)
(* what a snapshot is, when it accepts a header, and the snapshot that     *)
(* results.  crates/helios-bsc-consensus/src/{snapshot,vote,seal}.rs and   *)
(* crates/helios-bsc-config/src/lib.rs.  The state machines that hold a    *)
(* snapshot (SnapshotWalk, Bootstrap) apply these operators.               *)
(*                                                                         *)
(* Abstractions.  Addresses are numbers, so that "<" is the address order  *)
(* the Rust code sorts by; a vote key is named by its address.  A header   *)
(* is the record of the fields the checks read.  The millisecond clock     *)
(* enters as one fact about a header and its parent ("early": below        *)
(* parent + interval + backoff); both are committed by their hashes and    *)
(* the comparison is reached only after the parent link was checked.  The  *)
(* epoch sentinel the code stores in recents is read by nobody (every      *)
(* reader skips it) and is left out.  An epoch header announces a set of   *)
(* distinct validators and a turn length above zero: verify_extra_layout   *)
(* refuses any other, and that refusal is part of "sealed".                *)
(*                                                                         *)
(* Each operator named X_Something is a plausible mistake in X: no         *)
(* definition uses it, and X replaced by it must break a property.         *)
(***************************************************************************)
EXTENDS Integers, FiniteSets

CONSTANTS
  Validator,                    \* sealing addresses, numbered in address order
  Hash,                         \* block hashes
  None,                         \* Rust's Option::None
  DEFAULT_EPOCH_LENGTH,         \* 200 on mainnet
  LORENTZ_EPOCH_LENGTH,         \* 500
  MAXWELL_EPOCH_LENGTH,         \* 1000
  LORENTZ_TIME, MAXWELL_TIME, FERMI_TIME,
  LONDON_BLOCK,
  K_ANCESTOR_GENERATION_DEPTH   \* 3

ASSUME SnapshotConstants ==
  /\ Validator \subseteq Nat /\ IsFiniteSet(Validator)
  /\ DEFAULT_EPOCH_LENGTH \in Nat \ {0}
  /\ LORENTZ_EPOCH_LENGTH \in Nat \ {0}
  /\ MAXWELL_EPOCH_LENGTH \in Nat \ {0}
  /\ LORENTZ_TIME \in Nat
  /\ MAXWELL_TIME \in Nat
  /\ FERMI_TIME \in Nat
  /\ LONDON_BLOCK \in Nat
  /\ K_ANCESTOR_GENERATION_DEPTH \in Nat \ {0}

ASSUME ForkOrder == LORENTZ_TIME <= MAXWELL_TIME /\ MAXWELL_TIME <= FERMI_TIME

EpochLengths == {DEFAULT_EPOCH_LENGTH, LORENTZ_EPOCH_LENGTH, MAXWELL_EPOCH_LENGTH}

ValidatorSet == SUBSET Validator

(***************************************************************************)
(* Records.  VoteData is the vote a fast-finality attestation aggregates;  *)
(* an Attestation adds the bit set of voters and the keys that really      *)
(* signed.  A Header carries validators and turn_length in extraData; they *)
(* are read at epoch boundaries only.                                      *)
(***************************************************************************)
VoteData ==
  [source_number : Nat, source_hash : Hash, target_number : Nat, target_hash : Hash]

Attestation ==
  [data : VoteData, bits : SUBSET Nat, voters : ValidatorSet]

PendingEpoch ==
  [epoch_block : Nat, activate_at : Nat, validators : ValidatorSet \ {{}},
   turn_length : Nat \ {0}]

Header ==
  [number : Nat, hash : Hash, parent_hash : Hash, time : Nat,
   sealed : BOOLEAN,            \* verify_seal_coinbase recovers the miner it names
   signer : Validator, difficulty : Nat, early : BOOLEAN,
   attestation : Attestation \cup {None},
   validators : ValidatorSet, turn_length : Nat \ {0}]

ASSUME NoneIsNoRecord ==
  None \notin VoteData /\ None \notin Attestation /\ None \notin PendingEpoch

-----------------------------------------------------------------------------
(* Configuration: fork table and the arithmetic of the sealing window. *)

\* Rust's u64::saturating_sub.
Monus(a, b) == IF a >= b THEN a - b ELSE 0

DIFF_NO_TURN == 1
DIFF_IN_TURN == 2

\* The epoch length the fork table gives for a timestamp.
ParamsEpochLength(time) ==
  IF time >= MAXWELL_TIME THEN MAXWELL_EPOCH_LENGTH
  ELSE IF time >= LORENTZ_TIME THEN LORENTZ_EPOCH_LENGTH
  ELSE DEFAULT_EPOCH_LENGTH

\* Blocks between an epoch header and the switch it announces; also the length
\* of the history in which a sealer is limited to turn_length blocks.
MinerHistoryCheckLen(n, turn) ==
  IF n = 0 \/ turn = 0 THEN 0 ELSE (n \div 2 + 1) * turn - 1

AncestorGenerationDepth(number, time) ==
  IF number >= LONDON_BLOCK /\ time >= FERMI_TIME THEN K_ANCESTOR_GENERATION_DEPTH ELSE 1

\* Heights an attestation in header `number` may target: its parent and, from
\* Fermi on, two generations below it.
AttestationTargetWindow(number, time) ==
  LET parent == Monus(number, 1)
  IN  Monus(parent, AncestorGenerationDepth(number, time) - 1) .. parent

-----------------------------------------------------------------------------
(* Validators in address order. *)

Rank(S, v) == Cardinality({w \in S : w < v})

AtRank(S, i) == CHOOSE v \in S : Rank(S, v) = i

-----------------------------------------------------------------------------
(* A snapshot and its readers. *)

\* The snapshot seeded from checkpoint block `number`.  length is the fork table's epoch
\* length at its timestamp, votes the validators whose vote keys the file carries (all or
\* none), turn the turn length seed_epoch_state read back from the epoch header.
FromCheckpoint(number, hash, length, set, votes, turn) ==
  [number         |-> number,
   hash           |-> hash,
   epoch_length   |-> length,
   turn_length    |-> turn,
   validators     |-> set,
   pending        |-> None,
   recents        |-> [b \in {} |-> 0],
   vote_set       |-> votes,
   prev_vote_set  |-> {},
   set_changed_at |-> 0,
   attestation    |-> None,
   milli_known    |-> FALSE,
   walk_start     |-> number + 1,
   ancestors      |-> [b \in {number} |-> hash]]

Delay(s) == MinerHistoryCheckLen(Cardinality(s.validators), s.turn_length)

FinalizedNumber(s) == IF s.attestation = None THEN 0 ELSE s.attestation.source_number

JustifiedNumber(s) == IF s.attestation = None THEN 0 ELSE s.attestation.target_number

InturnValidator(s) ==
  AtRank(s.validators, ((s.number + 1) \div s.turn_length) % Cardinality(s.validators))

ExpectedDifficulty(s, signer) ==
  IF InturnValidator(s) = signer THEN DIFF_IN_TURN ELSE DIFF_NO_TURN

SealedInWindow(s, v) ==
  {b \in DOMAIN s.recents : b > Monus(s.number, Delay(s)) /\ s.recents[b] = v}

SignRecently(s, v) == Cardinality(SealedInWindow(s, v)) >= s.turn_length

\* Slip: the oldest block of the window is missing.
RecentsWindowWalked_Short(s) == Monus(s.number, Delay(s)) + 2 >= s.walk_start

\* Every block of the sealing window was walked by this snapshot.
RecentsWindowWalked(s) == Monus(s.number, Delay(s)) + 1 >= s.walk_start

\* Slip: an unknown sealer counts as one who did not seal.
BackoffBinds_Unwalked(s) == s.milli_known /\ ~SignRecently(s, InturnValidator(s))

\* The out-of-turn floor binds only where geth's own inputs are known.
BackoffBinds(s) ==
  /\ s.milli_known
  /\ RecentsWindowWalked(s)
  /\ ~SignRecently(s, InturnValidator(s))

-----------------------------------------------------------------------------
(* Fast-finality attestations. *)

MinVotesForFinality(n) == (2 * n + 2) \div 3

\* Slip: the set in force now.
AttestationSet_Current(s, target) == s.vote_set

\* The set in force at target - 1, the one geth checks the bit set against.
AttestationSet(s, target) ==
  IF s.set_changed_at > Monus(target, 1) THEN s.prev_vote_set ELSE s.vote_set

\* Every bit names a member, the members named are a quorum, and the aggregate
\* was made by exactly their keys.
SignatureVerifies(att, set) ==
  LET n == Cardinality(set)
  IN  /\ att.bits # {}
      /\ att.bits \subseteq 0 .. n - 1
      /\ Cardinality(att.bits) >= MinVotesForFinality(n)
      /\ {AtRank(set, i) : i \in att.bits} = att.voters

\* Slip: the height is enough.
TargetIsWalked_ByNumber(s, data) == data.target_number \in DOMAIN s.ancestors

\* The target is a block this snapshot applied itself.
TargetIsWalked(s, data) ==
  /\ data.target_number \in DOMAIN s.ancestors
  /\ s.ancestors[data.target_number] = data.target_hash

SourceIsJustified(s, data) ==
  s.attestation # None =>
    /\ data.source_number = s.attestation.target_number
    /\ data.source_hash = s.attestation.target_hash

\* check_attestation answers Ok(None): nothing to adopt, and no reason to refuse.
AttestationIgnored(s, h) ==
  h.attestation # None =>
    LET data == h.attestation.data
    IN  /\ data.source_number < data.target_number
        /\ \/ AttestationSet(s, data.target_number) = {}
           \/ /\ data.target_number \in AttestationTargetWindow(h.number, h.time)
              /\ data.target_number \notin DOMAIN s.ancestors

\* check_attestation answers Ok(Some(data)).
AttestationAdopted(s, h) ==
  /\ ~AttestationIgnored(s, h)
  /\ LET data == h.attestation.data
     IN  /\ data.source_number < data.target_number
         /\ data.target_number \in AttestationTargetWindow(h.number, h.time)
         /\ TargetIsWalked(s, data)
         /\ SourceIsJustified(s, data)
         /\ SignatureVerifies(h.attestation, AttestationSet(s, data.target_number))

-----------------------------------------------------------------------------
(* apply_header: the checks, in the order the code makes them. *)

Links(s, h) == h.number = s.number + 1 /\ h.parent_hash = s.hash

SealerInTurn(s, h) ==
  /\ h.signer \in s.validators
  /\ h.difficulty \in {DIFF_NO_TURN, DIFF_IN_TURN}
  /\ h.difficulty = ExpectedDifficulty(s, h.signer)

\* Slip: the oldest block still inside the window is dropped.
Forgotten_Early(s) == IF s.number >= Delay(s) THEN {s.number + 1 - Delay(s)} ELSE {}

\* Removed from recents before the remaining checks run, accepted or not.
Forgotten(s) == IF s.number >= Delay(s) THEN {s.number - Delay(s)} ELSE {}

Forget(s) ==
  [s EXCEPT !.recents =
     [b \in DOMAIN s.recents \ Forgotten(s) |-> s.recents[b]]]

IsEpoch(s, number) == number % s.epoch_length = 0

\* Slip: an epoch header without validators is let through.
EpochExtraPresent_Skipped(s, h) == h.validators \subseteq Validator

EpochExtraPresent(s, h) == IsEpoch(s, h.number) => h.validators # {}

ReachesHistory(s, h) == h.sealed /\ Links(s, h) /\ SealerInTurn(s, h)

\* Slip: an in-turn sealer is never limited.
WithinSealLimit_InTurn(s, h) ==
  h.difficulty = DIFF_NO_TURN => ~SignRecently(Forget(s), h.signer)

WithinSealLimit(s, h) == ~SignRecently(Forget(s), h.signer)

\* verify_out_of_turn_backoff: a sealer out of turn waits for the floor, where it binds.
BackedOff(s, h) == ~(h.early /\ h.difficulty = DIFF_NO_TURN /\ BackoffBinds(Forget(s)))

Accepts(s, h) ==
  /\ ReachesHistory(s, h)
  /\ WithinSealLimit(s, h)
  /\ BackedOff(s, h)
  /\ AttestationIgnored(s, h) \/ AttestationAdopted(s, h)
  /\ EpochExtraPresent(s, h)

-----------------------------------------------------------------------------
(* apply_header: the effect of an accepted header, part by part. *)

\* Slip: the delay of the announced set instead of the sealing one.
PendingAfter_OwnDelay(s, h) ==
  IF IsEpoch(s, h.number)
  THEN [epoch_block |-> h.number,
        activate_at |-> h.number
                        + MinerHistoryCheckLen(Cardinality(h.validators), h.turn_length),
        validators  |-> h.validators,
        turn_length |-> h.turn_length]
  ELSE s.pending

PendingAfter(s, h) ==
  IF IsEpoch(s, h.number)
  THEN [epoch_block |-> h.number,
        activate_at |-> h.number + Delay(s),
        validators  |-> h.validators,
        turn_length |-> h.turn_length]
  ELSE s.pending

\* Slip: source and target replaced together.
Adopt_Wholesale(cur, data) == data

\* Slip: the first vote after a bootstrap justifies its source only.
Adopt_FirstSource(cur, data) ==
  IF cur = None
  THEN [data EXCEPT !.target_number = data.source_number, !.target_hash = data.source_hash]
  ELSE IF data.source_number + 1 # data.target_number
  THEN [cur EXCEPT !.target_number = data.target_number, !.target_hash = data.target_hash]
  ELSE data

\* A vote whose source is not the target's parent moves the justified head only.
Adopt(cur, data) ==
  IF cur # None /\ data.source_number + 1 # data.target_number
  THEN [cur EXCEPT !.target_number = data.target_number,
                   !.target_hash   = data.target_hash]
  ELSE data

AttestationAfter(s, h) ==
  IF AttestationAdopted(s, h) THEN Adopt(s.attestation, h.attestation.data) ELSE s.attestation

FinalizedAfter(s, h) ==
  IF AttestationAfter(s, h) = None THEN 0 ELSE AttestationAfter(s, h).source_number

\* recents with the new sealer, pruned to the finalized head from Maxwell on.
RecentsAfter(s, h) ==
  LET kept == {b \in (DOMAIN s.recents \ Forgotten(s)) \cup {h.number} :
                 h.time >= MAXWELL_TIME => b > FinalizedAfter(s, h)}
  IN  [b \in kept |-> IF b = h.number THEN h.signer ELSE s.recents[b]]

EpochLengthAfter(s, h) ==
  LET lorentz == IF /\ s.epoch_length = DEFAULT_EPOCH_LENGTH
                    /\ h.time >= LORENTZ_TIME
                    /\ (h.number + 1) % LORENTZ_EPOCH_LENGTH = 0
                 THEN LORENTZ_EPOCH_LENGTH ELSE s.epoch_length
  IN  IF /\ lorentz = LORENTZ_EPOCH_LENGTH
         /\ h.time >= MAXWELL_TIME
         /\ (h.number + 1) % MAXWELL_EPOCH_LENGTH = 0
      THEN MAXWELL_EPOCH_LENGTH ELSE lorentz

AncestorsAfter(s, h) ==
  [b \in {c \in DOMAIN s.ancestors \cup {h.number} :
            c + K_ANCESTOR_GENERATION_DEPTH > h.number}
     |-> IF b = h.number THEN h.hash ELSE s.ancestors[b]]

\* The part of the effect that does not depend on a switch of the sealing set.
Advance(s, h) ==
  [s EXCEPT !.number       = h.number,
            !.hash         = h.hash,
            !.pending      = PendingAfter(s, h),
            !.attestation  = AttestationAfter(s, h),
            !.recents      = RecentsAfter(s, h),
            !.epoch_length = EpochLengthAfter(s, h),
            !.milli_known  = TRUE,
            !.ancestors    = AncestorsAfter(s, h)]

\* The announced set takes over; the old vote set is kept for one generation.
Switch(s, pending) ==
  [s EXCEPT !.prev_vote_set  = s.vote_set,
            !.vote_set       = pending.validators,
            !.set_changed_at = s.number,
            !.validators     = pending.validators,
            !.turn_length    = pending.turn_length,
            !.pending        = None,
            !.recents        = [b \in {} |-> 0]]

SwitchDue(s, h) ==
  LET pending == PendingAfter(s, h)
  IN  pending # None /\ pending.activate_at = h.number

Apply(s, h) ==
  IF SwitchDue(s, h) THEN Switch(Advance(s, h), PendingAfter(s, h)) ELSE Advance(s, h)

\* What a refused header leaves behind.
Refuse(s, h) == IF ReachesHistory(s, h) THEN Forget(s) ELSE s
=============================================================================
