--------------------------- MODULE MCSnapshotWalk ---------------------------
(***************************************************************************)
(* A bounded upstream for SnapshotWalk: honest headers and, with Faults,   *)
(* headers that are wrong in one respect.  Block b's hash is b; Bogus is   *)
(* nobody's hash.                                                          *)
(***************************************************************************)
EXTENDS SnapshotWalk, FiniteSetsExt

CONSTANTS
  Sets, Turns,               \* what epoch headers may announce
  StartNumbers, StartSets,   \* checkpoints
  TimeAt(_),                 \* the timestamp of a height
  Faults                     \* may headers be wrong?

Bogus == MaxNumber + 9

MCHash == 0 .. MaxNumber + 2 \cup {Bogus}

\* One fork every four blocks.
ForkEveryFour(n) ==
  IF n < 4 THEN 0 ELSE IF n < 8 THEN LORENTZ_TIME ELSE IF n < 12 THEN MAXWELL_TIME ELSE FERMI_TIME

\* The turns that leave room for an activation within an epoch of a length.
Fitting(turns, length) == {t \in turns : 2 * t <= length - 2}

MCCheckpoints ==
  UNION {LET length == ParamsEpochLength(TimeAt(n))
         IN {FromCheckpoint(n, n, length, S, IF keys THEN S ELSE {}, turn) :
               S \in StartSets, keys \in {TRUE, ~Faults},
               turn \in {1} \cup Fitting(Turns, length)} : n \in StartNumbers}

\* Votes of a committee: everyone but the last of three and, with Faults, the first alone.
Ballots(C) ==
  IF C = {} THEN {}
  ELSE {[bits |-> {Rank(C, v) : v \in V}, voters |-> V] :
          V \in {IF Cardinality(C) > 2 THEN C \ {Max(C)} ELSE C}
                \cup IF Faults THEN {{Min(C)}} ELSE {}}

Vote(sn, sh, tn, th) ==
  [source_number |-> sn, source_hash |-> sh, target_number |-> tn, target_hash |-> th]

\* Sources a vote for target t may name.
Sources(s, t) ==
  IF s.attestation = None THEN {Monus(t, 1)} \cup IF Faults THEN {Monus(t, 3)} ELSE {}
  ELSE {JustifiedNumber(s)} \cup IF Faults THEN {FinalizedNumber(s)} ELSE {}

FaultyVotes(s) ==
  {Vote(JustifiedNumber(s), Bogus, s.number, s.number),
   Vote(JustifiedNumber(s), JustifiedNumber(s), s.number, Bogus)}

MCVotes(s) ==
  {Vote(v[1], v[1], v[2], v[2]) :
     v \in {<<x, y>> \in (0 .. s.number) \X (Monus(s.number, 3) .. s.number) : x \in Sources(s, y)}}
  \cup IF Faults THEN FaultyVotes(s) ELSE {}

MCAttestations(s) ==
  {None} \cup
  {[data |-> d, bits |-> b.bits, voters |-> b.voters] :
     d \in MCVotes(s), b \in Ballots(s.vote_set) \cup Ballots(s.prev_vote_set)}

Build(s, v, diff, early, att, S, turn) ==
  [number |-> s.number + 1, hash |-> s.number + 1, parent_hash |-> s.hash,
   time |-> TimeAt(s.number + 1), sealed |-> TRUE, signer |-> v, difficulty |-> diff,
   early |-> early, attestation |-> att, validators |-> S, turn_length |-> turn]

Extras(s) ==
  IF IsEpoch(s, s.number + 1)
  THEN (Sets \X ({1} \cup Fitting(Turns, s.epoch_length))) \cup IF Faults THEN {<<{}, 1>>} ELSE {}
  ELSE {<<{}, 1>>}

FaultyHeaders(s) ==
  LET plain == {Build(s, v, d, e, None, x[1], x[2]) :
                  v \in Validator, d \in 1 .. 3, e \in BOOLEAN, x \in Extras(s)}
      stray == {Build(s, v, ExpectedDifficulty(s, v), FALSE, None, {}, 1) : v \in s.validators}
  IN  plain
      \cup {[h EXCEPT !.sealed = FALSE] : h \in stray}
      \cup {[h EXCEPT !.parent_hash = Bogus] : h \in stray}
      \cup {[h EXCEPT !.number = h.number + 1] : h \in stray}

MCOffered(s) ==
  {Build(s, v, ExpectedDifficulty(s, v), FALSE, att, x[1], x[2]) :
     v \in s.validators, att \in MCAttestations(s), x \in Extras(s)}
  \cup IF Faults THEN FaultyHeaders(s) ELSE {}
=============================================================================
